--------------------------- MODULE AssembleProofs ---------------------------
(***************************************************************************)
(* The patch of assemble, for every code: each byte is the one the latest  *)
(* item of the source has there, whatever runs the instructions were       *)
(* assembled in and whichever of them failed; and what pchtxt generate     *)
(* writes item by item is the same patch when it is read back.             *)
(***************************************************************************)
EXTENDS DebugPchtxt, PatchVecProofs

-----------------------------------------------------------------------------
(* Where the bytes of an item are.                                         *)

Base(i) == code[i].address + HeaderLen

LEMMA ItemIs ==
    ASSUME code \in Seq(Item), NEW i \in DOMAIN code
    PROVE  /\ code[i].kind \in {"data", "string", "asm"}
           /\ code[i].address \in Nat
           /\ code[i].width \in Nat
           /\ code[i].kind = "asm" => code[i].width = 4
           /\ Base(i) \in Nat /\ Base(i) > 0
           /\ Base(i) + code[i].width <= Top + 1
           /\ NsoAddress(code[i].address) = Base(i)
<1>. USE TopIsNat, HeaderFits
<1>1. code[i] \in Item
    OBVIOUS
<1>2. /\ code[i].kind \in {"data", "string", "asm"}
      /\ code[i].address \in 0..(Top - HeaderLen)
      /\ code[i].width \in Nat
      /\ code[i].kind = "asm" => code[i].width = 4
      /\ code[i].address + code[i].width <= Top - HeaderLen + 1
    BY <1>1 DEF Item, AsmWidth
<1>3. code[i].address \in Nat /\ code[i].address + HeaderLen <= Top
    BY <1>2
<1>4. NsoAddress(code[i].address) = Base(i)
    <2> DEFINE a == code[i].address
    <2>1. a \in Nat /\ HeaderLen \in Nat /\ a + HeaderLen <= Top /\ Top \in Nat
        BY <1>3
    <2>. HIDE DEF a
    <2>2. Plus(a, HeaderLen) = a + HeaderLen
        BY <2>1, PlusIs
    <2>. QED
        BY <2>2 DEF NsoAddress, Base, a
<1>5. Base(i) \in Nat /\ Base(i) > 0
    BY <1>3 DEF Base
<1>6. Base(i) + code[i].width <= Top + 1
    BY <1>2 DEF Base
<1>. QED
    BY <1>2, <1>3, <1>4, <1>5, <1>6

\* No two bytes of an item are at one address; only the NUL of a string can be at address 0.
LEMMA CellIs ==
    ASSUME code \in Seq(Item), NEW i \in DOMAIN code
    PROVE  /\ Places(i) \in SUBSET Nat
           /\ \A k \in Places(i) : k # 0 => k \in 1..code[i].width /\ Cell(i, k) = Base(i) + k - 1
           /\ 0 \in Places(i) => Cell(i, 0) = Plus(Base(i), code[i].width)
           /\ \A k, l \in Places(i) : Cell(i, k) = Cell(i, l) => k = l
<1>. USE TopIsNat
<1> DEFINE w == code[i].width
<1>1. /\ w \in Nat /\ Base(i) \in Nat /\ Base(i) > 0 /\ Base(i) + w <= Top + 1
      /\ NsoAddress(code[i].address) = Base(i)
    BY ItemIs
<1>2. Places(i) \in SUBSET (0..w)
    BY <1>1 DEF Places
<1>3. \A k \in 1..w : Plus(Base(i), k - 1) = Base(i) + k - 1
    <2>1. TAKE k \in 1..w
    <2>2. k - 1 \in Nat /\ Base(i) + (k - 1) <= Top
        BY <1>1
    <2>. QED
        BY <1>1, <2>2, PlusIs
<1>4. Plus(Base(i), w) = IF Base(i) + w = Top + 1 THEN 0 ELSE Base(i) + w
    BY <1>1, PlusIs
<1>5. /\ \A k \in 1..w : Cell(i, k) = Base(i) + k - 1
      /\ Cell(i, 0) = Plus(Base(i), w)
    BY <1>1, <1>3 DEF Cell
<1>6. \A k, l \in 0..w : Cell(i, k) = Cell(i, l) => k = l
    <2>1. TAKE k, l \in 0..w
    <2>. QED
        BY <1>1, <1>4, <1>5
<1>. QED
    BY <1>2, <1>5, <1>6

-----------------------------------------------------------------------------
(* The patch of the first n - 1 items.                                     *)

ByteOf(i, k) == [item |-> i, byte |-> k, for |-> code[i].address]

Covered(m, n) == UNION {Cells(i) : i \in m..(n - 1)}

IsTheLatestAt(b, a, n) ==
    /\ b.item \in 1..(n - 1)
    /\ b.byte \in Places(b.item)
    /\ b = ByteOf(b.item, b.byte)
    /\ a = Cell(b.item, b.byte)
    /\ \A j \in (b.item + 1)..(n - 1) : a \notin Cells(j)

Latest(p, n) ==
    /\ p = [a \in DOMAIN p |-> p[a]]
    /\ DOMAIN p = Covered(1, n)
    /\ \A a \in DOMAIN p : IsTheLatestAt(p[a], a, n)

\* q is p with the bytes of the items from m to n - 1 written over it.
Extends(p, q, m, n) ==
    /\ q = [a \in DOMAIN q |-> q[a]]
    /\ DOMAIN q = DOMAIN p \cup Covered(m, n)
    /\ \A i \in m..(n - 1) : \A k \in Places(i) : q[Cell(i, k)] = ByteOf(i, k)
    /\ \A a \in DOMAIN p : a \notin Covered(m, n) => q[a] = p[a]

LEMMA LatestOfNone == Latest(NoPatch, 1)
<1>1. Covered(1, 1) = {}
    BY DEF Covered
<1>. QED
    BY <1>1 DEF Latest, NoPatch

LEMMA LatestExtends ==
    ASSUME NEW p, NEW q, NEW m \in Nat, NEW n \in Nat, 1 <= m, m <= n,
           Latest(p, m), Extends(p, q, m, n)
    PROVE  Latest(q, n)
<1>1. Covered(1, n) = Covered(1, m) \cup Covered(m, n)
    <2>1. 1..(n - 1) = 1..(m - 1) \cup m..(n - 1)
        OBVIOUS
    <2>. QED
        BY <2>1 DEF Covered
<1>2. DOMAIN q = Covered(1, n)
    BY <1>1 DEF Latest, Extends
<1>3. ASSUME NEW a \in DOMAIN q
      PROVE  IsTheLatestAt(q[a], a, n)
    <2>1. CASE a \in Covered(m, n)
        <3>1. PICK i \in m..(n - 1) : \E k \in Places(i) : a = Cell(i, k)
            BY <2>1 DEF Covered, Cells
        <3>2. PICK k \in Places(i) : a = Cell(i, k)
            BY <3>1
        <3>3. q[a] = ByteOf(i, k)
            BY <3>2 DEF Extends
        <3>4. \A j \in (i + 1)..(n - 1) : a \notin Cells(j)
            <4>1. SUFFICES ASSUME NEW j \in (i + 1)..(n - 1), a \in Cells(j)
                           PROVE  FALSE
                OBVIOUS
            <4>2. PICK l \in Places(j) : a = Cell(j, l)
                BY <4>1 DEF Cells
            <4>3. j \in m..(n - 1)
                OBVIOUS
            <4>4. q[a] = ByteOf(j, l)
                BY <4>2, <4>3 DEF Extends
            <4>5. i = j
                BY <3>3, <4>4 DEF ByteOf
            <4>. QED
                BY <4>5
        <3>5. /\ ByteOf(i, k).item = i
              /\ ByteOf(i, k).byte = k
            BY DEF ByteOf
        <3>6. i \in 1..(n - 1)
            OBVIOUS
        <3>. QED
            BY <3>2, <3>3, <3>4, <3>5, <3>6 DEF IsTheLatestAt
    <2>2. CASE a \notin Covered(m, n)
        <3>1. a \in DOMAIN p /\ q[a] = p[a]
            BY <2>2 DEF Extends
        <3>2. IsTheLatestAt(p[a], a, m)
            BY <3>1 DEF Latest
        <3>3. \A j \in m..(n - 1) : a \notin Cells(j)
            BY <2>2 DEF Covered
        <3> DEFINE i == p[a].item
        <3>4. i \in 1..(m - 1)
            BY <3>2 DEF IsTheLatestAt
        <3>5. i \in 1..(n - 1)
            BY <3>4
        <3>6. \A j \in (i + 1)..(n - 1) : j \in (i + 1)..(m - 1) \/ j \in m..(n - 1)
            BY <3>4
        <3>7. \A j \in (i + 1)..(n - 1) : a \notin Cells(j)
            BY <3>2, <3>3, <3>6 DEF IsTheLatestAt
        <3>. QED
            BY <3>1, <3>2, <3>5, <3>7 DEF IsTheLatestAt
    <2>. QED
        BY <2>1, <2>2
<1>. QED
    BY <1>2, <1>3 DEF Latest, Extends

\* There is one such patch.
LEMMA LatestIsUnique ==
    ASSUME code \in Seq(Item), NEW n \in Nat, n <= Len(code) + 1,
           NEW p, NEW q, Latest(p, n), Latest(q, n)
    PROVE  p = q
<1>1. DOMAIN p = DOMAIN q
    BY DEF Latest
<1>2. ASSUME NEW a \in DOMAIN p
      PROVE  p[a] = q[a]
    <2> DEFINE b == p[a]  c == q[a]
    <2>1. IsTheLatestAt(b, a, n) /\ IsTheLatestAt(c, a, n)
        BY <1>1 DEF Latest
    <2>. HIDE DEF b, c
    <2>2. b.item \in 1..(n - 1) /\ c.item \in 1..(n - 1)
        BY <2>1 DEF IsTheLatestAt
    <2>3. a \in Cells(b.item) /\ a \in Cells(c.item)
        BY <2>1 DEF IsTheLatestAt, Cells
    <2>4. ~(b.item < c.item) /\ ~(c.item < b.item)
        <3>1. b.item < c.item => c.item \in (b.item + 1)..(n - 1)
            BY <2>2
        <3>2. c.item < b.item => b.item \in (c.item + 1)..(n - 1)
            BY <2>2
        <3>. QED
            BY <2>1, <2>3, <3>1, <3>2 DEF IsTheLatestAt
    <2>5. b.item = c.item /\ b.item \in DOMAIN code
        BY <2>2, <2>4
    <2>6. b.byte = c.byte
        BY <2>1, <2>5, CellIs DEF IsTheLatestAt
    <2>. QED
        BY <2>1, <2>5, <2>6 DEF IsTheLatestAt, b, c
<1>. QED
    BY <1>1, <1>2 DEF Latest

-----------------------------------------------------------------------------
(* What each way of writing an item does to the patch.                     *)

LEMMA CoveredOne ==
    ASSUME NEW i \in Nat
    PROVE  Covered(i, i + 1) = Cells(i)
<1>1. i..((i + 1) - 1) = {i}
    OBVIOUS
<1>. QED
    BY <1>1 DEF Covered

\* The n bytes are those of item i, byte x being the one at place[x].
IsItem(i, bytes, n, place) ==
    /\ DOMAIN bytes = 1..n
    /\ \A x \in 1..n : /\ place[x] \in Places(i)
                       /\ Plus(Base(i), x - 1) = Cell(i, place[x])
                       /\ bytes[x] = ByteOf(i, place[x])
    /\ \A k \in Places(i) : \E x \in 1..n : place[x] = k
    /\ \A x, y \in 1..n : place[x] = place[y] => x = y

LEMMA ItemExtends ==
    ASSUME code \in Seq(Item), NEW i \in DOMAIN code, NEW p, NEW bytes, NEW n \in Nat, NEW place,
           IsItem(i, bytes, n, place)
    PROVE  Extends(p, Put(p, Base(i), bytes), i, i + 1)
<1> DEFINE q == Put(p, Base(i), bytes)
<1>1. \A k, l \in Places(i) : Cell(i, k) = Cell(i, l) => k = l
    BY CellIs
<1>2. Distinct(Base(i), n)
    <2>1. SUFFICES ASSUME NEW x \in 1..n, NEW y \in 1..n, Plus(Base(i), x - 1) = Plus(Base(i), y - 1)
                   PROVE  x = y
        BY DEF Distinct
    <2>2. /\ place[x] \in Places(i) /\ place[y] \in Places(i)
          /\ Cell(i, place[x]) = Cell(i, place[y])
        BY <2>1 DEF IsItem
    <2>3. place[x] = place[y]
        BY <1>1, <2>2
    <2>. QED
        BY <2>3 DEF IsItem
<1>3. PutOver(p, q, Base(i), bytes, n)
    BY <1>2, PutIs DEF IsItem
<1>. HIDE DEF q
<1>4. i \in Nat
    OBVIOUS
<1>5. ASSUME NEW a \in Span(Base(i), n)
      PROVE  a \in Cells(i)
    <2>1. PICK x \in 1..n : a = Plus(Base(i), x - 1)
        BY <1>5 DEF Span
    <2>. QED
        BY <2>1 DEF IsItem, Cells
<1>6. ASSUME NEW k \in Places(i)
      PROVE  Cell(i, k) \in Span(Base(i), n) /\ q[Cell(i, k)] = ByteOf(i, k)
    <2>1. PICK x \in 1..n : place[x] = k
        BY DEF IsItem
    <2>2. Plus(Base(i), x - 1) = Cell(i, k) /\ bytes[x] = ByteOf(i, k)
        BY <2>1 DEF IsItem
    <2>3. q[Plus(Base(i), x - 1)] = bytes[x]
        BY <1>3 DEF PutOver
    <2>. QED
        BY <2>2, <2>3 DEF Span
<1>7. Covered(i, i + 1) = Span(Base(i), n)
    <2>1. Span(Base(i), n) = Cells(i)
        BY <1>5, <1>6 DEF Cells
    <2>. QED
        BY <1>4, <2>1, CoveredOne
<1>8. \A j \in i..((i + 1) - 1) : j = i
    BY <1>4
<1>9. Extends(p, q, i, i + 1)
    BY <1>3, <1>6, <1>7, <1>8 DEF Extends, PutOver
<1>. QED
    BY <1>9 DEF q

LEMMA DataExtends ==
    ASSUME code \in Seq(Item), NEW i \in DOMAIN code, code[i].kind = "data", NEW p
    PROVE  Extends(p, Put(p, Base(i), Literal(i)), i, i + 1)
<1> DEFINE w == code[i].width
           place == [x \in 1..w |-> x]
<1>1. w \in Nat /\ NsoAddress(code[i].address) = Base(i)
    BY ItemIs
<1>2. Places(i) = 1..w
    BY DEF Places, Bad
<1>3. DOMAIN Literal(i) = 1..w /\ \A x \in 1..w : Literal(i)[x] = ByteOf(i, x)
    BY DEF Literal, ByteOf
<1>4. \A x \in 1..w : Plus(Base(i), x - 1) = Cell(i, x)
    BY <1>1 DEF Cell
<1>. HIDE DEF w
<1>5. \A x \in 1..w : place[x] = x
    OBVIOUS
<1>. HIDE DEF place
<1>6. IsItem(i, Literal(i), w, place)
    BY <1>2, <1>3, <1>4, <1>5 DEF IsItem
<1>. QED
    BY <1>1, <1>6, ItemExtends

\* A string as its text and the byte after it, in one.
Text(i) == Literal(i) \o <<Nul(i)>>

LEMMA ItemTextIs ==
    ASSUME code \in Seq(Item), NEW i \in DOMAIN code
    PROVE  /\ DOMAIN Text(i) = 1..(code[i].width + 1)
           /\ \A k \in 1..code[i].width : Text(i)[k] = ByteOf(i, k)
           /\ Text(i)[code[i].width + 1] = ByteOf(i, 0)
           /\ Text(i) = [k \in 1..(code[i].width + 1) |-> Text(i)[k]]
<1> DEFINE w == code[i].width
           B == {ByteOf(i, k) : k \in 0..w}
<1>1. w \in Nat
    BY ItemIs
<1>2. Literal(i) = [k \in 1..w |-> ByteOf(i, k)] /\ Nul(i) = ByteOf(i, 0)
    BY DEF Literal, Nul, ByteOf
<1>3. code[i].width = w
    OBVIOUS
<1>. HIDE DEF w
<1>4. ByteOf(i, 0) \in B /\ \A k \in 1..w : ByteOf(i, k) \in B
    BY <1>1
<1>. HIDE DEF B
<1>5. Literal(i) \in Seq(B) /\ Len(Literal(i)) = w
    BY <1>1, <1>2, <1>4
<1>6. <<Nul(i)>> \in Seq(B) /\ Len(<<Nul(i)>>) = 1 /\ <<Nul(i)>>[1] = ByteOf(i, 0)
    BY <1>2, <1>4
<1>7. Text(i) \in Seq(B) /\ Len(Text(i)) = w + 1
    BY <1>1, <1>5, <1>6 DEF Text
<1>8. DOMAIN Text(i) = 1..(w + 1)
    BY <1>7
<1>9. \A k \in 1..w : Text(i)[k] = ByteOf(i, k)
    <2>1. TAKE k \in 1..w
    <2>2. Text(i)[k] = Literal(i)[k]
        BY <1>1, <1>5, <1>6 DEF Text
    <2>. QED
        BY <1>2, <2>2
<1>10. Text(i)[w + 1] = ByteOf(i, 0)
    BY <1>1, <1>5, <1>6 DEF Text
<1>11. Text(i) = [k \in 1..(w + 1) |-> Text(i)[k]]
    <2> DEFINE t == Text(i)
    <2>. HIDE DEF t
    <2>1. t \in Seq(B) /\ Len(t) = w + 1
        BY <1>7 DEF t
    <2>2. t = [k \in 1..(w + 1) |-> t[k]]
        BY <1>1, <2>1
    <2>. QED
        BY <2>2 DEF t
<1>. QED
    BY <1>3, <1>8, <1>9, <1>10, <1>11

LEMMA TextExtends ==
    ASSUME code \in Seq(Item), NEW i \in DOMAIN code, code[i].kind = "string", NEW p
    PROVE  Extends(p, Put(p, Base(i), Text(i)), i, i + 1)
<1> DEFINE w == code[i].width
           place == [x \in 1..(w + 1) |-> IF x = w + 1 THEN 0 ELSE x]
<1>1. w \in Nat /\ NsoAddress(code[i].address) = Base(i)
    BY ItemIs
<1>2. Places(i) = 0..w
    BY DEF Places, Bad
<1>3. /\ DOMAIN Text(i) = 1..(w + 1)
      /\ \A x \in 1..w : Text(i)[x] = ByteOf(i, x)
      /\ Text(i)[w + 1] = ByteOf(i, 0)
    BY ItemTextIs
<1>4. \A x \in 1..w : Plus(Base(i), x - 1) = Cell(i, x)
    BY <1>1 DEF Cell
<1>5. Plus(Base(i), (w + 1) - 1) = Cell(i, 0)
    <2>1. (w + 1) - 1 = w /\ 0 \in 0..w
        BY <1>1
    <2>. QED
        BY <1>2, <2>1, CellIs
<1>. HIDE DEF w
<1>6. \A x \in 1..(w + 1) : x = w + 1 \/ x \in 1..w
    BY <1>1
<1>7. \A x \in 1..(w + 1) : place[x] = IF x = w + 1 THEN 0 ELSE x
    OBVIOUS
<1>. HIDE DEF place
<1>8. ASSUME NEW x \in 1..(w + 1)
      PROVE  /\ place[x] \in 0..w
             /\ Plus(Base(i), x - 1) = Cell(i, place[x])
             /\ Text(i)[x] = ByteOf(i, place[x])
    <2>1. CASE x = w + 1
        BY <1>1, <1>3, <1>5, <1>7, <2>1
    <2>2. CASE x # w + 1
        <3>1. x \in 1..w /\ place[x] = x
            BY <1>6, <1>7, <2>2
        <3>2. x \in 0..w
            BY <3>1
        <3>. QED
            BY <1>3, <1>4, <3>1, <3>2
    <2>. QED
        BY <2>1, <2>2
<1>9. ASSUME NEW k \in 0..w
      PROVE  \E x \in 1..(w + 1) : place[x] = k
    <2>1. CASE k = 0
        <3>1. w + 1 \in 1..(w + 1)
            BY <1>1
        <3>. QED
            BY <1>7, <2>1, <3>1
    <2>2. CASE k # 0
        <3>1. k \in 1..(w + 1) /\ k # w + 1
            BY <1>1, <2>2
        <3>. QED
            BY <1>7, <3>1
    <2>. QED
        BY <2>1, <2>2
<1>10. \A x, y \in 1..(w + 1) : place[x] = place[y] => x = y
    BY <1>1, <1>7
<1>11. IsItem(i, Text(i), w + 1, place)
    BY <1>2, <1>3, <1>8, <1>9, <1>10 DEF IsItem
<1>. QED
    BY <1>1, <1>11, ItemExtends

\* put of the text and then put_byte of the NUL do the same.
LEMMA TextIsPut ==
    ASSUME code \in Seq(Item), NEW i \in DOMAIN code, code[i].kind = "string", NEW p
    PROVE  Extends(p, PutByte(Put(p, Base(i), Literal(i)), Plus(Base(i), code[i].width), Nul(i)),
                   i, i + 1)
<1> DEFINE w == code[i].width
           n == Plus(Base(i), w)
           q == Put(p, Base(i), Literal(i))
           s == PutByte(q, n, Nul(i))
<1>1. w \in Nat /\ i \in Nat /\ NsoAddress(code[i].address) = Base(i)
    BY ItemIs
<1>2. Places(i) = 0..w
    BY DEF Places, Bad
<1>3. DOMAIN Literal(i) = 1..w /\ \A k \in 1..w : Literal(i)[k] = ByteOf(i, k)
    BY DEF Literal, ByteOf
<1>4. \A k \in 1..w : Cell(i, k) = Plus(Base(i), k - 1)
    BY <1>1 DEF Cell
<1>. HIDE DEF w
<1>5. Cell(i, 0) = n
    <2>1. 0 \in 0..w
        BY <1>1
    <2>. QED
        BY <1>2, <2>1, CellIs DEF w
<1>6. \A k, l \in 0..w : Cell(i, k) = Cell(i, l) => k = l
    BY <1>2, CellIs
<1>7. \A k \in 0..w : k = 0 \/ k \in 1..w
    OBVIOUS
<1>8. \A k \in 1..w : k \in 0..w /\ k # 0
    OBVIOUS
<1>9. Distinct(Base(i), w)
    BY <1>4, <1>6, <1>8 DEF Distinct
<1>10. PutOver(p, q, Base(i), Literal(i), w)
    BY <1>1, <1>3, <1>9, PutIs
<1>. HIDE DEF q, n
<1>11. s = [a \in DOMAIN q \cup {n} |-> IF a = n THEN ByteOf(i, 0) ELSE q[a]]
    BY DEF PutByte, Nul, ByteOf
<1>. HIDE DEF s
<1>12. Cells(i) = Span(Base(i), w) \cup {n}
    <2>1. ASSUME NEW k \in 0..w
          PROVE  Cell(i, k) \in Span(Base(i), w) \cup {n}
        BY <1>4, <1>5, <1>7 DEF Span
    <2>2. 0 \in 0..w
        BY <1>1
    <2>3. ASSUME NEW a \in Span(Base(i), w)
          PROVE  a \in Cells(i)
        <3>1. PICK k \in 1..w : a = Plus(Base(i), k - 1)
            BY <2>3 DEF Span
        <3>. QED
            BY <1>2, <1>4, <1>8, <3>1 DEF Cells
    <2>. QED
        BY <1>2, <1>5, <2>1, <2>2, <2>3 DEF Cells
<1>13. ASSUME NEW k \in Places(i)
       PROVE  s[Cell(i, k)] = ByteOf(i, k)
    <2>1. CASE k = 0
        BY <1>5, <1>11, <2>1
    <2>2. CASE k # 0
        <3>1. k \in 1..w
            BY <1>2, <1>7, <2>2
        <3>2. Cell(i, k) # n
            <4>1. k \in 0..w /\ 0 \in 0..w
                BY <1>1, <3>1
            <4>. QED
                BY <1>5, <1>6, <2>2, <4>1
        <3>3. Cell(i, k) \in DOMAIN q /\ q[Cell(i, k)] = ByteOf(i, k)
            BY <1>3, <1>4, <1>10, <3>1 DEF PutOver, Span
        <3>. QED
            BY <1>11, <3>2, <3>3
    <2>. QED
        BY <2>1, <2>2
<1>14. Covered(i, i + 1) = Span(Base(i), w) \cup {n}
    BY <1>1, <1>12, CoveredOne
<1>15. /\ s = [a \in DOMAIN s |-> s[a]]
       /\ DOMAIN s = DOMAIN q \cup {n}
       /\ \A a \in DOMAIN q : a # n => s[a] = q[a]
    BY <1>11
<1>16. \A j \in i..((i + 1) - 1) : j = i
    BY <1>1
<1>17. Extends(p, s, i, i + 1)
    BY <1>10, <1>13, <1>14, <1>15, <1>16 DEF Extends, PutOver
<1>. QED
    BY <1>17 DEF s, q, n, w

\* Items i to i + n - 1 are instructions that follow one another, and each assembles.
IsRun(i, n) ==
    \A k \in i..(i + n - 1) : Follows(i, k) /\ code[k].valid

LEMMA QuotientIs ==
    ASSUME NEW x \in Nat, NEW n \in Nat, x >= 1, x <= n * 4
    PROVE  LET d == (x - 1) \div 4
               k == ((x - 1) % 4) + 1
           IN  d \in 0..(n - 1) /\ k \in 1..4 /\ x - 1 = 4 * d + k - 1
  OBVIOUS

LEMMA QuotientOf ==
    ASSUME NEW d \in Nat, NEW k \in 1..4
    PROVE  ((4 * d + k) - 1) \div 4 = d /\ (((4 * d + k) - 1) % 4) + 1 = k
  OBVIOUS

LEMMA RunExtends ==
    ASSUME code \in Seq(Item), NEW i \in DOMAIN code, NEW n \in Nat, n > 0, i + n - 1 \in DOMAIN code,
           IsRun(i, n), NEW p
    PROVE  Extends(p, Put(p, Base(i), Encode(i, n, code[i].address)), i, i + n)
<1>. USE TopIsNat
<1> DEFINE q == Put(p, Base(i), Encode(i, n, code[i].address))
           bytes == Encode(i, n, code[i].address)
           owner(x) == i + (x - 1) \div 4
           place(x) == ((x - 1) % 4) + 1
           at(x) == Plus(Base(i), x - 1)
<1>1. i \in Nat /\ Base(i) \in Nat /\ code[i].address \in Nat
    BY ItemIs
<1>2. ASSUME NEW d \in 0..(n - 1)
      PROVE  /\ i + d \in DOMAIN code /\ i + d \in i..(i + n - 1)
             /\ Places(i + d) = 1..4
             /\ code[i + d].address = code[i].address + d * 4
             /\ Base(i + d) = Base(i) + d * 4
             /\ Base(i) + d * 4 + 4 <= Top + 1
             /\ \A k \in 1..4 : Cell(i + d, k) = Base(i) + d * 4 + k - 1
    <2>1. i + d \in DOMAIN code /\ i + d \in i..(i + n - 1)
        BY <1>1
    <2>2. /\ code[i + d].kind = "asm" /\ code[i + d].valid
          /\ code[i + d].address = code[i].address + ((i + d) - i) * AsmWidth
        BY <2>1 DEF IsRun, Follows
    <2>3. code[i + d].address = code[i].address + d * 4
        BY <1>1, <2>2 DEF AsmWidth
    <2>4. code[i + d].width = 4 /\ Base(i + d) + 4 <= Top + 1
        BY <2>1, <2>2, ItemIs
    <2>5. Places(i + d) = 1..4
        BY <2>2, <2>4 DEF Places, Bad
    <2>6. Base(i + d) = Base(i) + d * 4
        <3> DEFINE a == code[i].address
                   m == d * 4
        <3>1. a \in Nat /\ m \in Nat /\ HeaderLen \in Nat /\ code[i + d].address = a + m
            BY <1>1, <2>3, HeaderFits
        <3> HIDE DEF a, m
        <3>2. (a + m) + HeaderLen = (a + HeaderLen) + m
            BY <3>1
        <3>. QED
            BY <3>1, <3>2 DEF Base, a, m
    <2>7. \A k \in 1..4 : Cell(i + d, k) = Base(i + d) + k - 1
        <3> DEFINE j == i + d
        <3>1. j \in DOMAIN code /\ Places(j) = 1..4
            BY <2>1, <2>5
        <3> HIDE DEF j
        <3>2. \A k \in Places(j) : k # 0 => Cell(j, k) = Base(j) + k - 1
            BY <3>1, CellIs
        <3>3. \A k \in 1..4 : Cell(j, k) = Base(j) + k - 1
            BY <3>1, <3>2
        <3>. QED
            BY <3>3 DEF j
    <2>. QED
        BY <2>1, <2>3, <2>4, <2>5, <2>6, <2>7
<1>3. DOMAIN bytes = 1..(n * 4) /\ n * 4 \in Nat
    BY DEF Encode, AsmWidth
<1>4. ASSUME NEW x \in 1..(n * 4)
      PROVE  /\ owner(x) \in i..(i + n - 1)
             /\ place(x) \in Places(owner(x))
             /\ at(x) = Base(i) + x - 1
             /\ at(x) = Cell(owner(x), place(x))
             /\ bytes[x] = ByteOf(owner(x), place(x))
    <2> DEFINE d == (x - 1) \div 4
               k == ((x - 1) % 4) + 1
    <2>1. /\ d \in 0..(n - 1) /\ k \in 1..4 /\ x - 1 = 4 * d + k - 1
          /\ owner(x) = i + d /\ place(x) = k
        BY QuotientIs
    <2>2. bytes[x] = [item |-> i + d, byte |-> k, for |-> code[i].address + ((i + d) - i) * 4]
        BY <1>3 DEF Encode, AsmWidth
    <2>. HIDE DEF d, k, owner, place
    <2>3. bytes[x] = ByteOf(i + d, k)
        <3>1. (i + d) - i = d
            BY <1>1, <2>1
        <3>2. code[i + d].address = code[i].address + d * 4
            BY <1>2, <2>1
        <3>. QED
            BY <2>2, <3>1, <3>2 DEF ByteOf
    <2>4. Cell(i + d, k) = Base(i) + d * 4 + k - 1 /\ Base(i) + d * 4 + 4 <= Top + 1
        BY <1>2, <2>1
    <2>5. /\ Base(i) + (x - 1) = Cell(i + d, k) /\ Base(i) + (x - 1) = Base(i) + x - 1
          /\ Base(i) + (x - 1) <= Top /\ x - 1 \in Nat
        <3> DEFINE b == Base(i)  c == Cell(i + d, k)
        <3>1. /\ b \in Nat /\ d \in Nat /\ k \in 1..4 /\ x \in Int /\ x - 1 = 4 * d + k - 1
              /\ c = b + d * 4 + k - 1 /\ b + d * 4 + 4 <= Top + 1
            BY <1>1, <1>3, <2>1, <2>4
        <3>. HIDE DEF b, c
        <3>2. b + (x - 1) = c /\ b + (x - 1) = b + x - 1 /\ b + (x - 1) <= Top /\ x - 1 \in Nat
            BY <3>1
        <3>. QED
            BY <3>2 DEF b, c
    <2>6. at(x) = Base(i) + (x - 1)
        <3> DEFINE b == Base(i)  m == x - 1
        <3>1. b \in Nat /\ m \in Nat /\ b + m <= Top
            BY <1>1, <2>5
        <3>. HIDE DEF b, m
        <3>2. Plus(b, m) = b + m
            BY <3>1, PlusIs
        <3>. QED
            BY <3>2 DEF b, m
    <2>7. i + d \in i..(i + n - 1) /\ Places(i + d) = 1..4
        BY <1>2, <2>1
    <2>. QED
        BY <1>1, <2>1, <2>3, <2>5, <2>6, <2>7
<1>5. Distinct(Base(i), n * 4)
    <2>1. SUFFICES ASSUME NEW x \in 1..(n * 4), NEW y \in 1..(n * 4), at(x) = at(y)
                   PROVE  x = y
        BY DEF Distinct
    <2>2. at(x) = Base(i) + x - 1 /\ at(y) = Base(i) + y - 1
        BY <1>4
    <2>. HIDE DEF at
    <2>3. Base(i) + x - 1 = Base(i) + y - 1
        BY <2>1, <2>2
    <2>4. x \in Int /\ y \in Int
        OBVIOUS
    <2>. QED
        BY <1>1, <2>3, <2>4
<1>6. PutOver(p, q, Base(i), bytes, n * 4)
    BY <1>3, <1>5, PutIs
<1>. HIDE DEF q, bytes
<1>7. ASSUME NEW j \in i..(i + n - 1), NEW k \in Places(j)
      PROVE  Cell(j, k) \in Span(Base(i), n * 4) /\ q[Cell(j, k)] = ByteOf(j, k)
    <2> DEFINE d == j - i
               x == 4 * d + k
    <2>1. d \in 0..(n - 1) /\ j = i + d
        BY <1>1
    <2>. HIDE DEF d
    <2>2. k \in 1..4 /\ Cell(j, k) = Base(i) + d * 4 + k - 1
        BY <1>2, <2>1
    <2>3. x \in 1..(n * 4)
        BY <2>1, <2>2
    <2>4. owner(x) = j /\ place(x) = k
        <3>1. d \in Nat
            BY <2>1
        <3>2. (x - 1) \div 4 = d /\ ((x - 1) % 4) + 1 = k
            BY <2>2, <3>1, QuotientOf
        <3>. HIDE DEF x
        <3>. QED
            BY <2>1, <3>2
    <2>5. Cell(j, k) = at(x)
        BY <1>4, <2>3, <2>4
    <2>6. bytes[x] = ByteOf(j, k)
        BY <1>4, <2>3, <2>4
    <2>. HIDE DEF x
    <2>. QED
        BY <1>6, <2>3, <2>5, <2>6 DEF PutOver, Span
<1>8. ASSUME NEW a \in Span(Base(i), n * 4)
      PROVE  a \in Covered(i, i + n)
    <2>1. PICK x \in 1..(n * 4) : a = at(x)
        BY <1>8 DEF Span
    <2>2. a \in Cells(owner(x)) /\ owner(x) \in i..(i + n - 1)
        BY <1>4, <2>1 DEF Cells
    <2>. QED
        BY <2>2 DEF Covered
<1>9. Covered(i, i + n) = Span(Base(i), n * 4)
    <2>1. ASSUME NEW a \in Covered(i, i + n)
          PROVE  a \in Span(Base(i), n * 4)
        <3>1. PICK j \in i..(i + n - 1) : a \in Cells(j)
            BY <2>1 DEF Covered
        <3>2. PICK k \in Places(j) : a = Cell(j, k)
            BY <3>1 DEF Cells
        <3>. QED
            BY <1>7, <3>2
    <2>. QED
        BY <1>8, <2>1
<1>10. Extends(p, q, i, i + n)
    BY <1>6, <1>7, <1>9 DEF Extends, PutOver
<1>. QED
    BY <1>10 DEF q

LEMMA RunLengthIs ==
    ASSUME code \in Seq(Item), next \in DOMAIN code, code[next].kind = "asm"
    PROVE  /\ RunLength \in 1..(Len(code) - next + 1)
           /\ \A k \in next..(next + RunLength - 1) : Follows(next, k)
<1> DEFINE rest == Len(code) - next + 1
           S == {n \in 1..rest : n = rest \/ ~Follows(next, next + n)}
<1>1. rest \in Nat /\ rest > 0 /\ next \in Nat /\ next + rest = Len(code) + 1
    OBVIOUS
<1>2. DOMAIN code = 1..Len(code)
    OBVIOUS
<1>. HIDE DEF rest
<1>3. S \in SUBSET Nat /\ rest \in S
    BY <1>1
<1>4. PICK m \in S : \A k \in S : m <= k
    BY <1>3, LeastOf
<1>5. \A k \in next..(next + m - 1) : Follows(next, k)
    <2>1. TAKE k \in next..(next + m - 1)
    <2>2. CASE k = next
        <3>1. code[next].address \in Nat
            BY ItemIs
        <3>2. (next - next) * AsmWidth = 0
            BY <1>1 DEF AsmWidth
        <3>. QED
            BY <2>2, <3>1, <3>2 DEF Follows
    <2>3. CASE k # next
        <3>3. m \in 1..rest
            OBVIOUS
        <3>4. k \in Int /\ next \in Nat /\ rest \in Nat
            BY <1>1
        <3> HIDE DEF S
        <3>1. k - next \in 1..rest /\ k - next < m /\ next + (k - next) = k
            BY <2>3, <3>3, <3>4
        <3>2. k - next \notin S
            BY <1>4, <3>1, <3>3, <3>4
        <3>. QED
            BY <3>1, <3>2 DEF S
    <2>. QED
        BY <2>2, <2>3
<1>6. m \in 1..rest
    OBVIOUS
<1>7. next + m \in DOMAIN code => ~Follows(next, next + m)
    BY <1>1, <1>2, <1>4
<1>8. \E n \in 1..rest : /\ \A k \in next..(next + n - 1) : Follows(next, k)
                         /\ next + n \in DOMAIN code => ~Follows(next, next + n)
    BY <1>5, <1>6, <1>7
<1>. QED
    BY <1>8 DEF RunLength, rest

-----------------------------------------------------------------------------
(* The lists of bad items.                                                 *)

\* r lists the bad ones of the first n - 1 items, in order.
Lists(r, n) ==
    /\ r \in Seq(Nat)
    /\ {r[m] : m \in DOMAIN r} = {i \in 1..(n - 1) : Bad(i)}
    /\ \A l, m \in DOMAIN r : l < m => r[l] < r[m]

LEMMA ListsNone == Lists(<<>>, 1)
  BY DEF Lists

LEMMA ListsOn ==
    ASSUME NEW r, NEW m \in Nat, NEW n \in Nat, 1 <= m, m <= n, Lists(r, m),
           \A i \in m..(n - 1) : ~Bad(i)
    PROVE  Lists(r, n)
<1>1. \A i \in 1..(n - 1) : i \in 1..(m - 1) \/ i \in m..(n - 1)
    OBVIOUS
<1>2. \A i \in 1..(m - 1) : i \in 1..(n - 1)
    OBVIOUS
<1>3. {i \in 1..(n - 1) : Bad(i)} = {i \in 1..(m - 1) : Bad(i)}
    BY <1>1, <1>2
<1>. QED
    BY <1>3 DEF Lists

LEMMA ListsOneMore ==
    ASSUME NEW r, NEW n \in Nat, 1 <= n, Lists(r, n), Bad(n)
    PROVE  Lists(Append(r, n), n + 1)
<1> DEFINE s == Append(r, n)
<1>1. r \in Seq(Nat)
    BY DEF Lists
<1>2. /\ s \in Seq(Nat)
      /\ DOMAIN s = DOMAIN r \cup {Len(r) + 1} /\ Len(r) + 1 \notin DOMAIN r
      /\ \A m \in DOMAIN r : s[m] = r[m] /\ m \in Nat /\ m <= Len(r)
      /\ s[Len(r) + 1] = n
    BY <1>1
<1>. HIDE DEF s
<1>3. \A m \in DOMAIN r : r[m] \in 1..(n - 1)
    BY DEF Lists
<1>4. \A l, m \in DOMAIN s : l < m => s[l] < s[m]
    <2>1. TAKE l, m \in DOMAIN s
    <2>2. CASE m \in DOMAIN r
        <3>1. l < m => l \in DOMAIN r
            BY <1>1, <1>2, <2>2
        <3>. QED
            BY <1>2, <2>2, <3>1 DEF Lists
    <2>3. CASE m = Len(r) + 1
        <3>1. l < m => l \in DOMAIN r
            BY <1>1, <1>2, <2>3
        <3>2. \A x \in DOMAIN r : s[x] < n
            BY <1>2, <1>3
        <3>. QED
            BY <1>2, <2>3, <3>1, <3>2
    <2>. QED
        BY <1>2, <2>2, <2>3
<1>5. {i \in 1..((n + 1) - 1) : Bad(i)} = {i \in 1..(n - 1) : Bad(i)} \cup {n}
    <2>1. \A i : i \in 1..((n + 1) - 1) <=> i \in 1..(n - 1) \/ i = n
        OBVIOUS
    <2>. QED
        BY <2>1
<1>6. {s[m] : m \in DOMAIN s} = {r[m] : m \in DOMAIN r} \cup {n}
    BY <1>2
<1>7. Lists(s, n + 1)
    BY <1>2, <1>4, <1>5, <1>6 DEF Lists
<1>. QED
    BY <1>7 DEF s

-----------------------------------------------------------------------------
(* The invariant.  Between two steps the patch is that of the items before *)
(* `next`, whichever of them were assembled in one call.                   *)

Types ==
    /\ code \in Seq(Item)
    /\ next \in 1..(Len(code) + 1)
    /\ first \in 1..(Len(code) + 1) /\ end \in 1..(Len(code) + 1)
    /\ done \in BOOLEAN

\* What is drained is a run, and the first line of it is not past the next.
DrainsARun ==
    next < end => first <= next /\ \A k \in first..(end - 1) : Follows(first, k)

IInv ==
    /\ Types
    /\ DrainsARun
    /\ Latest(patch, next)
    /\ Lists(reported, next)
    /\ done => next = Len(code) + 1

LEMMA InitIInv == Init => IInv
<1>1. SUFFICES ASSUME Init PROVE IInv
    OBVIOUS
<1>2. code \in Seq(Item) /\ next = 1 /\ first = 1 /\ end = 1 /\ done = FALSE
    BY <1>1, CodesAreItems DEF Init
<1>3. Types
    <2>1. 1 \in 1..(Len(code) + 1)
        BY <1>2
    <2>. QED
        BY <1>2, <2>1 DEF Types
<1>4. DrainsARun
    BY <1>2 DEF DrainsARun
<1>5. patch = NoPatch /\ reported = <<>>
    BY <1>1 DEF Init
<1>. QED
    BY <1>2, <1>3, <1>4, <1>5, LatestOfNone, ListsNone DEF IInv

\* The patch of the items is a matter of the code, which never changes.
LEMMA SameCode ==
    ASSUME code' = code
    PROVE  /\ \A p, n : Latest(p, n) => Latest(p, n)'
           /\ \A r, n : Lists(r, n) => Lists(r, n)'
<1>1. \A i : Bad(i)' <=> Bad(i)
    BY DEF Bad
<1>2. \A i : Places(i)' = Places(i)
    BY <1>1 DEF Places
<1>3. \A i, k : Cell(i, k)' = Cell(i, k)
    BY DEF Cell, NsoAddress, Plus
<1>4. \A i : Cells(i)' = Cells(i)
    BY <1>2, <1>3 DEF Cells
<1>5. \A i, k : ByteOf(i, k)' = ByteOf(i, k)
    BY DEF ByteOf
<1>6. \A m, n : Covered(m, n)' = Covered(m, n)
    BY <1>4 DEF Covered
<1>7. \A b, a, n : IsTheLatestAt(b, a, n) => IsTheLatestAt(b, a, n)'
    BY <1>2, <1>3, <1>4, <1>5 DEF IsTheLatestAt
<1>8. \A p, n : Latest(p, n) => Latest(p, n)'
    BY <1>6, <1>7 DEF Latest
<1>9. \A r, n : Lists(r, n) => Lists(r, n)'
    BY <1>1 DEF Lists
<1>. QED
    BY <1>8, <1>9

\* The items up to `next` dealt with, each step has only to say what it writes and what it reports.
LEMMA Moves ==
    ASSUME IInv, code' = code, first' = first, end' = end, done' = FALSE,
           next' \in next..(Len(code) + 1),
           Extends(patch, patch', next, next'), Lists(reported', next')
    PROVE  IInv'
<1>1. /\ code \in Seq(Item) /\ next \in 1..(Len(code) + 1)
      /\ first \in 1..(Len(code) + 1) /\ end \in 1..(Len(code) + 1)
    BY DEF IInv, Types
<1>2. Latest(patch', next')
    <2>1. next \in Nat /\ next' \in Nat /\ 1 <= next /\ next <= next'
        BY <1>1
    <2>. QED
        BY <2>1, LatestExtends DEF IInv
<1>3. Latest(patch, next)'
    BY <1>2, SameCode
<1>4. Lists(reported, next)'
    BY SameCode
<1>5. DrainsARun'
    <2>1. SUFFICES ASSUME next' < end'
                   PROVE  first' <= next' /\ (\A k \in first..(end - 1) : Follows(first, k))'
        BY DEF DrainsARun
    <2>2. next < end /\ next <= next'
        BY <1>1, <2>1
    <2>3. first <= next /\ \A k \in first..(end - 1) : Follows(first, k)
        BY <2>2 DEF IInv, DrainsARun
    <2>4. first <= next'
        BY <1>1, <2>2, <2>3
    <2>. QED
        BY <2>3, <2>4 DEF Follows
<1>6. Types'
    <2>1. next' \in 1..(Len(code) + 1)
        BY <1>1
    <2>. QED
        BY <1>1, <2>1 DEF Types
<1>. QED
    BY <1>3, <1>4, <1>5, <1>6 DEF IInv

\* What every step at an item may use.
LEMMA AtIs ==
    ASSUME IInv, NEW kind, At(kind)
    PROVE  /\ code \in Seq(Item) /\ next \in DOMAIN code /\ next \in Nat
           /\ next + 1 \in next..(Len(code) + 1)
           /\ code[next].kind = kind /\ Here = Base(next)
           /\ done = FALSE
<1>1. code \in Seq(Item) /\ next \in DOMAIN code /\ code[next].kind = kind /\ done = FALSE
    BY DEF At, IInv, Types
<1>. QED
    BY <1>1, ItemIs DEF Here

LEMMA NotBad ==
    ASSUME NEW n \in Nat, ~Bad(n)
    PROVE  \A i \in n..((n + 1) - 1) : ~Bad(i)
<1>1. \A i \in n..((n + 1) - 1) : i = n
    OBVIOUS
<1>. QED
    BY <1>1

LEMMA EmitDataStep == IInv /\ EmitData => IInv'
<1>1. SUFFICES ASSUME IInv, EmitData PROVE IInv'
    OBVIOUS
<1>2. /\ At("data") /\ patch' = Put(patch, Here, Literal(next)) /\ next' = next + 1
      /\ code' = code /\ reported' = reported /\ first' = first /\ end' = end /\ done' = done
    BY <1>1 DEF EmitData
<1>3. /\ code \in Seq(Item) /\ next \in DOMAIN code /\ next \in Nat
      /\ next + 1 \in next..(Len(code) + 1)
      /\ code[next].kind = "data" /\ Here = Base(next) /\ done = FALSE
    BY <1>1, <1>2, AtIs
<1>4. Extends(patch, patch', next, next')
    BY <1>2, <1>3, DataExtends
<1>5. Lists(reported', next')
    <2>1. ~Bad(next)
        BY <1>3 DEF Bad
    <2>2. Lists(reported, next) /\ 1 <= next /\ next <= next + 1 /\ next + 1 \in Nat
        BY <1>1, <1>3 DEF IInv
    <2>3. Lists(reported, next + 1)
        BY <1>3, <2>1, <2>2, NotBad, ListsOn
    <2>. QED
        BY <1>2, <2>3
<1>. QED
    BY <1>1, <1>2, <1>3, <1>4, <1>5, Moves

LEMMA EmitStringStep == IInv /\ EmitString => IInv'
<1>1. SUFFICES ASSUME IInv, EmitString PROVE IInv'
    OBVIOUS
<1>2. /\ At("string") /\ next' = next + 1
      /\ patch' = PutByte(Put(patch, Here, Literal(next)), Plus(Here, code[next].width), Nul(next))
      /\ code' = code /\ reported' = reported /\ first' = first /\ end' = end /\ done' = done
    BY <1>1 DEF EmitString
<1>3. /\ code \in Seq(Item) /\ next \in DOMAIN code /\ next \in Nat
      /\ next + 1 \in next..(Len(code) + 1)
      /\ code[next].kind = "string" /\ Here = Base(next) /\ done = FALSE
    BY <1>1, <1>2, AtIs
<1>4. Extends(patch, patch', next, next')
    BY <1>2, <1>3, TextIsPut
<1>5. Lists(reported', next')
    <2>1. ~Bad(next)
        BY <1>3 DEF Bad
    <2>2. Lists(reported, next) /\ 1 <= next /\ next <= next + 1 /\ next + 1 \in Nat
        BY <1>1, <1>3 DEF IInv
    <2>3. Lists(reported, next + 1)
        BY <1>3, <2>1, <2>2, NotBad, ListsOn
    <2>. QED
        BY <1>2, <2>3
<1>. QED
    BY <1>1, <1>2, <1>3, <1>4, <1>5, Moves

LEMMA AssembleRunStep == IInv /\ AssembleRun => IInv'
<1>1. SUFFICES ASSUME IInv, AssembleRun PROVE IInv'
    OBVIOUS
<1> DEFINE n == RunLength
<1>2. /\ At("asm") /\ Assembles(next, n)
      /\ patch' = Put(patch, Here, Encode(next, n, code[next].address))
      /\ next' = next + n
      /\ code' = code /\ reported' = reported /\ first' = first /\ end' = end /\ done' = done
    BY <1>1 DEF AssembleRun
<1>3. /\ code \in Seq(Item) /\ next \in DOMAIN code /\ next \in Nat
      /\ code[next].kind = "asm" /\ Here = Base(next) /\ done = FALSE
    BY <1>1, <1>2, AtIs
<1>4. n \in 1..(Len(code) - next + 1) /\ \A k \in next..(next + n - 1) : Follows(next, k)
    BY <1>3, RunLengthIs
<1>. HIDE DEF n
<1>5. IsRun(next, n)
    BY <1>2, <1>4 DEF IsRun, Assembles
<1>6. /\ n \in Nat /\ n > 0 /\ next + n - 1 \in DOMAIN code
      /\ next + n \in next..(Len(code) + 1)
    BY <1>3, <1>4
<1>7. Extends(patch, patch', next, next')
    BY <1>2, <1>3, <1>5, <1>6, RunExtends
<1>8. Lists(reported', next')
    <2>1. \A i \in next..((next + n) - 1) : ~Bad(i)
        <3>1. TAKE i \in next..((next + n) - 1)
        <3>2. code[i].valid
            BY <1>3, <1>5, <1>6 DEF IsRun
        <3>. QED
            BY <3>2 DEF Bad
    <2>2. Lists(reported, next) /\ 1 <= next /\ next <= next + n /\ next + n \in Nat
        BY <1>1, <1>3, <1>6 DEF IInv
    <2>3. Lists(reported, next + n)
        BY <1>3, <2>1, <2>2, ListsOn
    <2>. QED
        BY <1>2, <2>3
<1>. QED
    BY <1>1, <1>2, <1>3, <1>6, <1>7, <1>8, Moves

LEMMA AssembleLinesStep == IInv /\ AssembleLines => IInv'
<1>1. SUFFICES ASSUME IInv, AssembleLines PROVE IInv'
    OBVIOUS
<1> DEFINE n == RunLength
<1>2. /\ At("asm") /\ first' = next /\ end' = next + n
      /\ code' = code /\ next' = next /\ patch' = patch /\ reported' = reported /\ done' = done
    BY <1>1 DEF AssembleLines
<1>3. /\ code \in Seq(Item) /\ next \in DOMAIN code /\ next \in Nat /\ code[next].kind = "asm"
    BY <1>1, <1>2, AtIs
<1>4. n \in 1..(Len(code) - next + 1) /\ \A k \in next..(next + n - 1) : Follows(next, k)
    BY <1>3, RunLengthIs
<1>. HIDE DEF n
<1>5. Types'
    BY <1>1, <1>2, <1>3, <1>4 DEF IInv, Types
<1>6. DrainsARun'
    BY <1>2, <1>3, <1>4 DEF DrainsARun, Follows
<1>7. Latest(patch, next)' /\ Lists(reported, next)'
    BY <1>1, <1>2, SameCode DEF IInv
<1>8. done' => next' = Len(code') + 1
    BY <1>1, <1>2 DEF IInv
<1>. QED
    BY <1>5, <1>6, <1>7, <1>8 DEF IInv

\* The line at `next` of the run that is drained.
LEMMA DrainingIs ==
    ASSUME IInv, Draining
    PROVE  /\ code \in Seq(Item) /\ next \in DOMAIN code /\ next \in Nat
           /\ next + 1 \in next..(Len(code) + 1)
           /\ code[next].kind = "asm" /\ Follows(next, next) /\ done = FALSE
           /\ code[first].address + Offset = code[next].address
           /\ Plus(NsoAddress(code[first].address), Offset) = Base(next)
<1>. USE TopIsNat, HeaderFits
<1>1. /\ code \in Seq(Item) /\ next \in 1..(Len(code) + 1)
      /\ first \in 1..(Len(code) + 1) /\ end \in 1..(Len(code) + 1) /\ next < end /\ done = FALSE
    BY DEF IInv, Types, Draining
<1>2. next \in DOMAIN code /\ next + 1 \in next..(Len(code) + 1)
    BY <1>1
<1>3. first <= next /\ first \in DOMAIN code /\ next \in first..(end - 1)
    BY <1>1 DEF IInv, DrainsARun
<1>4. Follows(first, next)
    BY <1>1, <1>3 DEF IInv, DrainsARun
<1>5. /\ code[first].address \in Nat /\ Base(first) \in Nat
      /\ NsoAddress(code[first].address) = Base(first)
      /\ code[next].address \in Nat /\ Base(next) \in Nat
    BY <1>1, <1>2, <1>3, ItemIs
<1>6. /\ code[next].kind = "asm" /\ code[first].address + Offset = code[next].address
      /\ Offset \in Nat
    <2>1. code[next].kind = "asm" /\ code[next].address = code[first].address + (next - first) * AsmWidth
        BY <1>4 DEF Follows
    <2>2. next - first \in Nat
        BY <1>1, <1>3
    <2>3. Offset \in Nat
        BY <2>2 DEF Offset, AsmWidth
    <2>. QED
        BY <2>1, <2>3 DEF Offset
<1>7. code[next].width = 4 /\ Base(next) + 4 <= Top + 1
    BY <1>1, <1>2, <1>6, ItemIs
<1>8. Base(first) + Offset = Base(next)
    BY <1>5, <1>6 DEF Base
<1>9. Plus(Base(first), Offset) = Base(next)
    <2> DEFINE b == Base(first)  m == Offset
    <2>1. b \in Nat /\ m \in Nat /\ b + m = Base(next) /\ b + m <= Top
        BY <1>5, <1>6, <1>7, <1>8
    <2>. HIDE DEF b, m
    <2>2. Plus(b, m) = Base(next)
        BY <2>1, PlusIs
    <2>. QED
        BY <2>2 DEF b, m
<1>10. Follows(next, next)
    <2>1. (next - next) * AsmWidth = 0
        BY <1>1 DEF AsmWidth
    <2>. QED
        BY <1>5, <1>6, <2>1 DEF Follows
<1>. QED
    BY <1>1, <1>2, <1>5, <1>6, <1>9, <1>10

LEMMA AssembleLineStep == IInv /\ AssembleLine => IInv'
<1>1. SUFFICES ASSUME IInv, AssembleLine PROVE IInv'
    OBVIOUS
<1>2. /\ Draining /\ Assembles(next, 1) /\ next' = next + 1
      /\ patch' = Put(patch, Plus(NsoAddress(code[first].address), Offset),
                      Encode(next, 1, code[first].address + Offset))
      /\ code' = code /\ reported' = reported /\ first' = first /\ end' = end /\ done' = done
    BY <1>1 DEF AssembleLine
<1>3. /\ code \in Seq(Item) /\ next \in DOMAIN code /\ next \in Nat
      /\ next + 1 \in next..(Len(code) + 1)
      /\ code[next].kind = "asm" /\ Follows(next, next) /\ done = FALSE
      /\ code[first].address + Offset = code[next].address
      /\ Plus(NsoAddress(code[first].address), Offset) = Base(next)
    BY <1>1, <1>2, DrainingIs
<1>4. \A k \in next..(next + 1 - 1) : k = next
    BY <1>3
<1>5. code[next].valid
    <2>1. next \in next..(next + 1 - 1)
        BY <1>3
    <2>. QED
        BY <1>2, <2>1 DEF Assembles
<1>6. IsRun(next, 1)
    BY <1>3, <1>4, <1>5 DEF IsRun
<1>7. Extends(patch, patch', next, next')
    <2>1. patch' = Put(patch, Base(next), Encode(next, 1, code[next].address))
        BY <1>2, <1>3
    <2>2. next + 1 - 1 \in DOMAIN code
        BY <1>3
    <2>3. Extends(patch, Put(patch, Base(next), Encode(next, 1, code[next].address)), next, next + 1)
        <3> DEFINE n == 1
        <3>1. n \in Nat /\ n > 0 /\ next + n - 1 \in DOMAIN code /\ IsRun(next, n)
            BY <1>6, <2>2
        <3>. HIDE DEF n
        <3>2. Extends(patch, Put(patch, Base(next), Encode(next, n, code[next].address)), next, next + n)
            BY <1>3, <3>1, RunExtends
        <3>. QED
            BY <3>2 DEF n
    <2>. QED
        BY <1>2, <2>1, <2>3
<1>8. Lists(reported', next')
    <2>1. ~Bad(next)
        BY <1>5 DEF Bad
    <2>2. Lists(reported, next) /\ 1 <= next /\ next <= next + 1 /\ next + 1 \in Nat
        BY <1>1, <1>3 DEF IInv
    <2>3. Lists(reported, next + 1)
        BY <1>3, <2>1, <2>2, NotBad, ListsOn
    <2>. QED
        BY <1>2, <2>3
<1>. QED
    BY <1>1, <1>2, <1>3, <1>7, <1>8, Moves

\* A bad item writes nothing.
LEMMA NothingExtends ==
    ASSUME NEW p, p = [a \in DOMAIN p |-> p[a]], NEW i \in Nat, Bad(i)
    PROVE  Extends(p, p, i, i + 1)
<1>1. Places(i) = {} /\ Cells(i) = {}
    BY DEF Places, Cells
<1>2. Covered(i, i + 1) = {}
    BY <1>1, CoveredOne
<1>3. \A j \in i..((i + 1) - 1) : j = i
    OBVIOUS
<1>. QED
    BY <1>1, <1>2, <1>3 DEF Extends

LEMMA ReportLineStep == IInv /\ ReportLine => IInv'
<1>1. SUFFICES ASSUME IInv, ReportLine PROVE IInv'
    OBVIOUS
<1>2. /\ Draining /\ ~Assembles(next, 1) /\ next' = next + 1
      /\ reported' = Append(reported, next)
      /\ code' = code /\ patch' = patch /\ first' = first /\ end' = end /\ done' = done
    BY <1>1 DEF ReportLine
<1>3. /\ code \in Seq(Item) /\ next \in DOMAIN code /\ next \in Nat
      /\ next + 1 \in next..(Len(code) + 1)
      /\ code[next].kind = "asm" /\ done = FALSE
    BY <1>1, <1>2, DrainingIs
<1>4. Bad(next)
    <2>1. \A k \in next..(next + 1 - 1) : k = next
        BY <1>3
    <2>2. ~code[next].valid
        BY <1>2, <2>1 DEF Assembles
    <2>. QED
        BY <1>3, <2>2 DEF Bad
<1>5. Extends(patch, patch', next, next')
    <2>1. patch = [a \in DOMAIN patch |-> patch[a]]
        BY <1>1 DEF IInv, Latest
    <2>. QED
        BY <1>2, <1>3, <1>4, <2>1, NothingExtends
<1>6. Lists(reported', next')
    <2>1. Lists(reported, next) /\ 1 <= next
        BY <1>1, <1>3 DEF IInv
    <2>. QED
        BY <1>2, <1>3, <1>4, <2>1, ListsOneMore
<1>. QED
    BY <1>1, <1>2, <1>3, <1>5, <1>6, Moves

LEMMA ReturnStep == IInv /\ Return => IInv'
<1>1. SUFFICES ASSUME IInv, Return PROVE IInv'
    OBVIOUS
<1>2. /\ next > Len(code) /\ done' = TRUE /\ code' = code /\ next' = next /\ patch' = patch
      /\ reported' = reported /\ first' = first /\ end' = end
    BY <1>1 DEF Return
<1>3. code \in Seq(Item) /\ next \in 1..(Len(code) + 1)
    BY <1>1 DEF IInv, Types
<1>4. Types' /\ DrainsARun'
    BY <1>1, <1>2 DEF IInv, Types, DrainsARun, Follows
<1>5. Latest(patch, next)' /\ Lists(reported, next)'
    BY <1>1, <1>2, SameCode DEF IInv
<1>6. next' = Len(code') + 1
    BY <1>2, <1>3
<1>. QED
    BY <1>4, <1>5, <1>6 DEF IInv

LEMMA StutterStep == IInv /\ UNCHANGED vars => IInv'
<1>1. SUFFICES ASSUME IInv, UNCHANGED vars PROVE IInv'
    OBVIOUS
<1>2. /\ done' = done /\ code' = code /\ next' = next /\ patch' = patch
      /\ reported' = reported /\ first' = first /\ end' = end
    BY <1>1 DEF vars
<1>3. Types' /\ DrainsARun'
    BY <1>1, <1>2 DEF IInv, Types, DrainsARun, Follows
<1>4. Latest(patch, next)' /\ Lists(reported, next)'
    BY <1>1, <1>2, SameCode DEF IInv
<1>5. done' => next' = Len(code') + 1
    BY <1>1, <1>2 DEF IInv
<1>. QED
    BY <1>3, <1>4, <1>5 DEF IInv

LEMMA NextIInv == IInv /\ [Next]_vars => IInv'
<1>1. SUFFICES ASSUME IInv, [Next]_vars PROVE IInv'
    OBVIOUS
<1>2. CASE EmitData
    BY <1>1, <1>2, EmitDataStep
<1>3. CASE EmitString
    BY <1>1, <1>3, EmitStringStep
<1>4. CASE AssembleRun
    BY <1>1, <1>4, AssembleRunStep
<1>5. CASE AssembleLines
    BY <1>1, <1>5, AssembleLinesStep
<1>6. CASE AssembleLine
    BY <1>1, <1>6, AssembleLineStep
<1>7. CASE ReportLine
    BY <1>1, <1>7, ReportLineStep
<1>8. CASE Return
    BY <1>1, <1>8, ReturnStep
<1>9. CASE UNCHANGED vars
    BY <1>1, <1>9, StutterStep
<1>. QED
    BY <1>1, <1>2, <1>3, <1>4, <1>5, <1>6, <1>7, <1>8, <1>9 DEF Next

\* What assemble has made after any number of steps is the patch of the items before `next`.
THEOREM Invariance == Spec => []IInv
<1>1. Init => IInv
    BY InitIInv
<1>2. IInv /\ [Next]_vars => IInv'
    BY NextIInv
<1>. QED
    BY <1>1, <1>2, PTL DEF Spec

LEMMA IInvGivesBytes == IInv => EachByteFromTheLatestItem
<1>1. SUFFICES ASSUME IInv PROVE EachByteFromTheLatestItem
    OBVIOUS
<1>2. /\ code \in Seq(Item) /\ next \in 1..(Len(code) + 1)
      /\ first \in 1..(Len(code) + 1) /\ end \in 1..(Len(code) + 1)
    BY <1>1 DEF IInv, Types
<1>3. \A a \in DOMAIN patch : IsTheLatestAt(patch[a], a, next)
    BY <1>1 DEF IInv, Latest
<1>4. DOMAIN patch = UNION {Cells(i) : i \in 1..(next - 1)}
    BY <1>1 DEF IInv, Latest, Covered
<1>5. \A a \in DOMAIN patch :
         /\ a = Cell(patch[a].item, patch[a].byte)
         /\ patch[a].for = code[patch[a].item].address
         /\ \A j \in (patch[a].item + 1)..(next - 1) : a \notin Cells(j)
    <2>1. \A i, k : ByteOf(i, k).for = code[i].address
        BY DEF ByteOf
    <2>. QED
        BY <1>3, <2>1 DEF IsTheLatestAt
<1>6. \A n \in DOMAIN reported : reported[n] \in 1..(next - 1)
    BY <1>1 DEF IInv, Lists
<1>7. DOMAIN patch \subseteq Addresses
    <2>1. SUFFICES ASSUME NEW a \in DOMAIN patch PROVE a \in Addresses
        OBVIOUS
    <2> DEFINE i == patch[a].item  k == patch[a].byte
    <2>2. i \in 1..(next - 1) /\ k \in Places(i) /\ a = Cell(i, k)
        BY <1>3 DEF IsTheLatestAt
    <2>. HIDE DEF i, k
    <2>3. i \in DOMAIN code
        BY <1>2, <2>2
    <2>4. /\ code[i].width \in Nat /\ Base(i) \in Nat /\ Base(i) + code[i].width <= Top + 1
        BY <1>2, <2>3, ItemIs
    <2>5. CASE k # 0
        <3>1. k \in 1..code[i].width /\ a = Base(i) + k - 1
            BY <1>2, <2>2, <2>3, <2>5, CellIs
        <3>. QED
            BY <2>4, <3>1, TopIsNat DEF Addresses
    <2>6. CASE k = 0
        <3>1. a = Plus(Base(i), code[i].width)
            BY <1>2, <2>2, <2>3, <2>6, CellIs
        <3>2. a = IF Base(i) + code[i].width = Top + 1 THEN 0 ELSE Base(i) + code[i].width
            BY <2>4, <3>1, PlusIs
        <3>. QED
            BY <2>4, <3>2, TopIsNat DEF Addresses
    <2>. QED
        BY <2>5, <2>6
<1>8. \A a \in DOMAIN patch : patch[a].item \in 1..(next - 1)
    BY <1>3 DEF IsTheLatestAt
<1>9. TypeOK
    BY <1>2, <1>6, <1>7, <1>8 DEF TypeOK
<1>. QED
    BY <1>4, <1>5, <1>9 DEF EachByteFromTheLatestItem

(* For every code, however it is split into runs and whichever lines fail: *)
(* each byte of the patch is the one of the last item that has a byte at   *)
(* its address, and an instruction is assembled for its own address.       *)
THEOREM EachByteFromTheLatestItemAlways == Spec => []EachByteFromTheLatestItem
<1>1. IInv => EachByteFromTheLatestItem
    BY IInvGivesBytes
<1>. QED
    BY <1>1, Invariance, PTL

(* And exactly the instructions that do not assemble are reported, in the  *)
(* order of the source, whether a run hides them or not.                   *)
THEOREM BadLinesReportedAlways == Spec => []BadLinesReported
<1>1. IInv => BadLinesReported
    BY DEF IInv, Lists, BadLinesReported
<1>. QED
    BY <1>1, Invariance, PTL

-----------------------------------------------------------------------------
(* pchtxt generate: the same code written item by item and read back.      *)

LEMMA ListsIsIn ==
    ASSUME NEW r, NEW s, NEW n, Lists(r, n), Lists(s, n)
    PROVE  \A m \in DOMAIN r : m \in DOMAIN s /\ s[m] = r[m]
<1> DEFINE S == {m \in DOMAIN r : ~(m \in DOMAIN s /\ s[m] = r[m])}
<1>1. r \in Seq(Nat) /\ s \in Seq(Nat)
    BY DEF Lists
<1>2. /\ \A l, m \in DOMAIN r : l < m => r[l] < r[m]
      /\ \A l, m \in DOMAIN s : l < m => s[l] < s[m]
      /\ \A m \in DOMAIN r : \E l \in DOMAIN s : s[l] = r[m]
      /\ \A m \in DOMAIN s : \E l \in DOMAIN r : r[l] = s[m]
    BY DEF Lists
<1>3. /\ \A m \in DOMAIN r : m \in Nat /\ r[m] \in Nat
      /\ \A m \in DOMAIN s : m \in Nat /\ s[m] \in Nat
      /\ \A m \in DOMAIN s : \A l \in DOMAIN r : l <= m => l \in DOMAIN s
    BY <1>1
<1>4. SUFFICES ASSUME S # {} PROVE FALSE
    OBVIOUS
<1>5. S \in SUBSET Nat
    BY <1>3
<1>6. PICK i \in S : \A k \in S : i <= k
    BY <1>4, <1>5, LeastOf
<1>7. i \in DOMAIN r /\ \A k \in DOMAIN r : k < i => k \in DOMAIN s /\ s[k] = r[k]
    BY <1>3, <1>6
<1>8. ~(i \in DOMAIN s /\ s[i] = r[i])
    OBVIOUS
<1>. HIDE DEF S
<1>9. PICK j \in DOMAIN s : s[j] = r[i]
    BY <1>2, <1>7
<1>10. ~(j < i)
    <2>1. SUFFICES ASSUME j < i PROVE FALSE
        OBVIOUS
    <2>2. j \in DOMAIN r
        BY <1>1, <1>7, <2>1
    <2>3. s[j] = r[j] /\ r[j] < r[i]
        BY <1>2, <1>7, <2>1, <2>2
    <2>. QED
        BY <1>3, <1>7, <1>9, <2>2, <2>3
<1>11. j # i
    BY <1>8, <1>9
<1>12. i \in DOMAIN s /\ i < j
    BY <1>3, <1>7, <1>9, <1>10, <1>11
<1>13. s[i] < r[i]
    BY <1>2, <1>9, <1>12
<1>14. PICK l \in DOMAIN r : r[l] = s[i]
    BY <1>2, <1>12
<1>15. l < i
    <2>1. SUFFICES ASSUME ~(l < i) PROVE FALSE
        OBVIOUS
    <2>2. l = i \/ i < l
        BY <1>3, <1>7, <1>14, <2>1
    <2>3. r[i] <= r[l]
        BY <1>2, <1>3, <1>7, <1>14, <2>2
    <2>. QED
        BY <1>3, <1>7, <1>12, <1>13, <1>14, <2>3
<1>16. s[l] = s[i] /\ l \in DOMAIN s
    BY <1>7, <1>14, <1>15
<1>17. s[l] < s[i]
    BY <1>2, <1>12, <1>15, <1>16
<1>. QED
    BY <1>3, <1>12, <1>16, <1>17

\* There is one list of the bad items in the order of the source.
LEMMA ListsIsUnique ==
    ASSUME NEW r, NEW s, NEW n, Lists(r, n), Lists(s, n)
    PROVE  r = s
<1>1. r \in Seq(Nat) /\ s \in Seq(Nat)
    BY DEF Lists
<1>2. \A m \in DOMAIN r : m \in DOMAIN s /\ s[m] = r[m]
    BY ListsIsIn
<1>3. \A m \in DOMAIN s : m \in DOMAIN r
    BY ListsIsIn
<1>4. DOMAIN r = DOMAIN s
    BY <1>2, <1>3
<1>5. r = [m \in DOMAIN r |-> r[m]] /\ s = [m \in DOMAIN s |-> s[m]]
    BY <1>1
<1>. QED
    BY <1>2, <1>4, <1>5

\* What stands behind a string that is closed makes it no other.
LEMMA ClosedStays ==
    ASSUME NEW t \in Seq(Tokens), NEW c \in Seq(Tokens), IsClosed(t)
    PROVE  IsClosed(t \o c) /\ ReadString(t \o c) = ReadString(t)
<1> DEFINE u == t \o c  n == CloseAt(t)
<1>1. /\ u \in Seq(Tokens) /\ Len(t) \in Nat /\ Len(u) \in Nat /\ Len(t) <= Len(u)
      /\ \A i \in 1..Len(t) : u[i] = t[i]
    BY ConcatIs
<1>. HIDE DEF u
<1>2. n \in ClosingQuotes(t) /\ \A j \in ClosingQuotes(t) : n <= j
    <2>1. ClosingQuotes(t) \in SUBSET Nat /\ ClosingQuotes(t) # {}
        BY <1>1 DEF ClosingQuotes, IsClosed
    <2>2. \E m \in ClosingQuotes(t) : \A j \in ClosingQuotes(t) : m <= j
        BY <2>1, LeastOf
    <2>. QED
        BY <2>2 DEF CloseAt
<1>. HIDE DEF n
<1>3. n \in 3..Len(t) /\ n - 1 \in 1..Len(t) /\ n - 1 \in Nat
    BY <1>1, <1>2 DEF ClosingQuotes
<1>4. \A i \in 3..Len(t) : i \in ClosingQuotes(u) <=> i \in ClosingQuotes(t)
    <2>1. TAKE i \in 3..Len(t)
    <2>2. i \in 1..Len(t) /\ i - 1 \in 1..Len(t) /\ i \in 3..Len(u)
        BY <1>1
    <2>. QED
        BY <1>1, <2>2 DEF ClosingQuotes
<1>5. n \in ClosingQuotes(u) /\ \A j \in ClosingQuotes(u) : n <= j
    <2>1. n \in ClosingQuotes(u)
        BY <1>2, <1>3, <1>4
    <2>2. ASSUME NEW j \in ClosingQuotes(u) PROVE n <= j
        <3>1. j \in 3..Len(u)
            BY DEF ClosingQuotes
        <3>2. CASE j <= Len(t)
            <4>1. j \in 3..Len(t)
                BY <1>1, <3>1, <3>2
            <4>. QED
                BY <1>2, <1>4, <4>1
        <3>3. CASE ~(j <= Len(t))
            BY <1>1, <1>3, <3>1, <3>3
        <3>. QED
            BY <3>2, <3>3
    <2>. QED
        BY <2>1, <2>2
<1>6. CloseAt(u) = n
    <2>1. \A m \in ClosingQuotes(u) : (\A j \in ClosingQuotes(u) : m <= j) => m = n
        <3>1. \A m \in ClosingQuotes(u) : m \in Nat
            BY <1>1 DEF ClosingQuotes
        <3>. QED
            BY <1>3, <1>5, <3>1
    <2>. QED
        BY <1>5, <2>1 DEF CloseAt
<1>7. SubSeq(u, 2, n - 1) = SubSeq(t, 2, n - 1)
    <2> DEFINE v == SubSeq(u, 2, n - 1)  w == SubSeq(t, 2, n - 1)
    <2>1. /\ v \in Seq(Tokens) /\ Len(v) = n - 2 /\ \A i \in 1..(n - 2) : v[i] = u[i + 1]
          /\ w \in Seq(Tokens) /\ Len(w) = n - 2 /\ \A i \in 1..(n - 2) : w[i] = t[i + 1]
        BY <1>1, <1>3
    <2>2. \A i \in 1..(n - 2) : u[i + 1] = t[i + 1]
        <3>1. TAKE i \in 1..(n - 2)
        <3>2. i + 1 \in 1..Len(t)
            BY <1>1, <1>3
        <3>. QED
            BY <1>1, <3>2
    <2>. HIDE DEF v, w
    <2>3. v = w
        BY <2>1, <2>2, SameSequence
    <2>. QED
        BY <2>3 DEF v, w
<1>8. IsClosed(u)
    BY <1>5 DEF IsClosed
<1>9. SubSeq(u, 2, CloseAt(u) - 1) = SubSeq(t, 2, CloseAt(t) - 1)
    BY <1>6, <1>7 DEF n
<1>10. ReadString(u) = ReadString(t)
    BY <1>9 DEF ReadString
<1>. QED
    BY <1>8, <1>10 DEF u

\* A string as it is written: its text and a NUL.
Written(i) == Append(code[i].text, "nul")

\* A string of no unlucky kind is read back, and as it was.
LEMMA StringReads ==
    ASSUME code \in Seq(Item), NEW i \in DOMAIN code, code[i].kind = "string", ~Unlucky(i),
           NEW c \in Seq(Tokens)
    PROVE  LET t == WriteString(Written(i)) \o c
           IN  /\ IsClosed(t) /\ ReadString(t) = Written(i)
               /\ Len(Written(i)) = code[i].width + 1
               /\ \A k \in 1..code[i].width : Written(i)[k] = code[i].text[k]
               /\ Written(i)[code[i].width + 1] = "nul"
<1> DEFINE text == code[i].text  s == Written(i)  w == code[i].width  t == WriteString(s)
<1>1. text \in Seq(Bytes) /\ w = Len(text) /\ w \in Nat
    <2>1. code[i] \in Item
        OBVIOUS
    <2>. QED
        BY <2>1 DEF Item
<1>2. /\ text # <<>> /\ Last(text) # "backslash"
      /\ \A k \in DOMAIN text : text[k] # "vtab"
    BY DEF Unlucky
<1>. HIDE DEF text, w
<1>3. s = Append(text, "nul")
    BY DEF Written, text
<1>. HIDE DEF s
<1>4. "nul" \in Bytes
    BY CommentsAreText
<1>5. /\ s \in Seq(Bytes) /\ Len(s) = w + 1 /\ s[w + 1] = "nul"
      /\ \A k \in 1..w : s[k] = text[k]
    BY <1>1, <1>3, <1>4
<1>6. w # 0 /\ text[w] # "backslash" /\ w \in 1..w
    BY <1>1, <1>2 DEF Last
<1>7. s # <<>> /\ s[Len(s)] = "nul" /\ Len(s) # 1 /\ Len(s) - 1 = w /\ Len(s) - 1 # 0
    BY <1>1, <1>5, <1>6
<1>8. s[Len(s) - 1] # "backslash"
    BY <1>5, <1>6, <1>7
<1>9. ReadString(t) = RereadAll(s) /\ RereadAll(s) \in Seq(Bytes)
    BY <1>5, <1>7, <1>8, ReadStringIs
<1>10. IsClosed(t)
    <2>1. ClosingQuotes(t) # {}
        BY <1>5, <1>7, <1>8, ClosingIs
    <2>. QED
        BY <2>1 DEF IsClosed
<1>11. RereadAll(s) = s
    <2> DEFINE b == RereadAll(s)
    <2>1. Len(b) = Len(s)
        BY <1>5, <1>9 DEF RereadAll
    <2>2. ASSUME NEW k \in 1..Len(s) PROVE b[k] = s[k]
        <3>1. b[k] = IF k = Len(s) THEN "nul" ELSE Reread(s[k])
            BY DEF RereadAll
        <3>2. CASE k = Len(s)
            BY <1>7, <3>1, <3>2
        <3>3. CASE k # Len(s)
            <4>1. k \in 1..w
                BY <1>1, <1>5, <3>3
            <4>2. s[k] # "vtab" /\ s[k] \in Bytes
                BY <1>1, <1>2, <1>5, <4>1
            <4>3. Reread(s[k]) = s[k]
                BY <4>2, RereadIs
            <4>. QED
                BY <3>1, <3>3, <4>3
        <3>. QED
            BY <3>2, <3>3
    <2>. HIDE DEF b
    <2>3. b \in Seq(Bytes)
        BY <1>9 DEF b
    <2>4. b = s
        BY <1>5, <2>1, <2>2, <2>3, SameSequence
    <2>. QED
        BY <2>4 DEF b
<1>12. t \in Seq(Tokens)
    BY <1>5, <1>7, WriteStringType
<1>13. IsClosed(t \o c) /\ ReadString(t \o c) = s
    BY <1>9, <1>10, <1>11, <1>12, ClosedStays
<1>. QED
    BY <1>5, <1>13 DEF s, t, text, w

\* What stands behind the value of a line: nothing, or source.
Behind == Comments \cup {<<>>}

\* The line that is written for an item, with c behind it if it is a string.
LineOf(i, c) ==
    [item |-> i,
     form |-> IF code[i].kind = "string" THEN "string" ELSE "hex",
     address |-> code[i].address,
     value |-> IF code[i].kind = "string" THEN WriteString(Written(i)) \o c
               ELSE IF code[i].kind = "data" THEN Literal(i)
               ELSE IF code[i].valid THEN Encode(i, 1, code[i].address)
               ELSE <<>>]

LinesOf(i) == {LineOf(i, c) : c \in Behind}

AllLines == UNION {LinesOf(i) : i \in DOMAIN code}

Lucky == \A i \in DOMAIN code : ~Unlucky(i)

LEMMA BehindIsText == Behind \subseteq Seq(Tokens)
<1>1. <<>> \in Seq(Tokens)
    OBVIOUS
<1>2. Comments \subseteq Seq(Tokens)
    BY CommentsAreText
<1>. QED
    BY <1>1, <1>2 DEF Behind

\* A line is read back as the bytes of its item.
LEMMA LineExtends ==
    ASSUME code \in Seq(Item), Lucky, NEW i \in DOMAIN code, NEW c \in Behind, NEW p
    PROVE  LET l == LineOf(i, c)
           IN  IsRead(l) /\ Extends(p, Put(p, Shift(l.address), BytesRead(l)), i, i + 1)
<1> DEFINE l == LineOf(i, c)
<1>1. /\ i \in Nat /\ code[i].kind \in {"data", "string", "asm"}
      /\ code[i].address \in Nat /\ NsoAddress(code[i].address) = Base(i)
    BY ItemIs
<1>2. Shift(l.address) = Base(i)
    BY <1>1 DEF Shift, LineOf, NsoAddress
<1>3. CASE code[i].kind = "data"
    <2>1. IsRead(l) /\ BytesRead(l) = Literal(i)
        BY <1>3 DEF IsRead, BytesRead, LineOf
    <2>. QED
        BY <1>2, <1>3, <2>1, DataExtends
<1>4. CASE code[i].kind = "string"
    <2> DEFINE w == code[i].width  s == Written(i)
               t == WriteString(s) \o c
    <2>1. w \in Nat
        BY ItemIs
    <2>2. c \in Seq(Tokens)
        BY BehindIsText
    <2>3. /\ IsClosed(t) /\ ReadString(t) = s /\ Len(s) = w + 1
          /\ \A k \in 1..w : s[k] = code[i].text[k]
          /\ s[w + 1] = "nul"
        BY <1>4, <2>2, StringReads DEF Lucky
    <2>4. l.form = "string" /\ l.value = t /\ l.item = i
        BY <1>4 DEF LineOf
    <2>5. IsRead(l)
        BY <2>3, <2>4 DEF IsRead
    <2>6. BytesRead(l) = [k \in 1..(w + 1) |-> ByteRead(i, k, s[k])]
        BY <2>3, <2>4 DEF BytesRead
    <2>7. \A k \in 1..w : ByteRead(i, k, s[k]) = ByteOf(i, k)
        BY <2>1, <2>3 DEF ByteRead, Literal, ByteOf
    <2>8. ByteRead(i, w + 1, s[w + 1]) = ByteOf(i, 0)
        BY <2>1, <2>3 DEF ByteRead, Nul, ByteOf
    <2>9. BytesRead(l) = [k \in 1..(w + 1) |-> Text(i)[k]]
        <3>1. ASSUME NEW k \in 1..(w + 1) PROVE ByteRead(i, k, s[k]) = Text(i)[k]
            <4>1. CASE k = w + 1
                BY <2>8, <4>1, ItemTextIs
            <4>2. CASE k # w + 1
                <5>1. k \in 1..w
                    BY <2>1, <4>2
                <5>. QED
                    BY <2>7, <5>1, ItemTextIs
            <4>. QED
                BY <4>1, <4>2
        <3>. QED
            BY <2>6, <3>1
    <2>10. Text(i) = [k \in 1..(w + 1) |-> Text(i)[k]]
        BY ItemTextIs
    <2>11. BytesRead(l) = Text(i)
        BY <2>9, <2>10
    <2>. QED
        BY <1>2, <1>4, <2>5, <2>11, TextExtends
<1>5. CASE code[i].kind = "asm" /\ code[i].valid
    <2>1. IsRead(l) /\ BytesRead(l) = Encode(i, 1, code[i].address)
        BY <1>5 DEF IsRead, BytesRead, LineOf
    <2> DEFINE n == 1
    <2>2. IsRun(i, n)
        <3>1. \A k \in i..(i + 1 - 1) : k = i
            BY <1>1
        <3>2. Follows(i, i)
            <4>1. (i - i) * AsmWidth = 0
                BY <1>1 DEF AsmWidth
            <4>. QED
                BY <1>1, <1>5, <4>1 DEF Follows
        <3>. QED
            BY <1>5, <3>1, <3>2 DEF IsRun
    <2>3. n \in Nat /\ n > 0 /\ i + n - 1 \in DOMAIN code
        BY <1>1
    <2>. HIDE DEF n
    <2>4. Extends(p, Put(p, Base(i), Encode(i, n, code[i].address)), i, i + n)
        BY <2>2, <2>3, RunExtends
    <2>. QED
        BY <1>2, <2>1, <2>4 DEF n
<1>6. CASE Bad(i)
    <2> DEFINE q == Put(p, Base(i), <<>>)  n == 0
    <2>1. IsRead(l) /\ BytesRead(l) = <<>>
        BY <1>6 DEF IsRead, BytesRead, LineOf, Bad
    <2>2. n \in Nat /\ DOMAIN <<>> = 1..n /\ Distinct(Base(i), n)
        BY DEF Distinct
    <2>3. Span(Base(i), n) = {}
        BY DEF Span
    <2>. HIDE DEF n
    <2>4. PutOver(p, q, Base(i), <<>>, n)
        BY <2>2, PutIs
    <2>. HIDE DEF q
    <2>5. Places(i) = {} /\ Cells(i) = {}
        BY <1>6 DEF Places, Cells
    <2>6. Covered(i, i + 1) = {}
        BY <1>1, <2>5, CoveredOne
    <2>7. \A j \in i..((i + 1) - 1) : j = i
        BY <1>1
    <2>8. Extends(p, q, i, i + 1)
        BY <2>3, <2>4, <2>5, <2>6, <2>7 DEF Extends, PutOver
    <2>. QED
        BY <1>2, <2>1, <2>8 DEF q
<1>. QED
    BY <1>1, <1>3, <1>4, <1>5, <1>6 DEF Bad

(* Item by item the file is what was written for the items before `item`,  *)
(* and the patch read back that of the items before `line`.                *)
IInvDebug ==
    /\ IInv
    /\ item \in 1..(Len(code) + 1) /\ line \in 1..item
    /\ file \in Seq(AllLines) /\ Len(file) = item - 1
    /\ \A i \in DOMAIN file : file[i] \in LinesOf(i)
    /\ Lists(refused, item)
    /\ Lucky => Latest(back, line)

\* The first step and every later one is a step of assemble, or leaves it alone.
LEMMA NextDebugIsNext == NextDebug => [Next]_vars
  BY DEF NextDebug, AssembleCode, WriteData, WriteText, WriteAsm, ReadBack, DoneDebug, Write

THEOREM GenerateImplementsAssemble == SpecDebug => Spec
<1>1. InitDebug => Init
    BY DEF InitDebug
<1>2. [NextDebug]_<<vars, debug>> => [Next]_vars
    BY NextDebugIsNext
<1>. QED
    BY <1>1, <1>2, PTL DEF SpecDebug, Spec

LEMMA CodeStays == [Next]_vars => code' = code
  BY DEF Next, EmitData, EmitString, AssembleRun, AssembleLines, AssembleLine, ReportLine, Return, vars

LEMMA InitIInvDebug == InitDebug => IInvDebug
<1>1. SUFFICES ASSUME InitDebug PROVE IInvDebug
    OBVIOUS
<1>2. IInv
    BY <1>1, InitIInv DEF InitDebug
<1>3. /\ item = 1 /\ file = <<>> /\ refused = <<>> /\ line = 1 /\ back = NoPatch
    BY <1>1 DEF InitDebug
<1>4. code \in Seq(Item)
    BY <1>2 DEF IInv, Types
<1>5. item \in 1..(Len(code) + 1) /\ line \in 1..item
    BY <1>3, <1>4
<1>6. /\ file \in Seq(AllLines) /\ Len(file) = item - 1
      /\ \A i \in DOMAIN file : file[i] \in LinesOf(i)
    BY <1>3
<1>. QED
    BY <1>2, <1>3, <1>5, <1>6, LatestOfNone, ListsNone DEF IInvDebug

\* While the code stays, what was written and read back keeps its meaning.
LEMMA SameLines ==
    ASSUME code' = code
    PROVE  /\ DOMAIN code' = DOMAIN code /\ Len(code') = Len(code)
           /\ \A i : LinesOf(i)' = LinesOf(i)
           /\ AllLines' = AllLines
           /\ Lucky' <=> Lucky
<1>1. \A i, c : LineOf(i, c)' = LineOf(i, c)
    BY DEF LineOf, Written, Literal, Encode, AsmWidth
<1>2. \A i : LinesOf(i)' = LinesOf(i)
    BY <1>1 DEF LinesOf, Behind
<1>3. AllLines' = AllLines
    BY <1>2 DEF AllLines
<1>4. Lucky' <=> Lucky
    BY DEF Lucky, Unlucky
<1>. QED
    BY <1>2, <1>3, <1>4

LEMMA Writing ==
    ASSUME IInvDebug, IInv', code' = code, item \in DOMAIN code,
           NEW l \in LinesOf(item), file' = Append(file, l), item' = item + 1, line' = line, back' = back,
           Lists(refused', item + 1)
    PROVE  IInvDebug'
<1> DEFINE L == AllLines
<1>1. /\ code \in Seq(Item) /\ item \in 1..(Len(code) + 1) /\ line \in 1..item
      /\ file \in Seq(L) /\ Len(file) = item - 1
      /\ \A i \in DOMAIN file : file[i] \in LinesOf(i)
    BY DEF IInvDebug, IInv, Types
<1>2. l \in L
    BY DEF AllLines
<1>3. item' \in 1..(Len(code) + 1) /\ line' \in 1..item'
    BY <1>1
<1>4. (item \in 1..(Len(code) + 1) /\ line \in 1..item)'
    BY <1>3, SameLines
<1>. HIDE DEF L
<1>5. file' \in Seq(L) /\ Len(file') = item' - 1
    BY <1>1, <1>2
<1>6. ASSUME NEW i \in DOMAIN file'
      PROVE  file'[i] \in LinesOf(i)
    <2>1. CASE i = Len(file) + 1
        <3>1. file'[i] = l /\ i = item
            BY <1>1, <1>2, <2>1
        <3>. QED
            BY <3>1
    <2>2. CASE i # Len(file) + 1
        <3>1. i \in DOMAIN file /\ file'[i] = file[i]
            BY <1>1, <1>2, <2>2
        <3>. QED
            BY <1>1, <3>1
    <2>. QED
        BY <2>1, <2>2
<1>7. AllLines' = L
    BY SameLines DEF L
<1>8. (/\ file \in Seq(AllLines) /\ Len(file) = item - 1
       /\ \A i \in DOMAIN file : file[i] \in LinesOf(i))'
    BY <1>5, <1>6, <1>7, SameLines
<1>9. Lists(refused, item)'
    BY SameCode
<1>10. (Lucky => Latest(back, line))'
    BY SameCode, SameLines DEF IInvDebug
<1>. QED
    BY <1>4, <1>8, <1>9, <1>10 DEF IInvDebug

LEMMA DebugUnchanged ==
    ASSUME IInvDebug, IInv', code' = code, UNCHANGED debug
    PROVE  IInvDebug'
<1>1. item' = item /\ file' = file /\ refused' = refused /\ line' = line /\ back' = back
    BY DEF debug
<1>2. AllLines' = AllLines
    BY SameLines
<1>3. (/\ item \in 1..(Len(code) + 1) /\ line \in 1..item
       /\ file \in Seq(AllLines) /\ Len(file) = item - 1
       /\ \A i \in DOMAIN file : file[i] \in LinesOf(i))'
    BY <1>1, <1>2, SameLines DEF IInvDebug
<1>4. Lists(refused, item)' /\ (Lucky => Latest(back, line))'
    BY <1>1, SameCode, SameLines DEF IInvDebug
<1>. QED
    BY <1>3, <1>4 DEF IInvDebug

\* What every step that writes may use.
LEMMA WritesIs ==
    ASSUME IInvDebug, NEW kind, Writes(kind)
    PROVE  /\ code \in Seq(Item) /\ item \in DOMAIN code /\ item \in Nat /\ 1 <= item
           /\ code[item].kind = kind /\ Lists(refused, item)
  BY DEF IInvDebug, IInv, Types, Writes

LEMMA RefusesNone ==
    ASSUME IInvDebug, item \in Nat, 1 <= item, ~Bad(item)
    PROVE  Lists(refused, item + 1)
<1>1. item + 1 \in Nat /\ item <= item + 1 /\ Lists(refused, item)
    BY DEF IInvDebug
<1>. QED
    BY <1>1, NotBad, ListsOn

LEMMA WriteDataStep == IInvDebug /\ IInv' /\ WriteData => IInvDebug'
<1>1. SUFFICES ASSUME IInvDebug, IInv', WriteData PROVE IInvDebug'
    OBVIOUS
<1>2. /\ Writes("data") /\ file' = Append(file, Hex(Literal(item))) /\ item' = item + 1
      /\ code' = code /\ line' = line /\ back' = back /\ refused' = refused
    BY <1>1 DEF WriteData, Write, vars
<1>3. /\ code \in Seq(Item) /\ item \in DOMAIN code /\ item \in Nat /\ 1 <= item
      /\ code[item].kind = "data"
    BY <1>1, <1>2, WritesIs
<1>4. Hex(Literal(item)) \in LinesOf(item)
    <2>1. Hex(Literal(item)) = LineOf(item, <<>>)
        BY <1>3 DEF Hex, Line, LineOf
    <2>. QED
        BY <2>1 DEF LinesOf, Behind
<1>5. Lists(refused', item + 1)
    BY <1>1, <1>2, <1>3, RefusesNone DEF Bad
<1>. QED
    BY <1>1, <1>2, <1>3, <1>4, <1>5, Writing

LEMMA WriteTextStep == IInvDebug /\ IInv' /\ WriteText => IInvDebug'
<1>1. SUFFICES ASSUME IInvDebug, IInv', WriteText PROVE IInvDebug'
    OBVIOUS
<1> DEFINE l(c) == Line("string", WriteString(Append(code[item].text, "nul")) \o c)
<1>2. PICK c \in Comments :
          /\ Writes("string") /\ file' = Append(file, l(c)) /\ item' = item + 1
          /\ code' = code /\ line' = line /\ back' = back /\ refused' = refused
    BY <1>1 DEF WriteText, Write, vars
<1>3. /\ code \in Seq(Item) /\ item \in DOMAIN code /\ item \in Nat /\ 1 <= item
      /\ code[item].kind = "string"
    BY <1>1, <1>2, WritesIs
<1>4. l(c) \in LinesOf(item)
    <2>1. l(c) = LineOf(item, c)
        BY <1>3 DEF Line, LineOf, Written
    <2>. QED
        BY <2>1 DEF LinesOf, Behind
<1>. HIDE DEF l
<1>5. Lists(refused', item + 1)
    BY <1>1, <1>2, <1>3, RefusesNone DEF Bad
<1>. QED
    BY <1>1, <1>2, <1>3, <1>4, <1>5, Writing

LEMMA WriteAsmStep == IInvDebug /\ IInv' /\ WriteAsm => IInvDebug'
<1>1. SUFFICES ASSUME IInvDebug, IInv', WriteAsm PROVE IInvDebug'
    OBVIOUS
<1>2. Writes("asm") /\ item' = item + 1 /\ code' = code /\ line' = line /\ back' = back
    BY <1>1 DEF WriteAsm, Write, vars
<1>3. /\ code \in Seq(Item) /\ item \in DOMAIN code /\ item \in Nat /\ 1 <= item
      /\ code[item].kind = "asm" /\ Lists(refused, item)
    BY <1>1, <1>2, WritesIs
<1>4. Assembles(item, 1) <=> code[item].valid
    <2>1. item..(item + 1 - 1) = {item}
        BY <1>3
    <2>. QED
        BY <2>1 DEF Assembles
<1>5. CASE Assembles(item, 1)
    <2>1. /\ file' = Append(file, Hex(Encode(item, 1, code[item].address))) /\ refused' = refused
        BY <1>1, <1>5 DEF WriteAsm, Write
    <2>2. Hex(Encode(item, 1, code[item].address)) \in LinesOf(item)
        <3>1. Hex(Encode(item, 1, code[item].address)) = LineOf(item, <<>>)
            BY <1>3, <1>4, <1>5 DEF Hex, Line, LineOf
        <3>. QED
            BY <3>1 DEF LinesOf, Behind
    <2>3. ~Bad(item)
        BY <1>4, <1>5 DEF Bad
    <2>4. Lists(refused', item + 1)
        BY <1>1, <1>3, <2>1, <2>3, RefusesNone
    <2>. QED
        BY <1>1, <1>2, <1>3, <2>1, <2>2, <2>4, Writing
<1>6. CASE ~Assembles(item, 1)
    <2>1. file' = Append(file, Hex(<<>>)) /\ refused' = Append(refused, item)
        BY <1>1, <1>6 DEF WriteAsm, Write
    <2>2. Hex(<<>>) \in LinesOf(item)
        <3>1. Hex(<<>>) = LineOf(item, <<>>)
            BY <1>3, <1>4, <1>6 DEF Hex, Line, LineOf
        <3>. QED
            BY <3>1 DEF LinesOf, Behind
    <2>3. Bad(item)
        BY <1>3, <1>4, <1>6 DEF Bad
    <2>4. Lists(refused', item + 1)
        BY <1>3, <2>1, <2>3, ListsOneMore
    <2>. QED
        BY <1>1, <1>2, <1>3, <2>1, <2>2, <2>4, Writing
<1>. QED
    BY <1>5, <1>6

LEMMA ReadBackStep == IInvDebug /\ IInv' /\ ReadBack => IInvDebug'
<1>1. SUFFICES ASSUME IInvDebug, IInv', ReadBack PROVE IInvDebug'
    OBVIOUS
<1>2. /\ line \in DOMAIN file /\ line' = line + 1
      /\ IsRead(file[line]) => back' = Put(back, Shift(file[line].address), BytesRead(file[line]))
      /\ code' = code /\ item' = item /\ file' = file /\ refused' = refused
    BY <1>1 DEF ReadBack, vars
<1>3. /\ code \in Seq(Item) /\ item \in 1..(Len(code) + 1) /\ line \in 1..item
      /\ file \in Seq(AllLines) /\ Len(file) = item - 1
      /\ \A i \in DOMAIN file : file[i] \in LinesOf(i)
    BY <1>1 DEF IInvDebug, IInv, Types
<1>4. line \in DOMAIN code /\ line + 1 \in 1..item /\ line \in Nat /\ 1 <= line
    BY <1>2, <1>3
<1>5. Lucky => Latest(back', line + 1)
    <2>1. SUFFICES ASSUME Lucky PROVE Latest(back', line + 1)
        OBVIOUS
    <2>2. Extends(back, back', line, line + 1)
        <3>1. PICK c \in Behind : file[line] = LineOf(line, c)
            BY <1>2, <1>3 DEF LinesOf
        <3> DEFINE l == LineOf(line, c)
        <3>2. IsRead(l) /\ Extends(back, Put(back, Shift(l.address), BytesRead(l)), line, line + 1)
            BY <1>3, <1>4, <2>1, LineExtends
        <3>. HIDE DEF l
        <3>3. file[line] = l
            BY <3>1 DEF l
        <3>. QED
            BY <1>2, <3>2, <3>3
    <2>3. Latest(back, line) /\ line <= line + 1 /\ line + 1 \in Nat
        BY <1>1, <1>4, <2>1 DEF IInvDebug
    <2>. QED
        BY <1>4, <2>2, <2>3, LatestExtends
<1>6. (Lucky => Latest(back, line))'
    BY <1>2, <1>5, SameCode, SameLines
<1>7. AllLines' = AllLines
    BY <1>2, SameLines
<1>8. (/\ item \in 1..(Len(code) + 1) /\ line \in 1..item
       /\ file \in Seq(AllLines) /\ Len(file) = item - 1
       /\ \A i \in DOMAIN file : file[i] \in LinesOf(i))'
    BY <1>2, <1>3, <1>4, <1>7, SameLines
<1>9. Lists(refused, item)'
    BY <1>1, <1>2, SameCode DEF IInvDebug
<1>. QED
    BY <1>1, <1>6, <1>8, <1>9 DEF IInvDebug

LEMMA NextIInvDebug == IInvDebug /\ [NextDebug]_<<vars, debug>> => IInvDebug'
<1>1. SUFFICES ASSUME IInvDebug, [NextDebug]_<<vars, debug>> PROVE IInvDebug'
    OBVIOUS
<1>2. [Next]_vars
    BY <1>1, NextDebugIsNext
<1>3. IInv' /\ code' = code
    BY <1>1, <1>2, NextIInv, CodeStays DEF IInvDebug
<1>4. CASE AssembleCode
    BY <1>1, <1>3, <1>4, DebugUnchanged DEF AssembleCode
<1>5. CASE WriteData
    BY <1>1, <1>3, <1>5, WriteDataStep
<1>6. CASE WriteText
    BY <1>1, <1>3, <1>6, WriteTextStep
<1>7. CASE WriteAsm
    BY <1>1, <1>3, <1>7, WriteAsmStep
<1>8. CASE ReadBack
    BY <1>1, <1>3, <1>8, ReadBackStep
<1>9. CASE DoneDebug \/ UNCHANGED <<vars, debug>>
    <2>1. UNCHANGED debug
        BY <1>9 DEF DoneDebug
    <2>. QED
        BY <1>1, <1>3, <2>1, DebugUnchanged
<1>. QED
    BY <1>1, <1>4, <1>5, <1>6, <1>7, <1>8, <1>9 DEF NextDebug

LEMMA IInvDebugGivesPatch == IInvDebug => DebugIsThePatch
<1>1. SUFFICES ASSUME IInvDebug, AllReadBack
               PROVE  refused = reported /\ (Lucky => back = patch)
    BY DEF DebugIsThePatch, Lucky
<1>2. /\ code \in Seq(Item) /\ item \in 1..(Len(code) + 1) /\ line \in 1..item
      /\ Len(file) = item - 1 /\ next = Len(code) + 1
    BY <1>1 DEF IInvDebug, IInv, Types, AllReadBack
<1>3. item = Len(code) + 1 /\ line = Len(code) + 1
    BY <1>1, <1>2 DEF AllReadBack
<1>4. refused = reported
    BY <1>1, <1>2, <1>3, ListsIsUnique DEF IInvDebug, IInv
<1>5. ASSUME Lucky PROVE back = patch
    <2>1. Latest(back, Len(code) + 1) /\ Latest(patch, Len(code) + 1)
        BY <1>1, <1>2, <1>3, <1>5 DEF IInvDebug, IInv
    <2>2. Len(code) + 1 \in Nat /\ Len(code) + 1 <= Len(code) + 1
        BY <1>2
    <2>. QED
        BY <1>2, <2>1, <2>2, LatestIsUnique
<1>. QED
    BY <1>4, <1>5

(* What pchtxt generate shows is what build puts in the patch, for every   *)
(* code: the same errors, and the same bytes when no string is unlucky.    *)
THEOREM DebugIsThePatchAlways == SpecDebug => []DebugIsThePatch
<1>1. InitDebug => IInvDebug
    BY InitIInvDebug
<1>2. IInvDebug /\ [NextDebug]_<<vars, debug>> => IInvDebug'
    BY NextIInvDebug
<1>3. IInvDebug => DebugIsThePatch
    BY IInvDebugGivesPatch
<1>. QED
    BY <1>1, <1>2, <1>3, PTL DEF SpecDebug
=============================================================================
