---------------------------- MODULE PchtxtProofs ----------------------------
(***************************************************************************)
(* Theorems about PchtxtImport and PchtxtWriter, for every file, header,   *)
(* patch, limit and size of the address space.                             *)
(*                                                                         *)
(* The import first.  The source is compiled line by line, so what a line  *)
(* of the file adds to the source is told by what the compiler makes of    *)
(* the lines added.  Then the writer: what its cuts and its texts are,     *)
(* that each byte of the patch is in hand or in one line, and that the     *)
(* reader undoes the text of a line.                                       *)
(***************************************************************************)
EXTENDS PchtxtImport, PchtxtWriter, PatchVecProofs

-----------------------------------------------------------------------------
(* What put does when it stays below the last address.                     *)

\* q is p with the n bytes written over it, none of them past the last address.
IsPut(q, p, address, bytes, n) ==
    /\ q = [a \in DOMAIN q |-> q[a]]
    /\ DOMAIN q = DOMAIN p \cup address..(address + n - 1)
    /\ \A a \in address..(address + n - 1) : q[a] = bytes[a - address + 1]
    /\ \A a \in DOMAIN p : a \notin address..(address + n - 1) => q[a] = p[a]

LEMMA PutWithin ==
    ASSUME NEW p, NEW address \in Nat, NEW bytes, NEW n \in Nat, DOMAIN bytes = 1..n,
           address + n <= Top + 1
    PROVE  IsPut(Put(p, address, bytes), p, address, bytes, n)
<1> USE TopIsNat
<1> DEFINE S == address..(address + n - 1)
           q == Put(p, address, bytes)
<1>1. \A i \in 1..n : Plus(address, i - 1) = address + i - 1
    <2> SUFFICES ASSUME NEW i \in 1..n PROVE Plus(address, i - 1) = address + i - 1
        OBVIOUS
    <2>1. i - 1 \in Nat /\ address + (i - 1) <= Top + 1 /\ address + (i - 1) # Top + 1
        OBVIOUS
    <2>. QED
        BY <2>1, PlusIs
<1>2. PutOver(p, q, address, bytes, n)
    <2>1. Distinct(address, n)
        BY <1>1 DEF Distinct
    <2>. QED
        BY <2>1, PutIs
<1>3. Span(address, n) = S
    <2>1. ASSUME NEW a \in Span(address, n) PROVE a \in S
        <3>1. PICK i \in 1..n : a = Plus(address, i - 1)
            BY DEF Span
        <3>. QED
            BY <1>1, <3>1
    <2>2. ASSUME NEW a \in S PROVE a \in Span(address, n)
        <3>1. a - address + 1 \in 1..n /\ address + (a - address + 1) - 1 = a
            OBVIOUS
        <3>2. Plus(address, (a - address + 1) - 1) = a
            BY <1>1, <3>1
        <3>. QED
            BY <3>1, <3>2 DEF Span
    <2>. QED
        BY <2>1, <2>2
<1>4. \A a \in S : q[a] = bytes[a - address + 1]
    <2> SUFFICES ASSUME NEW a \in S PROVE q[a] = bytes[a - address + 1]
        OBVIOUS
    <2> HIDE DEF q
    <2>1. a - address + 1 \in 1..n /\ address + (a - address + 1) - 1 = a
        OBVIOUS
    <2>2. Plus(address, (a - address + 1) - 1) = a
        BY <1>1, <2>1
    <2>. QED
        BY <1>2, <2>1, <2>2 DEF PutOver
<1> HIDE DEF q
<1>. QED
    BY <1>2, <1>3, <1>4 DEF IsPut, PutOver, q

\* The bytes of a patch, each by its line and its place in it.
PatchBytes == Seq(Nat \X Nat)

\* Bytes that are put in two pieces are as good as put at once.
PutInTwo(p, address, bytes, m, w) ==
    Put(Put(p, address, SubSeq(bytes, 1, m)), address + m, SubSeq(bytes, m + 1, m + w)) =
        Put(p, address, SubSeq(bytes, 1, m + w))

LEMMA PutTwice ==
    ASSUME NEW p, NEW address \in Nat, NEW bytes \in PatchBytes, NEW m \in Nat, NEW w \in Nat,
           m + w <= Len(bytes), address + m + w <= Top + 1
    PROVE  PutInTwo(p, address, bytes, m, w)
<1> USE TopIsNat
<1> DEFINE one == SubSeq(bytes, 1, m)
           two == SubSeq(bytes, m + 1, m + w)
           all == SubSeq(bytes, 1, m + w)
           q == Put(p, address, one)
           r == Put(q, address + m, two)
           x == Put(p, address, all)
<1>1. /\ DOMAIN one = 1..m /\ \A i \in 1..m : one[i] = bytes[i]
      /\ DOMAIN two = 1..w /\ \A i \in 1..w : two[i] = bytes[m + i]
      /\ DOMAIN all = 1..(m + w) /\ \A i \in 1..(m + w) : all[i] = bytes[i]
    BY DEF PatchBytes
<1> HIDE DEF one, two, all
<1>2. IsPut(q, p, address, one, m)
    BY <1>1, PutWithin
<1>3. IsPut(r, q, address + m, two, w)
    <2> HIDE DEF q
    <2>1. address + m \in Nat /\ (address + m) + w <= Top + 1
        OBVIOUS
    <2>. QED
        BY <1>1, <2>1, PutWithin
<1>4. IsPut(x, p, address, all, m + w)
    <2>1. m + w \in Nat /\ address + (m + w) <= Top + 1
        OBVIOUS
    <2>. QED
        BY <1>1, <2>1, PutWithin
<1> HIDE DEF q, r, x
<1> DEFINE S == address..(address + m - 1)
           T == (address + m)..(address + m + w - 1)
           U == address..(address + (m + w) - 1)
<1>5. S \cup T = U
    OBVIOUS
<1>6. DOMAIN q = DOMAIN p \cup S /\ DOMAIN r = DOMAIN q \cup T /\ DOMAIN x = DOMAIN p \cup U
    BY <1>2, <1>3, <1>4 DEF IsPut
<1>7. ASSUME NEW a \in DOMAIN x PROVE r[a] = x[a]
    <2>1. CASE a \in T
        <3>1. r[a] = two[a - (address + m) + 1]
            BY <1>3, <2>1 DEF IsPut
        <3>2. a \in U /\ x[a] = all[a - address + 1]
            BY <1>4, <1>5, <2>1 DEF IsPut
        <3>3. /\ a - (address + m) + 1 \in 1..w /\ m + (a - (address + m) + 1) = a - address + 1
              /\ a - address + 1 \in 1..(m + w)
            BY <2>1
        <3>. QED
            BY <1>1, <3>1, <3>2, <3>3
    <2>2. CASE a \in S
        <3>1. a \notin T /\ a \in U /\ a - address + 1 \in 1..m /\ a - address + 1 \in 1..(m + w)
            BY <2>2
        <3>2. r[a] = q[a] /\ q[a] = one[a - address + 1]
            BY <1>2, <1>3, <1>6, <2>2, <3>1 DEF IsPut
        <3>3. x[a] = all[a - address + 1]
            BY <1>4, <3>1 DEF IsPut
        <3>. QED
            BY <1>1, <3>1, <3>2, <3>3
    <2>3. CASE a \notin U
        <3>1. a \in DOMAIN p /\ a \notin S /\ a \notin T
            BY <1>5, <1>6, <2>3
        <3>2. r[a] = q[a] /\ q[a] = p[a]
            BY <1>2, <1>3, <1>6, <3>1 DEF IsPut
        <3>3. x[a] = p[a]
            BY <1>4, <2>3, <3>1 DEF IsPut
        <3>. QED
            BY <3>2, <3>3
    <2>. QED
        BY <1>5, <2>1, <2>2, <2>3
<1>8. DOMAIN r = DOMAIN x
    BY <1>5, <1>6
<1>9. r = [a \in DOMAIN r |-> r[a]] /\ x = [a \in DOMAIN x |-> x[a]]
    BY <1>3, <1>4 DEF IsPut
<1>10. r = x
    BY <1>7, <1>8, <1>9
<1>. QED
    BY <1>10 DEF PutInTwo, one, two, all, q, r, x

-----------------------------------------------------------------------------
(* Recursive functions are what their definitions say: there is one with   *)
(* 0..n for its domain, since the least n without one would follow an n    *)
(* that has one.                                                           *)

LEMMA CompiledIs ==
    ASSUME NEW out, Len(out) \in Nat
    PROVE  Compiled(out) =
               [n \in 0..Len(out) |->
                   IF n = 0 THEN [depth |-> 0, patch |-> NoPatch, crosses |-> FALSE, unlike |-> FALSE]
                   ELSE CompileLine(Compiled(out)[n - 1], out[n])]
<1> DEFINE start == [depth |-> 0, patch |-> NoPatch, crosses |-> FALSE, unlike |-> FALSE]
           Step(x, n) == CompileLine(x, out[n])
           Part(g, n) == g = [m \in 0..n |-> IF m = 0 THEN start ELSE Step(g[m - 1], m)]
<1>1. \A n \in Nat : \E g : Part(g, n)
    <2> HIDE DEF Step, start
    <2> DEFINE Bad == {n \in Nat : ~\E g : Part(g, n)}
    <2>1. SUFFICES ASSUME Bad # {} PROVE FALSE
        OBVIOUS
    <2>2. PICK n \in Bad : \A m \in Bad : n <= m
        BY <2>1, LeastOf
    <2>3. n # 0
        <3>1. Part([m \in 0..0 |-> start], 0)
            OBVIOUS
        <3>. QED
            BY <3>1
    <2>4. n - 1 \in Nat /\ n - 1 \notin Bad
        <3>1. n \in Nat
            OBVIOUS
        <3> HIDE DEF Bad, Part
        <3>. QED
            BY <3>1, <2>2, <2>3
    <2>5. PICK g : Part(g, n - 1)
        BY <2>4
    <2> DEFINE h == [m \in 0..n |-> IF m < n THEN g[m] ELSE Step(g[n - 1], n)]
    <2>6. Part(h, n)
        <3>1. \A m \in 0..(n - 1) : h[m] = g[m]
            OBVIOUS
        <3>2. \A m \in 0..n : h[m] = IF m = 0 THEN start ELSE Step(h[m - 1], m)
            <4> SUFFICES ASSUME NEW m \in 0..n
                         PROVE  h[m] = IF m = 0 THEN start ELSE Step(h[m - 1], m)
                OBVIOUS
            <4>1. CASE m = n
                <5>1. n - 1 \in 0..(n - 1)
                    BY <2>4
                <5>. QED
                    BY <4>1, <3>1, <5>1, <2>3
            <4>2. CASE m # n
                <5>1. m \in 0..(n - 1) /\ (m # 0 => m - 1 \in 0..(n - 1))
                    BY <4>2
                <5>2. g[m] = IF m = 0 THEN start ELSE Step(g[m - 1], m)
                    BY <2>5, <5>1
                <5>. QED
                    BY <5>1, <5>2, <3>1
            <4>. QED
                BY <4>1, <4>2
        <3>. QED
            BY <3>2
    <2>. QED
        BY <2>2, <2>6
<1>2. PICK g : Part(g, Len(out))
    BY <1>1
<1>. QED
    BY <1>2 DEF Compiled

LEMMA RoundsAre ==
    ASSUME NEW form, NEW address, NEW bytes, Len(bytes) \in Nat
    PROVE  Rounds(form, address, bytes) =
               [n \in 0..Len(bytes) |->
                   IF n = 0 THEN [at |-> 0, lines |-> <<>>]
                   ELSE Round(form, address, bytes, Rounds(form, address, bytes)[n - 1])]
<1> DEFINE start == [at |-> 0, lines |-> <<>>]
           Step(x, n) == Round(form, address, bytes, x)
           Part(g, n) == g = [m \in 0..n |-> IF m = 0 THEN start ELSE Step(g[m - 1], m)]
<1>1. \A n \in Nat : \E g : Part(g, n)
    <2> HIDE DEF Step, start
    <2> DEFINE Bad == {n \in Nat : ~\E g : Part(g, n)}
    <2>1. SUFFICES ASSUME Bad # {} PROVE FALSE
        OBVIOUS
    <2>2. PICK n \in Bad : \A m \in Bad : n <= m
        BY <2>1, LeastOf
    <2>3. n # 0
        <3>1. Part([m \in 0..0 |-> start], 0)
            OBVIOUS
        <3>. QED
            BY <3>1
    <2>4. n - 1 \in Nat /\ n - 1 \notin Bad
        <3>1. n \in Nat
            OBVIOUS
        <3> HIDE DEF Bad, Part
        <3>. QED
            BY <3>1, <2>2, <2>3
    <2>5. PICK g : Part(g, n - 1)
        BY <2>4
    <2> DEFINE h == [m \in 0..n |-> IF m < n THEN g[m] ELSE Step(g[n - 1], n)]
    <2>6. Part(h, n)
        <3>1. \A m \in 0..(n - 1) : h[m] = g[m]
            OBVIOUS
        <3>2. \A m \in 0..n : h[m] = IF m = 0 THEN start ELSE Step(h[m - 1], m)
            <4> SUFFICES ASSUME NEW m \in 0..n
                         PROVE  h[m] = IF m = 0 THEN start ELSE Step(h[m - 1], m)
                OBVIOUS
            <4>1. CASE m = n
                <5>1. n - 1 \in 0..(n - 1)
                    BY <2>4
                <5>. QED
                    BY <4>1, <3>1, <5>1, <2>3
            <4>2. CASE m # n
                <5>1. m \in 0..(n - 1) /\ (m # 0 => m - 1 \in 0..(n - 1))
                    BY <4>2
                <5>2. g[m] = IF m = 0 THEN start ELSE Step(g[m - 1], m)
                    BY <2>5, <5>1
                <5>. QED
                    BY <5>1, <5>2, <3>1
            <4>. QED
                BY <4>1, <4>2
        <3>. QED
            BY <3>2
    <2>. QED
        BY <2>2, <2>6
<1>2. PICK g : Part(g, Len(bytes))
    BY <1>1
<1>. QED
    BY <1>2 DEF Rounds

-----------------------------------------------------------------------------
(* What the compiler makes of the source, line by line.                    *)

Forms == {"word", "data", "string"}

SourceLine ==
    {[kind |-> k] : k \in {"if", "endif", "comment", "warning"}}
        \cup {[kind |-> "option", build |-> b] : b \in Nat}
        \cup {Item(f, a, b) : f \in Forms, a \in Nat, b \in Seq(Nat \X Nat)}

IsPatch(p) == p = [a \in DOMAIN p |-> p[a]] /\ DOMAIN p \subseteq Addresses

\* What the compiler has between two lines.
IsCompiling(c) ==
    /\ c = [depth |-> c.depth, patch |-> c.patch, crosses |-> c.crosses, unlike |-> c.unlike]
    /\ c.depth \in Int /\ c.crosses \in BOOLEAN /\ c.unlike \in BOOLEAN /\ IsPatch(c.patch)

\* The patch compiled need not be the one collected.
Amiss(c) == c.crosses \/ c.unlike

Final(out) == Compiled(out)[Len(out)]

Balanced(out) == \A n \in 0..Len(out) : Compiled(out)[n].depth \in 0..1

LEMMA FirstCompiled ==
    ASSUME NEW out, Len(out) \in Nat
    PROVE  Compiled(out)[0] = [depth |-> 0, patch |-> NoPatch, crosses |-> FALSE, unlike |-> FALSE]
<1>1. 0 \in 0..Len(out)
    OBVIOUS
<1>. QED
    BY <1>1, CompiledIs

LEMMA NextCompiled ==
    ASSUME NEW out, Len(out) \in Nat, NEW n \in Nat, n + 1 <= Len(out)
    PROVE  Compiled(out)[n + 1] = CompileLine(Compiled(out)[n], out[n + 1])
<1>1. n + 1 \in 0..Len(out) /\ n + 1 # 0 /\ (n + 1) - 1 = n
    OBVIOUS
<1>2. Compiled(out) =
          [m \in 0..Len(out) |->
              IF m = 0 THEN [depth |-> 0, patch |-> NoPatch, crosses |-> FALSE, unlike |-> FALSE]
              ELSE CompileLine(Compiled(out)[m - 1], out[m])]
    BY CompiledIs
<1>3. Compiled(out)[n + 1] = CompileLine(Compiled(out)[(n + 1) - 1], out[n + 1])
    BY <1>1, <1>2, Zenon
<1>. QED
    BY <1>1, <1>3

LEMMA PlusIsAddress ==
    ASSUME NEW a \in Nat, NEW n \in Nat
    PROVE  Plus(a, n) \in Addresses
  BY TopIsNat DEF Plus, Addresses

LEMMA PutIsPatch ==
    ASSUME NEW p, IsPatch(p), NEW address \in Nat, NEW bytes, NEW n \in Nat, DOMAIN bytes = 1..n
    PROVE  IsPatch(Put(p, address, bytes))
<1>1. \A i \in 1..n : Plus(address, i - 1) \in Addresses
    BY PlusIsAddress
<1>. QED
    BY <1>1 DEF IsPatch, Put

LEMMA LinesAre ==
    ASSUME NEW l \in SourceLine
    PROVE  /\ l.kind \in {"if", "endif", "comment", "warning", "option", "item"}
           /\ l.kind = "item" => l.address \in Nat /\ l.bytes \in Seq(Nat \X Nat)
  BY DEF SourceLine, Item

\* What the compiler makes of one line.
LEMMA CompileLineIs ==
    ASSUME NEW c, IsCompiling(c), NEW l \in SourceLine
    PROVE  /\ IsCompiling(CompileLine(c, l))
           /\ CompileLine(c, l).depth = IF l.kind = "if" THEN c.depth + 1
                                        ELSE IF l.kind = "endif" THEN c.depth - 1 ELSE c.depth
           /\ ~Amiss(CompileLine(c, l)) =>
                 IF l.kind = "item" /\ c.depth = 0
                 THEN /\ CompileLine(c, l).patch = Put(c.patch, l.address + Header, l.bytes)
                      /\ l.address + Header + Len(l.bytes) - 1 <= Top
                 ELSE CompileLine(c, l).patch = c.patch
           /\ Amiss(c) => Amiss(CompileLine(c, l))
           /\ CompileLine(c, l).unlike = (c.unlike \/ (l.kind = "item" /\ c.depth = 0 /\ Unlike(l)))
           /\ l.kind # "item" => /\ CompileLine(c, l).patch = c.patch
                                 /\ CompileLine(c, l).crosses = c.crosses
                                 /\ CompileLine(c, l).unlike = c.unlike
<1> DEFINE d == CompileLine(c, l)
<1>1. c = [depth |-> c.depth, patch |-> c.patch, crosses |-> c.crosses, unlike |-> c.unlike]
    BY DEF IsCompiling
<1>2. CASE l.kind = "if"
    <2>1. d = [depth |-> c.depth + 1, patch |-> c.patch, crosses |-> c.crosses, unlike |-> c.unlike]
        BY <1>1, <1>2 DEF CompileLine
    <2>. QED
        BY <1>2, <2>1 DEF IsCompiling, Amiss
<1>3. CASE l.kind = "endif"
    <2>1. d = [depth |-> c.depth - 1, patch |-> c.patch, crosses |-> c.crosses, unlike |-> c.unlike]
        BY <1>1, <1>3 DEF CompileLine
    <2>. QED
        BY <1>3, <2>1 DEF IsCompiling, Amiss
<1>4. CASE l.kind = "item" /\ c.depth = 0 /\ ~Unlike(l)
    <2> DEFINE p == Put(c.patch, l.address + Header, l.bytes)
               x == c.crosses \/ l.address + Header + Len(l.bytes) - 1 > Top
    <2>1. d = [depth |-> c.depth, patch |-> p, crosses |-> x, unlike |-> c.unlike]
        BY <1>1, <1>4 DEF CompileLine
    <2>2. l.address + Header \in Nat /\ Len(l.bytes) \in Nat /\ DOMAIN l.bytes = 1..Len(l.bytes)
        BY <1>4, LinesAre, HeaderIsAligned, TopIsNat DEF Addresses
    <2>3. IsPatch(p)
        BY <2>2, PutIsPatch DEF IsCompiling
    <2>4. l.address + Header + Len(l.bytes) - 1 \in Int /\ Top \in Int
        BY <2>2, TopIsNat
    <2>5. ~x => l.address + Header + Len(l.bytes) - 1 <= Top
        BY <2>4
    <2>. HIDE DEF p, x
    <2>6. d.depth = c.depth /\ d.patch = p /\ d.crosses = x /\ d.unlike = c.unlike
        BY <2>1
    <2>7. x \in BOOLEAN /\ (c.crosses => x)
        BY DEF x, IsCompiling
    <2>8. IsCompiling(d)
        BY <2>1, <2>3, <2>6, <2>7 DEF IsCompiling
    <2>9. Amiss(c) => Amiss(d)
        BY <2>6, <2>7 DEF Amiss
    <2>10. ~Amiss(d) => d.patch = p /\ l.address + Header + Len(l.bytes) - 1 <= Top
        BY <2>5, <2>6 DEF Amiss
    <2>. HIDE DEF d
    <2>. QED
        BY <1>4, <2>6, <2>8, <2>9, <2>10 DEF p, d, IsCompiling
<1>5. CASE l.kind \notin {"if", "endif"} /\ ~(l.kind = "item" /\ c.depth = 0)
    <2>1. d = c
        BY <1>5 DEF CompileLine
    <2>. QED
        BY <1>5, <2>1 DEF IsCompiling, Amiss
<1>6. CASE l.kind = "item" /\ c.depth = 0 /\ Unlike(l)
    <2> DEFINE yes == TRUE
    <2>1. d = [depth |-> c.depth, patch |-> c.patch, crosses |-> c.crosses, unlike |-> yes]
        BY <1>1, <1>6 DEF CompileLine
    <2>. HIDE DEF yes, d
    <2>2. d.depth = c.depth /\ d.patch = c.patch /\ d.crosses = c.crosses /\ d.unlike = yes
        BY <2>1
    <2>3. yes
        BY DEF yes
    <2>4. IsCompiling(d)
        BY <2>1, <2>2, <2>3 DEF IsCompiling
    <2>. QED
        BY <1>6, <2>2, <2>3, <2>4 DEF Amiss, d
<1>. QED
    BY <1>2, <1>3, <1>4, <1>5, <1>6

\* Between any two lines.
LEMMA CompilingIs ==
    ASSUME NEW out \in Seq(SourceLine)
    PROVE  \A n \in 0..Len(out) : IsCompiling(Compiled(out)[n])
<1> DEFINE S == {n \in Nat : n <= Len(out) => IsCompiling(Compiled(out)[n])}
<1>0. Len(out) \in Nat
    OBVIOUS
<1>1. 0 \in S
    <2>1. Compiled(out)[0] = [depth |-> 0, patch |-> NoPatch, crosses |-> FALSE, unlike |-> FALSE]
        BY <1>0, FirstCompiled
    <2>2. IsPatch(NoPatch)
        BY DEF IsPatch, NoPatch
    <2>3. IsCompiling(Compiled(out)[0])
        <3> DEFINE c == [depth |-> 0, patch |-> NoPatch, crosses |-> FALSE, unlike |-> FALSE]
        <3>1. IsCompiling(c)
            BY <2>2 DEF IsCompiling
        <3>. QED
            BY <2>1, <3>1
    <2>. QED
        BY <2>3
<1>2. ASSUME NEW n \in S PROVE n + 1 \in S
    <2> SUFFICES ASSUME n + 1 <= Len(out) PROVE IsCompiling(Compiled(out)[n + 1])
        OBVIOUS
    <2>1. n \in Nat /\ n + 1 \in 1..Len(out) /\ n + 1 \in 0..Len(out) /\ n + 1 # 0 /\ (n + 1) - 1 = n
        OBVIOUS
    <2>2. IsCompiling(Compiled(out)[n])
        OBVIOUS
    <2>3. Compiled(out)[n + 1] = CompileLine(Compiled(out)[n], out[n + 1])
        BY <2>1, NextCompiled
    <2>. QED
        BY <2>1, <2>2, <2>3, CompileLineIs
<1> HIDE DEF S
<1>3. S = Nat
    <2>1. S \subseteq Nat
        BY DEF S
    <2>. QED
        BY <1>1, <1>2, <2>1, Induction
<1>. QED
    BY <1>3 DEF S

\* What follows does not change what was made of the lines before.
LEMMA CompiledBefore ==
    ASSUME NEW out \in Seq(SourceLine), NEW t \in Seq(SourceLine)
    PROVE  \A n \in 0..Len(out) : Compiled(out \o t)[n] = Compiled(out)[n]
<1> DEFINE S == {n \in Nat : n <= Len(out) => Compiled(out \o t)[n] = Compiled(out)[n]}
<1>0. /\ Len(out \o t) = Len(out) + Len(t) /\ Len(out) \in Nat /\ Len(t) \in Nat
      /\ \A i \in 1..Len(out) : (out \o t)[i] = out[i]
    OBVIOUS
<1>1. 0 \in S
    BY <1>0, FirstCompiled
<1>2. ASSUME NEW n \in S PROVE n + 1 \in S
    <2> SUFFICES ASSUME n + 1 <= Len(out) PROVE Compiled(out \o t)[n + 1] = Compiled(out)[n + 1]
        OBVIOUS
    <2>1. /\ n \in Nat /\ n + 1 \in 1..Len(out) /\ n + 1 \in 0..Len(out) /\ n + 1 \in 0..Len(out \o t)
          /\ n + 1 # 0 /\ (n + 1) - 1 = n
        BY <1>0
    <2>2. Compiled(out \o t)[n] = Compiled(out)[n] /\ (out \o t)[n + 1] = out[n + 1]
        BY <1>0, <2>1
    <2>3. Compiled(out)[n + 1] = CompileLine(Compiled(out)[n], out[n + 1])
        BY <2>1, NextCompiled
    <2>4. Compiled(out \o t)[n + 1] = CompileLine(Compiled(out \o t)[n], (out \o t)[n + 1])
        <3>1. n + 1 <= Len(out \o t) /\ Len(out \o t) \in Nat
            BY <1>0, <2>1
        <3>. QED
            BY <2>1, <3>1, NextCompiled
    <2>. QED
        BY <2>2, <2>3, <2>4
<1> HIDE DEF S
<1>3. S = Nat
    <2>1. S \subseteq Nat
        BY DEF S
    <2>. QED
        BY <1>1, <1>2, <2>1, Induction
<1>. QED
    BY <1>3 DEF S

LEMMA LineAdded ==
    ASSUME NEW out \in Seq(SourceLine), NEW l \in SourceLine
    PROVE  /\ out \o <<l>> \in Seq(SourceLine)
           /\ Final(out \o <<l>>) = CompileLine(Final(out), l)
           /\ Balanced(out \o <<l>>) <=> Balanced(out) /\ Final(out \o <<l>>).depth \in 0..1
<1> DEFINE t == <<l>>
           n == Len(out)
<1>1. /\ t \in Seq(SourceLine) /\ n \in Nat /\ Len(out \o t) = n + 1 /\ (out \o t)[n + 1] = l
      /\ out \o t \in Seq(SourceLine)
    OBVIOUS
<1>2. \A m \in 0..n : Compiled(out \o t)[m] = Compiled(out)[m]
    BY <1>1, CompiledBefore
<1> HIDE DEF t
<1>3. Compiled(out \o t)[n + 1] = CompileLine(Compiled(out \o t)[n], l)
    <2>2. Len(out \o t) \in Nat /\ n + 1 <= Len(out \o t)
        BY <1>1
    <2>. HIDE DEF n
    <2>. QED
        BY <1>1, <2>2, NextCompiled
<1>4. n \in 0..n
    BY <1>1
<1>5. \A m : m \in 0..(n + 1) <=> m \in 0..n \/ m = n + 1
    BY <1>1
<1> HIDE DEF n
<1>. QED
    BY <1>1, <1>2, <1>3, <1>4, <1>5 DEF Final, Balanced, t, n

\* Lines that open no block, end none, and set nothing the build has.
LEMMA QuietLines ==
    ASSUME NEW out \in Seq(SourceLine), NEW t \in Seq(SourceLine), Balanced(out),
           \A i \in 1..Len(t) : t[i].kind \notin {"if", "endif"} /\ (t[i].kind = "item" => Final(out).depth # 0)
    PROVE  Balanced(out \o t) /\ Final(out \o t) = Final(out)
<1> DEFINE k == Len(out)
           q == out \o t
           S == {n \in Nat : n <= Len(t) => Compiled(q)[k + n] = Final(out)}
<1>0. /\ q \in Seq(SourceLine) /\ k \in Nat /\ Len(t) \in Nat /\ Len(q) = k + Len(t)
      /\ \A i \in 1..Len(t) : q[k + i] = t[i]
    OBVIOUS
<1>1. \A n \in 0..k : Compiled(q)[n] = Compiled(out)[n]
    BY CompiledBefore
<1> HIDE DEF q, k
<1>2. 0 \in S
    BY <1>0, <1>1 DEF Final, k
<1>3. ASSUME NEW n \in S PROVE n + 1 \in S
    <2> SUFFICES ASSUME n + 1 <= Len(t) PROVE Compiled(q)[k + (n + 1)] = Final(out)
        OBVIOUS
    <2>1. /\ n \in Nat /\ n + 1 \in 1..Len(t) /\ k + (n + 1) \in 0..Len(q) /\ k + (n + 1) # 0
          /\ k + (n + 1) - 1 = k + n /\ k + n \in 0..Len(q)
        BY <1>0
    <2>2. Compiled(q)[k + n] = Final(out)
        BY <2>1
    <2>3. Compiled(q)[k + (n + 1)] = CompileLine(Compiled(q)[k + n], t[n + 1])
        <3>1. k + n \in Nat /\ (k + n) + 1 <= Len(q) /\ Len(q) \in Nat /\ k + (n + 1) = (k + n) + 1
            BY <1>0, <2>1
        <3>2. Compiled(q)[(k + n) + 1] = CompileLine(Compiled(q)[k + n], q[(k + n) + 1])
            BY <3>1, NextCompiled
        <3>. QED
            BY <1>0, <2>1, <3>1, <3>2
    <2>4. CompileLine(Final(out), t[n + 1]) = Final(out)
        BY <2>1 DEF CompileLine
    <2>. QED
        BY <2>2, <2>3, <2>4
<1> HIDE DEF S
<1>4. S = Nat
    <2>1. S \subseteq Nat
        BY DEF S
    <2>. QED
        BY <1>2, <1>3, <2>1, Induction
<1>5. \A n \in 0..Len(t) : Compiled(q)[k + n] = Final(out)
    BY <1>4 DEF S
<1>6. Final(q) = Final(out)
    BY <1>0, <1>5 DEF Final
<1>7. ASSUME NEW n \in 0..Len(q) PROVE Compiled(q)[n].depth \in 0..1
    <2>1. CASE n \in 0..k
        BY <1>1, <2>1 DEF Balanced, k
    <2>2. CASE n \notin 0..k
        <3>1. n - k \in 0..Len(t) /\ k + (n - k) = n
            BY <1>0, <2>2
        <3>2. Final(out).depth \in 0..1
            BY <1>0 DEF Final, Balanced, k
        <3>. QED
            BY <1>5, <3>1, <3>2
    <2>. QED
        BY <2>1, <2>2
<1>. QED
    BY <1>6, <1>7 DEF Balanced, q

LEMMA QuietLine ==
    ASSUME NEW out \in Seq(SourceLine), NEW l \in SourceLine, Balanced(out),
           l.kind \notin {"if", "endif", "item"}
    PROVE  Balanced(out \o <<l>>) /\ Final(out \o <<l>>) = Final(out)
<1> DEFINE t == <<l>>
<1>1. t \in Seq(SourceLine) /\ \A i \in 1..Len(t) : t[i] = l
    OBVIOUS
<1>2. \A i \in 1..Len(t) : t[i].kind \notin {"if", "endif"} /\ (t[i].kind = "item" => Final(out).depth # 0)
    BY <1>1
<1> HIDE DEF t
<1>3. Balanced(out \o t) /\ Final(out \o t) = Final(out)
    BY <1>1, <1>2, QuietLines
<1>. QED
    BY <1>3 DEF t

-----------------------------------------------------------------------------
(* The lines a patch becomes.                                              *)

\* Lines t, added to a source whose blocks are all closed, put the first n bytes at a place.
Sets(out, t, place, bytes, n) ==
    /\ Balanced(out \o t) /\ Final(out \o t).depth = 0
    /\ Amiss(Final(out)) => Amiss(Final(out \o t))
    /\ ~Amiss(Final(out \o t)) =>
          /\ place + n <= Top + 1
          /\ Final(out \o t).patch = Put(Final(out).patch, place, SubSeq(bytes, 1, n))

Ready(out) == out \in Seq(SourceLine) /\ Balanced(out) /\ Final(out).depth = 0

LEMMA FinalIs ==
    ASSUME NEW out \in Seq(SourceLine)
    PROVE  IsCompiling(Final(out))
<1>1. Len(out) \in 0..Len(out)
    OBVIOUS
<1>. QED
    BY <1>1, CompilingIs DEF Final

LEMMA PutNothing ==
    ASSUME NEW p, IsPatch(p), NEW place \in Nat, place <= Top + 1, NEW bytes
    PROVE  Put(p, place, SubSeq(bytes, 1, 0)) = p
<1> USE TopIsNat
<1> DEFINE q == Put(p, place, SubSeq(bytes, 1, 0))
<1>1. DOMAIN SubSeq(bytes, 1, 0) = 1..0
    OBVIOUS
<1>2. IsPut(q, p, place, SubSeq(bytes, 1, 0), 0)
    <2> DEFINE none == SubSeq(bytes, 1, 0)
    <2>1. DOMAIN none = 1..0 /\ 0 \in Nat /\ place + 0 <= Top + 1
        BY <1>1
    <2>. HIDE DEF none
    <2>2. IsPut(Put(p, place, none), p, place, none, 0)
        BY <2>1, PutWithin
    <2>. QED
        BY <2>2 DEF none
<1> HIDE DEF q
<1>3. place..(place + 0 - 1) = {}
    OBVIOUS
<1>4. DOMAIN q = DOMAIN p /\ q = [a \in DOMAIN q |-> q[a]] /\ \A a \in DOMAIN p : q[a] = p[a]
    BY <1>2, <1>3 DEF IsPut
<1>5. q = p
    BY <1>4 DEF IsPatch
<1>. QED
    BY <1>5 DEF q

LEMMA SetsNothing ==
    ASSUME NEW out, Ready(out), NEW place \in Addresses, NEW bytes \in PatchBytes
    PROVE  Sets(out, <<>>, place, bytes, 0)
<1> USE TopIsNat
<1>1. out \o <<>> = out
    BY DEF Ready
<1>2. place \in Nat /\ place + 0 <= Top + 1 /\ place <= Top + 1
    BY DEF Addresses
<1>3. IsPatch(Final(out).patch)
    BY FinalIs DEF Ready, IsCompiling
<1>4. Put(Final(out).patch, place, SubSeq(bytes, 1, 0)) = Final(out).patch
    BY <1>2, <1>3, PutNothing
<1>. QED
    BY <1>1, <1>2, <1>4 DEF Sets, Ready

LEMMA ItemIsLine ==
    ASSUME NEW form \in Forms, NEW a \in Nat, NEW b \in PatchBytes
    PROVE  /\ Item(form, a, b) \in SourceLine /\ Item(form, a, b).kind = "item"
           /\ Item(form, a, b).address = a /\ Item(form, a, b).bytes = b
           /\ Item(form, a, b).form = form
  BY DEF SourceLine, Item, PatchBytes

\* One item more.
LEMMA SetsMore ==
    ASSUME NEW out, Ready(out), NEW t \in Seq(SourceLine), NEW form \in Forms, NEW address \in Nat,
           NEW bytes \in PatchBytes, NEW n \in Nat, NEW w \in Nat \ {0}, n + w <= Len(bytes),
           Sets(out, t, address + Header, bytes, n)
    PROVE  LET item == Item(form, address + n, SubSeq(bytes, n + 1, n + w))
           IN  /\ item \in SourceLine /\ item.kind = "item" /\ Append(t, item) \in Seq(SourceLine)
               /\ Sets(out, Append(t, item), address + Header, bytes, n + w)
<1> USE TopIsNat
<1> DEFINE more == SubSeq(bytes, n + 1, n + w)
           item == Item(form, address + n, more)
           place == address + Header
           q == out \o t
           c == Final(q)
           d == Final(q \o <<item>>)
<1>0. Header \in Nat /\ place \in Nat /\ address + n \in Nat
    BY HeaderIsAligned DEF Addresses
<1>1. more \in PatchBytes /\ Len(more) = w
    BY DEF PatchBytes
<1>2. /\ item \in SourceLine /\ item.kind = "item"
      /\ item.address = address + n /\ item.bytes = more
    <2>. HIDE DEF more
    <2>. QED
        BY <1>0, <1>1, ItemIsLine
<1> HIDE DEF item
<1>3. q \in Seq(SourceLine) /\ Append(t, item) \in Seq(SourceLine) /\ out \o Append(t, item) = q \o <<item>>
    <2>1. out \in Seq(SourceLine)
        BY DEF Ready
    <2>2. \A x, y \in Seq(SourceLine), z \in SourceLine :
              x \o y \in Seq(SourceLine) /\ Append(y, z) \in Seq(SourceLine) /\ x \o Append(y, z) = (x \o y) \o <<z>>
        OBVIOUS
    <2>. QED
        BY <1>2, <2>1, <2>2
<1>4. IsCompiling(c) /\ c.depth = 0 /\ Balanced(q)
    BY <1>3, FinalIs DEF Sets
<1> HIDE DEF c
<1>5. d = CompileLine(c, item) /\ (Balanced(q \o <<item>>) <=> Balanced(q) /\ d.depth \in 0..1)
    BY <1>2, <1>3, LineAdded DEF c
<1> HIDE DEF d
<1>6. /\ d.depth = 0
      /\ ~Amiss(d) => /\ d.patch = Put(c.patch, (address + n) + Header, more)
                      /\ (address + n) + Header + w - 1 <= Top
      /\ Amiss(c) => Amiss(d)
    <2>1. d.depth = c.depth /\ (Amiss(c) => Amiss(d))
        BY <1>2, <1>4, <1>5, CompileLineIs
    <2>2. ~Amiss(d) => /\ d.patch = Put(c.patch, item.address + Header, item.bytes)
                       /\ item.address + Header + Len(item.bytes) - 1 <= Top
        BY <1>2, <1>4, <1>5, CompileLineIs
    <2>. HIDE DEF more
    <2>. QED
        BY <1>1, <1>2, <1>4, <2>1, <2>2
<1>7. Balanced(q \o <<item>>)
    BY <1>4, <1>5, <1>6
<1>8. ASSUME ~Amiss(d)
      PROVE  /\ place + (n + w) <= Top + 1
             /\ d.patch = Put(Final(out).patch, place, SubSeq(bytes, 1, n + w))
    <2>1. ~Amiss(c) /\ (address + n) + Header + w - 1 <= Top
        BY <1>6, <1>8
    <2>2. place + n + w <= Top + 1 /\ (address + n) + Header = place + n /\ place + (n + w) <= Top + 1
        BY <1>0, <2>1
    <2>3. c.patch = Put(Final(out).patch, place, SubSeq(bytes, 1, n))
        BY <2>1 DEF Sets, c
    <2>4. Put(Put(Final(out).patch, place, SubSeq(bytes, 1, n)), place + n, more) =
              Put(Final(out).patch, place, SubSeq(bytes, 1, n + w))
        <3> DEFINE p == Final(out).patch
        <3>1. n \in Nat /\ w \in Nat /\ n + w <= Len(bytes)
            OBVIOUS
        <3>3. place + n + w <= Top + 1 /\ place \in Nat
            BY <1>0, <2>2
        <3>. HIDE DEF place, p, more
        <3>2. PutInTwo(p, place, bytes, n, w)
            BY <3>1, <3>3, PutTwice
        <3>. QED
            BY <3>2 DEF PutInTwo, p, more
    <2>. QED
        BY <1>6, <1>8, <2>2, <2>3, <2>4
<1>9. Amiss(Final(out)) => Amiss(d)
    BY <1>6 DEF Sets, c
<1>10. Sets(out, Append(t, item), place, bytes, n + w)
    BY <1>3, <1>6, <1>7, <1>8, <1>9 DEF Sets, d
<1>. QED
    BY <1>2, <1>3, <1>10 DEF item

\* Lines that are items.
AreItems(t) == t \in Seq(SourceLine) /\ \A i \in 1..Len(t) : t[i].kind = "item"

\* The words a patch is cut into, when it is.
WordsOf(bytes) == {SubSeq(bytes, 4 * k + 1, 4 * k + 4) : k \in 0..(Len(bytes) \div 4 - 1)}

\* Lines of a form, of whole words if that is the form.
AreOf(form, bytes, t) ==
    \A i \in 1..Len(t) : t[i].form = form /\ (form = "word" => t[i].bytes \in WordsOf(bytes))

\* What n rounds have written, alone and after a source whose blocks are closed.
IsWritten(r, n, form, address, bytes) ==
    /\ r.at \in 0..Len(bytes) /\ (n <= r.at \/ r.at = Len(bytes))
    /\ form = "word" => (Len(bytes) - r.at) % 4 = 0 /\ r.at % 4 = 0
    /\ AreItems(r.lines) /\ AreOf(form, bytes, r.lines)
    /\ \A out : Ready(out) => Sets(out, r.lines, address + Header, bytes, r.at)

LEMMA WidthIs ==
    ASSUME NEW form, NEW left \in Nat \ {0}, form = "word" => left % 4 = 0
    PROVE  /\ Width(form, left) \in 1..left
           /\ form = "word" => (left - Width(form, left)) % 4 = 0
<1>1. CASE form = "word"
    <2>1. left >= 4
        BY <1>1
    <2>. QED
        BY <1>1, <2>1 DEF Width
<1>2. CASE form # "word"
    BY <1>2 DEF Width
<1>. QED
    BY <1>1, <1>2

LEMMA AppendItem ==
    ASSUME NEW t, AreItems(t), NEW x \in SourceLine, x.kind = "item", NEW form, NEW bytes,
           AreOf(form, bytes, t), x.form = form, form = "word" => x.bytes \in WordsOf(bytes)
    PROVE  AreItems(Append(t, x)) /\ AreOf(form, bytes, Append(t, x))
<1>1. /\ t \in Seq(SourceLine) /\ Append(t, x) \in Seq(SourceLine) /\ Len(Append(t, x)) = Len(t) + 1
      /\ \A i \in 1..Len(t) : Append(t, x)[i] = t[i]
      /\ Append(t, x)[Len(t) + 1] = x /\ Len(t) \in Nat
    BY DEF AreItems
<1>2. \A i \in 1..(Len(t) + 1) : i \in 1..Len(t) \/ i = Len(t) + 1
    BY <1>1
<1>. QED
    BY <1>1, <1>2 DEF AreItems, AreOf

\* The word the next round takes.
LEMMA WordIs ==
    ASSUME NEW bytes \in PatchBytes, NEW i \in Nat, i % 4 = 0, i < Len(bytes),
           (Len(bytes) - i) % 4 = 0
    PROVE  SubSeq(bytes, i + 1, i + 4) \in WordsOf(bytes)
<1> DEFINE n == Len(bytes)  k == i \div 4
<1>1. n \in Nat
    BY DEF PatchBytes
<1>. HIDE DEF n
<1>2. 4 * k = i /\ k \in 0..(n \div 4 - 1)
    BY <1>1 DEF n
<1>. QED
    BY <1>2 DEF WordsOf, n

LEMMA RoundIs ==
    ASSUME NEW form \in {"word", "data"}, NEW address \in Nat, address + Header \in Addresses,
           NEW bytes \in PatchBytes, NEW n \in Nat, NEW r, IsWritten(r, n, form, address, bytes)
    PROVE  IsWritten(Round(form, address, bytes, r), n + 1, form, address, bytes)
<1>0. Len(bytes) \in Nat /\ r.at \in 0..Len(bytes) /\ r.at \in Nat
    BY DEF PatchBytes, IsWritten
<1>1. CASE r.at >= Len(bytes)
    <2>1. Round(form, address, bytes, r) = r /\ r.at = Len(bytes)
        BY <1>0, <1>1 DEF Round
    <2>. QED
        BY <2>1 DEF IsWritten
<1>2. CASE ~(r.at >= Len(bytes))
    <2> DEFINE left == Len(bytes) - r.at
               w == Width(form, left)
               x == NextPiece(form, address, bytes, r.at)
               q == [at |-> r.at + w, lines |-> Append(r.lines, x)]
    <2>1. left \in Nat \ {0} /\ (form = "word" => left % 4 = 0)
        BY <1>0, <1>2 DEF IsWritten
    <2>2. w \in 1..left /\ (form = "word" => (left - w) % 4 = 0)
        <3>. HIDE DEF left
        <3>. QED
            BY <2>1, WidthIs
    <2>3. Round(form, address, bytes, r) = q
        BY <1>2 DEF Round
    <2>4. x = Item(form, address + r.at, SubSeq(bytes, r.at + 1, r.at + w))
        BY DEF NextPiece
    <2> HIDE DEF w, x
    <2>5. /\ w \in Nat \ {0} /\ r.at + w <= Len(bytes) /\ left - w = Len(bytes) - (r.at + w)
          /\ r.at + w \in 0..Len(bytes) /\ (n <= r.at => n + 1 <= r.at + w)
        <3> DEFINE k == Len(bytes)
                   here == r.at
        <3>1. /\ left = k - here /\ here \in Nat /\ k \in Nat /\ w \in Int /\ 1 <= w /\ w <= left
            BY <1>0, <2>2
        <3> HIDE DEF k, here, left
        <3>2. /\ w \in Nat \ {0} /\ here + w <= k /\ left - w = k - (here + w) /\ here + w \in 0..k
              /\ n <= here => n + 1 <= here + w
            BY <3>1
        <3>. QED
            BY <3>2 DEF k, here
    <2>6. form \in Forms /\ AreItems(r.lines) /\ r.lines \in Seq(SourceLine)
        BY DEF Forms, IsWritten, AreItems
    <2>7. x \in SourceLine /\ x.kind = "item" /\ x.form = form /\ x.bytes = SubSeq(bytes, r.at + 1, r.at + w)
        <3> DEFINE here == r.at
                   taken == SubSeq(bytes, here + 1, here + w)
                   a == address + here
        <3>1. here \in Nat /\ here + w <= Len(bytes) /\ w \in Nat
            BY <1>0, <2>5
        <3>2. x = Item(form, a, taken)
            BY <2>4
        <3> HIDE DEF here
        <3>3. taken \in PatchBytes /\ a \in Nat
            BY <3>1 DEF PatchBytes
        <3> HIDE DEF taken, a
        <3>4. /\ Item(form, a, taken) \in SourceLine /\ Item(form, a, taken).kind = "item"
              /\ Item(form, a, taken).form = form /\ Item(form, a, taken).bytes = taken
            BY <2>6, <3>3, ItemIsLine
        <3>. QED
            BY <3>2, <3>4 DEF taken, here
    <2>8. ASSUME NEW out, Ready(out) PROVE Sets(out, Append(r.lines, x), address + Header, bytes, r.at + w)
        <3>1. Sets(out, r.lines, address + Header, bytes, r.at)
            BY <2>8 DEF IsWritten
        <3> DEFINE here == r.at
                   item == Item(form, address + here, SubSeq(bytes, here + 1, here + w))
        <3>2. here \in Nat /\ here + w <= Len(bytes) /\ Sets(out, r.lines, address + Header, bytes, here)
            BY <1>0, <2>5, <3>1
        <3>3. item = x
            BY <2>4
        <3> HIDE DEF here
        <3>4. Sets(out, Append(r.lines, item), address + Header, bytes, here + w)
            BY <2>5, <2>6, <2>8, <3>2, SetsMore
        <3> HIDE DEF item
        <3>. QED
            BY <3>3, <3>4 DEF here
    <2>9. AreItems(Append(r.lines, x)) /\ AreOf(form, bytes, Append(r.lines, x))
        <3>1. form = "word" => x.bytes \in WordsOf(bytes)
            <4> SUFFICES ASSUME form = "word" PROVE x.bytes \in WordsOf(bytes)
                OBVIOUS
            <4>1. w = 4
                BY DEF w, Width
            <4>2. r.at % 4 = 0 /\ r.at < Len(bytes) /\ (Len(bytes) - r.at) % 4 = 0
                BY <1>0, <1>2 DEF IsWritten
            <4> DEFINE here == r.at
            <4>3. here \in Nat /\ here % 4 = 0 /\ here < Len(bytes) /\ (Len(bytes) - here) % 4 = 0
                BY <1>0, <4>2
            <4>. HIDE DEF here
            <4>4. SubSeq(bytes, here + 1, here + 4) \in WordsOf(bytes)
                BY <4>3, WordIs
            <4>. QED
                BY <2>7, <4>1, <4>4 DEF here
        <3>2. AreOf(form, bytes, r.lines)
            BY DEF IsWritten
        <3>. QED
            BY <2>6, <2>7, <3>1, <3>2, AppendItem
    <2>10. n <= r.at \/ r.at = Len(bytes)
        BY DEF IsWritten
    <2>11. q.at = r.at + w /\ q.lines = Append(r.lines, x)
        OBVIOUS
    <2> HIDE DEF q
    <2>12. form = "word" => (Len(bytes) - q.at) % 4 = 0 /\ q.at % 4 = 0
        <3>1. form = "word" => w = 4 /\ r.at % 4 = 0
            BY DEF w, Width, IsWritten
        <3>2. \A m \in Nat : m % 4 = 0 => (m + 4) % 4 = 0
            OBVIOUS
        <3>. QED
            BY <1>0, <2>2, <2>5, <2>11, <3>1, <3>2
    <2>13. q.at \in 0..Len(bytes) /\ (n + 1 <= q.at \/ q.at = Len(bytes))
        BY <1>0, <1>2, <2>5, <2>10, <2>11
    <2>14. AreItems(q.lines) /\ AreOf(form, bytes, q.lines) /\ \A out : Ready(out) => Sets(out, q.lines, address + Header, bytes, q.at)
        BY <2>8, <2>9, <2>11
    <2>. QED
        BY <2>3, <2>12, <2>13, <2>14 DEF IsWritten
<1>. QED
    BY <1>1, <1>2

LEMMA PiecesAre ==
    ASSUME NEW form \in {"word", "data"}, NEW address \in Nat, address + Header \in Addresses,
           NEW bytes \in PatchBytes, form = "word" => Len(bytes) % 4 = 0
    PROVE  /\ AreItems(Pieces(form, address, bytes)) /\ AreOf(form, bytes, Pieces(form, address, bytes))
           /\ \A out : Ready(out) =>
                 Sets(out, Pieces(form, address, bytes), address + Header, bytes, Len(bytes))
<1> DEFINE f == Rounds(form, address, bytes)
           S == {n \in Nat : n <= Len(bytes) => IsWritten(f[n], n, form, address, bytes)}
<1>0. Len(bytes) \in Nat
    BY DEF PatchBytes
<1>1. f = [n \in 0..Len(bytes) |->
              IF n = 0 THEN [at |-> 0, lines |-> <<>>] ELSE Round(form, address, bytes, f[n - 1])]
    BY <1>0, RoundsAre
<1> HIDE DEF f
<1>2. 0 \in S
    <2> DEFINE r == [at |-> 0, lines |-> <<>>]
    <2>1. f[0] = r
        BY <1>0, <1>1
    <2>2. r.at = 0 /\ r.lines = <<>> /\ Len(bytes) - 0 = Len(bytes)
        BY <1>0
    <2>3. AreItems(<<>>) /\ AreOf(form, bytes, <<>>) /\ 0 % 4 = 0
        BY DEF AreItems, AreOf
    <2>. HIDE DEF r
    <2>4. IsWritten(r, 0, form, address, bytes)
        BY <1>0, <2>2, <2>3, SetsNothing DEF IsWritten
    <2>. QED
        BY <2>1, <2>4
<1>3. ASSUME NEW n \in S PROVE n + 1 \in S
    <2> SUFFICES ASSUME n + 1 <= Len(bytes) PROVE IsWritten(f[n + 1], n + 1, form, address, bytes)
        OBVIOUS
    <2>1. n \in Nat /\ n + 1 \in 0..Len(bytes) /\ n + 1 # 0 /\ (n + 1) - 1 = n /\ n <= Len(bytes)
        BY <1>0
    <2>2. IsWritten(f[n], n, form, address, bytes)
        BY <2>1
    <2>3. f[n + 1] = Round(form, address, bytes, f[(n + 1) - 1])
        BY <1>1, <2>1, Zenon
    <2>. QED
        BY <2>1, <2>2, <2>3, RoundIs
<1> HIDE DEF S
<1>4. S = Nat
    <2>1. S \subseteq Nat
        BY DEF S
    <2>. QED
        BY <1>2, <1>3, <2>1, Induction
<1>5. IsWritten(f[Len(bytes)], Len(bytes), form, address, bytes)
    BY <1>0, <1>4 DEF S
<1>6. f[Len(bytes)].at = Len(bytes)
    BY <1>0, <1>5 DEF IsWritten
<1>. QED
    BY <1>5, <1>6 DEF IsWritten, Pieces, f

\* What the source of a patch sets is the bytes of the patch; an empty one is a comment.
LEMMA BytesAre ==
    ASSUME NEW n \in Nat, file[n].size \in Nat
    PROVE  /\ BytesOf(n) \in PatchBytes /\ Len(BytesOf(n)) = file[n].size
           /\ SubSeq(BytesOf(n), 1, file[n].size) = BytesOf(n)
<1> DEFINE bytes == BytesOf(n)
           k == file[n].size
<1>1. bytes = [i \in 1..k |-> <<n, i>>]
    BY DEF BytesOf
<1>2. bytes \in Seq(Nat \X Nat) /\ Len(bytes) = k
    <2> HIDE DEF bytes, k
    <2>1. k \in Nat
        BY DEF k
    <2>2. \A i \in 1..k : <<n, i>> \in Nat \X Nat
        OBVIOUS
    <2>. QED
        BY <1>1, <2>1, <2>2
<1>3. SubSeq(bytes, 1, k) = bytes
    <2> HIDE DEF bytes, k
    <2>1. k \in Nat
        BY DEF k
    <2>2. /\ Len(SubSeq(bytes, 1, k)) = k /\ SubSeq(bytes, 1, k) \in Seq(Nat \X Nat)
          /\ \A i \in 1..k : SubSeq(bytes, 1, k)[i] = bytes[i]
        BY <1>2, <2>1
    <2>. QED
        BY <1>2, <2>2
<1>. QED
    BY <1>2, <1>3 DEF PatchBytes

\* The lines of a patch have no block in them.
AreQuiet(t) == t \in Seq(SourceLine) /\ \A i \in 1..Len(t) : t[i].kind \notin {"if", "endif"}

LEMMA ItemsAreQuiet ==
    ASSUME NEW t, AreItems(t)
    PROVE  AreQuiet(t)
  BY DEF AreItems, AreQuiet

\* The place behind k + n is still among s = k + m places when n + 1 is among m.
LEMMA NextPlace ==
    ASSUME NEW k \in Nat, NEW m \in Nat, NEW s, s = k + m, NEW n \in Nat, n + 1 <= m
    PROVE  /\ n \in Nat /\ n <= m /\ n + 1 \in 1..m /\ k + n \in Nat /\ k + n \in 0..s
           /\ (k + n) + 1 <= s /\ s \in Nat /\ k + (n + 1) = (k + n) + 1
  OBVIOUS

\* Lines added can only add what does not assemble to its bytes.
LEMMA UnlikeIs ==
    ASSUME NEW out \in Seq(SourceLine), NEW t \in Seq(SourceLine)
    PROVE  /\ Final(out).unlike => Final(out \o t).unlike
           /\ Final(out \o t).unlike =>
                 \/ Final(out).unlike
                 \/ \E i \in 1..Len(t) : t[i].kind = "item" /\ Unlike(t[i])
<1> DEFINE k == Len(out)
           q == out \o t
           U(n) == Compiled(q)[k + n].unlike
           Other == \E i \in 1..Len(t) : t[i].kind = "item" /\ Unlike(t[i])
           S == {n \in Nat : n <= Len(t) => /\ Final(out).unlike => U(n)
                                            /\ U(n) => Final(out).unlike \/ Other}
<1>0. /\ q \in Seq(SourceLine) /\ k \in Nat /\ Len(t) \in Nat /\ Len(q) = k + Len(t)
      /\ \A i \in 1..Len(t) : q[k + i] = t[i] /\ t[i] \in SourceLine
    OBVIOUS
<1>1. \A n \in 0..k : Compiled(q)[n] = Compiled(out)[n]
    BY CompiledBefore
<1>2. \A n \in 0..Len(q) : IsCompiling(Compiled(q)[n])
    BY <1>0, CompilingIs
<1> HIDE DEF q, k
<1>3. 0 \in S
    <2>1. Compiled(q)[k + 0] = Final(out)
        BY <1>0, <1>1 DEF Final, k
    <2>. QED
        BY <2>1
<1>4. ASSUME NEW n \in S PROVE n + 1 \in S
    <2> SUFFICES ASSUME n + 1 <= Len(t)
                 PROVE  (Final(out).unlike => U(n + 1)) /\ (U(n + 1) => Final(out).unlike \/ Other)
        OBVIOUS
    <2>1. /\ n \in Nat /\ n <= Len(t) /\ n + 1 \in 1..Len(t) /\ k + n \in Nat /\ k + n \in 0..Len(q)
          /\ (k + n) + 1 <= Len(q) /\ Len(q) \in Nat /\ k + (n + 1) = (k + n) + 1
        <3>1. n \in Nat
            OBVIOUS
        <3> HIDE DEF S, U, Other
        <3>2. k \in Nat /\ Len(t) \in Nat /\ Len(q) = k + Len(t)
            BY <1>0
        <3>. QED
            BY <3>1, <3>2, NextPlace
    <2>2. (Final(out).unlike => U(n)) /\ (U(n) => Final(out).unlike \/ Other)
        BY <2>1
    <2> DEFINE c == Compiled(q)[k + n]
               l == t[n + 1]
    <2>3. Compiled(q)[(k + n) + 1] = CompileLine(c, q[(k + n) + 1])
        BY <2>1, NextCompiled
    <2>4. q[(k + n) + 1] = l /\ l \in SourceLine
        BY <1>0, <2>1
    <2>5. IsCompiling(c)
        BY <1>2, <2>1
    <2>. HIDE DEF c, l
    <2>6. CompileLine(c, l).unlike = (c.unlike \/ (l.kind = "item" /\ c.depth = 0 /\ Unlike(l)))
        BY <2>4, <2>5, CompileLineIs
    <2>7. l.kind = "item" /\ Unlike(l) => Other
        BY <2>1 DEF l
    <2>8. (c.unlike <=> U(n)) /\ (U(n + 1) <=> CompileLine(c, l).unlike)
        BY <2>1, <2>3, <2>4 DEF c
    <2>. HIDE DEF U, Other
    <2>. QED
        BY <2>2, <2>6, <2>7, <2>8
<1> HIDE DEF S
<1>5. S = Nat
    <2>1. S \subseteq Nat
        BY DEF S
    <2>. QED
        BY <1>3, <1>4, <2>1, Induction
<1>6. (Final(out).unlike => U(Len(t))) /\ (U(Len(t)) => Final(out).unlike \/ Other)
    BY <1>0, <1>5 DEF S
<1>7. Final(q) = Compiled(q)[k + Len(t)]
    BY <1>0 DEF Final
<1>. QED
    BY <1>6, <1>7 DEF q

LEMMA SourceIs ==
    ASSUME NEW n \in Nat, file[n].size \in Nat, NEW address \in Nat, address + Header \in Addresses
    PROVE  /\ AreQuiet(Source(n, address))
           /\ \A out : Ready(out) =>
                 Sets(out, Source(n, address), address + Header, BytesOf(n), file[n].size)
           /\ (\E i \in 1..Len(Source(n, address)) : /\ Source(n, address)[i].kind = "item"
                                                    /\ Unlike(Source(n, address)[i])) =>
                 file[n].string \/ LostWord(n)
           /\ file[n].string /\ file[n].size > 1 =>
                 \E l \in SourceLine : /\ l.kind = "item" /\ Unlike(l)
                                      /\ Source(n, address) = <<l>>
<1> DEFINE bytes == BytesOf(n)
           k == file[n].size
           t == Source(n, address)
<1>1. bytes \in PatchBytes /\ Len(bytes) = k /\ k \in Nat
    BY BytesAre
<1>2. address + Header \in Nat /\ address + Header <= Top + 1 /\ Header \in Nat
    BY TopIsNat, HeaderIsAligned DEF Addresses
<1>3. t = IF bytes = <<>> THEN <<[kind |-> "comment"]>>
          ELSE IF file[n].string THEN <<Item("string", address, bytes)>>
          ELSE IF address % 4 = 0 /\ Len(bytes) % 4 = 0 THEN Pieces("word", address, bytes)
          ELSE Pieces("data", address, bytes)
    BY DEF Source
<1> HIDE DEF bytes, t
<1>4. CASE bytes = <<>>
    <2> DEFINE l == [kind |-> "comment"]
    <2>1. l \in SourceLine /\ l.kind = "comment" /\ k = 0
        BY <1>1, <1>4 DEF SourceLine
    <2> HIDE DEF l
    <2>2. t = <<l>>
        BY <1>3, <1>4 DEF l
    <2>3. AreQuiet(t) /\ \A i \in 1..Len(t) : t[i].kind # "item"
        BY <2>1, <2>2 DEF AreQuiet
    <2>4. ASSUME NEW out, Ready(out) PROVE Sets(out, t, address + Header, bytes, 0)
        <3>1. Balanced(out \o t) /\ Final(out \o t) = Final(out)
            BY <2>1, <2>2, <2>4, QuietLine DEF Ready
        <3>2. IsPatch(Final(out).patch)
            BY <2>4, FinalIs DEF Ready, IsCompiling
        <3>3. Put(Final(out).patch, address + Header, SubSeq(bytes, 1, 0)) = Final(out).patch
            BY <1>2, <3>2, PutNothing
        <3>. QED
            BY <1>2, <2>4, <3>1, <3>3 DEF Sets, Ready
    <2>. QED
        BY <2>1, <2>3, <2>4 DEF t, bytes, k
<1>5. CASE bytes # <<>> /\ file[n].string
    <2> DEFINE item == Item("string", address + 0, SubSeq(bytes, 0 + 1, 0 + k))
    <2>1. k \in Nat \ {0} /\ 0 + k <= Len(bytes) /\ 0 + k = k /\ 0 + 1 = 1 /\ address + 0 = address
        BY <1>1, <1>5 DEF PatchBytes
    <2>2. SubSeq(bytes, 1, k) = bytes
        BY BytesAre DEF bytes
    <2>3. item = Item("string", address, bytes)
        BY <2>1, <2>2
    <2>4. t = Append(<<>>, item) /\ "string" \in Forms /\ <<>> \in Seq(SourceLine)
        BY <1>3, <1>5, <2>3 DEF Forms
    <2>5. item \in SourceLine /\ item.kind = "item" /\ Unlike(item) /\ t = <<item>>
        <3>1. item \in SourceLine /\ item.kind = "item" /\ item.form = "string"
            BY <1>1, <2>3, <2>4, ItemIsLine
        <3>. QED
            BY <2>4, <3>1 DEF Unlike
    <2>6. AreQuiet(t)
        <3> HIDE DEF item
        <3>. QED
            BY <2>4, <2>5 DEF AreQuiet
    <2>7. ASSUME NEW out, Ready(out) PROVE Sets(out, t, address + Header, bytes, k)
        <3> DEFINE none == <<>>
        <3>1. Sets(out, none, address + Header, bytes, 0) /\ none \in Seq(SourceLine) /\ 0 \in Nat
            BY <1>1, <2>4, <2>7, SetsNothing
        <3> HIDE DEF k, none
        <3>2. Sets(out, Append(none, item), address + Header, bytes, 0 + k)
            BY <1>1, <2>1, <2>4, <2>7, <3>1, SetsMore
        <3> HIDE DEF item
        <3>. QED
            BY <2>1, <2>4, <3>2 DEF none
    <2>. HIDE DEF item
    <2>. QED
        BY <1>5, <2>5, <2>6, <2>7 DEF t, bytes
<1>6. ASSUME bytes # <<>>, ~file[n].string, NEW form \in {"word", "data"},
             form = "word" => Len(bytes) % 4 = 0, t = Pieces(form, address, bytes)
      PROVE  /\ AreQuiet(t) /\ \A out : Ready(out) => Sets(out, t, address + Header, bytes, k)
             /\ \A i \in 1..Len(t) : Unlike(t[i]) => LostWord(n)
    <2>1. AreQuiet(t) /\ AreOf(form, bytes, t) /\ \A out : Ready(out) => Sets(out, t, address + Header, bytes, k)
        BY <1>1, <1>6, PiecesAre, ItemsAreQuiet
    <2>2. ASSUME NEW i \in 1..Len(t), Unlike(t[i]) PROVE LostWord(n)
        <3>1. form = "word" /\ t[i].bytes \in Lost /\ t[i].bytes \in WordsOf(bytes)
            BY <2>1, <2>2 DEF AreOf, Unlike
        <3>2. PICK j \in 0..(Len(bytes) \div 4 - 1) : t[i].bytes = SubSeq(bytes, 4 * j + 1, 4 * j + 4)
            BY <3>1 DEF WordsOf
        <3>3. Len(bytes) = k
            BY <1>1
        <3>. QED
            BY <3>1, <3>2, <3>3 DEF LostWord, bytes, k
    <2>. QED
        BY <2>1, <2>2
<1>7. CASE bytes # <<>> /\ ~file[n].string /\ address % 4 = 0 /\ Len(bytes) % 4 = 0
    BY <1>3, <1>6, <1>7 DEF t, bytes
<1>8. CASE bytes # <<>> /\ ~file[n].string /\ ~(address % 4 = 0 /\ Len(bytes) % 4 = 0)
    BY <1>3, <1>6, <1>8 DEF t, bytes
<1>. QED
    BY <1>4, <1>5, <1>7, <1>8

-----------------------------------------------------------------------------
(* The invariant.                                                          *)

IsBin(b) ==
    b = [enabled |-> b.enabled, shift |-> b.shift, patch |-> b.patch, build |-> b.build, diags |-> b.diags]

IsSrc(s) == s = [status |-> s.status, shift |-> s.shift, out |-> s.out, diags |-> s.diags]

Kept ==
    /\ file \in Files /\ IsBin(bin) /\ IsSrc(src)
    /\ bin.shift \in -(Top + 1)..Top /\ IsPatch(bin.patch) /\ src.out \in Seq(SourceLine)

\* A block is open while a disabled part is written.
Blocks ==
    /\ Balanced(src.out)
    /\ Final(src.out).depth = IF src.status = "disabled" /\ ~done THEN 1 ELSE 0

SamePatch == ~Amiss(Final(src.out)) /\ ~InHeader => Final(src.out).patch = bin.patch

SameBuild ==
    bin.build # NoBuild => \E n \in DOMAIN src.out : src.out[n].kind = "option" /\ src.out[n].build = bin.build

NoStop(n) == \A k \in 1..(n - 1) : Kind(k) # "stop"

\* What is enabled is what a reader of the file means by it.
Following == pos \in DOMAIN file => NoStop(pos) /\ (bin.enabled <=> EnabledAt(pos))

\* What does not assemble to its bytes is of an enabled line, and every enabled string is.
Alike ==
    /\ Final(src.out).unlike => \E n \in 1..(pos - 1) : On(n) /\ (file[n].string \/ LostWord(n))
    /\ ~InHeader => \A n \in 1..(pos - 1) : On(n) /\ file[n].string => Final(src.out).unlike

IInv == TypeOK /\ Kept /\ Blocks /\ SamePatch /\ SameBuild /\ Following /\ Alike

\* One line further, what is enabled.
LEMMA EnabledNext ==
    ASSUME NEW n \in Nat \ {0}
    PROVE  /\ NoStop(n + 1) <=> NoStop(n) /\ Kind(n) # "stop"
           /\ EnabledAt(n + 1) <=>
                 /\ NoStop(n + 1)
                 /\ Kind(n) = "enable" \/ (EnabledAt(n) /\ Kind(n) # "disable")
<1>1. \A k : k \in 1..((n + 1) - 1) <=> k \in 1..(n - 1) \/ k = n
    OBVIOUS
<1>2. NoStop(n + 1) <=> NoStop(n) /\ Kind(n) # "stop"
    BY <1>1 DEF NoStop
<1> DEFINE Since(k, m) == Kind(k) = "enable" /\ \A j \in (k + 1)..(m - 1) : Kind(j) # "disable"
<1>3. \A k \in 1..(n - 1) : Since(k, n + 1) <=> Since(k, n) /\ Kind(n) # "disable"
    <2> TAKE k \in 1..(n - 1)
    <2>1. \A j : j \in (k + 1)..((n + 1) - 1) <=> j \in (k + 1)..(n - 1) \/ j = n
        OBVIOUS
    <2>. QED
        BY <2>1
<1>4. Since(n, n + 1) <=> Kind(n) = "enable"
    OBVIOUS
<1>5. \A m : EnabledAt(m) <=> NoStop(m) /\ \E k \in 1..(m - 1) : Since(k, m)
    BY DEF EnabledAt, NoStop
<1> HIDE DEF Since
<1>6. (\E k \in 1..((n + 1) - 1) : Since(k, n + 1)) <=>
      Kind(n) = "enable" \/ ((\E k \in 1..(n - 1) : Since(k, n)) /\ Kind(n) # "disable")
    BY <1>1, <1>3, <1>4
<1>. QED
    BY <1>2, <1>5, <1>6

\* The file does not change, nor what its lines are.
LEMMA SameFile ==
    ASSUME file' = file
    PROVE  /\ Following' <=> (pos' \in DOMAIN file => NoStop(pos') /\ (bin'.enabled <=> EnabledAt(pos')))
           /\ Alike' <=>
                /\ Final(src'.out).unlike =>
                      \E n \in 1..(pos' - 1) : On(n) /\ (file[n].string \/ LostWord(n))
                /\ ~InHeader' => \A n \in 1..(pos' - 1) : On(n) /\ file[n].string => Final(src'.out).unlike
<1>1. \A n : (Kind(n))' = Kind(n)
    BY DEF Kind
<1>2. \A n : ((EnabledAt(n))' <=> EnabledAt(n)) /\ ((On(n))' <=> On(n)) /\ ((LostWord(n))' <=> LostWord(n))
    BY <1>1 DEF EnabledAt, On, LostWord, BytesOf
<1>3. Following' <=> (pos' \in DOMAIN file => NoStop(pos') /\ (bin'.enabled <=> EnabledAt(pos')))
    BY DEF Following, NoStop, EnabledAt, Kind
<1>. QED
    BY <1>2, <1>3 DEF Alike

\* One line further, whatever it was but @stop.
LEMMA FollowingKeeps ==
    ASSUME IInv, file' = file, pos \in DOMAIN file, pos' = pos + 1, Kind(pos) # "stop",
           bin'.enabled <=> Kind(pos) = "enable" \/ (bin.enabled /\ Kind(pos) # "disable")
    PROVE  Following'
<1>1. pos \in Nat \ {0}
    <2>1. file \in Seq({file[i] : i \in DOMAIN file})
        BY FilesAreLines DEF IInv, Kept
    <2>2. DOMAIN file = 1..Len(file) /\ Len(file) \in Nat
        BY <2>1
    <2>. QED
        BY <2>2
<1>2. /\ NoStop(pos + 1) <=> NoStop(pos) /\ Kind(pos) # "stop"
      /\ EnabledAt(pos + 1) <=>
            /\ NoStop(pos + 1)
            /\ Kind(pos) = "enable" \/ (EnabledAt(pos) /\ Kind(pos) # "disable")
    BY <1>1, EnabledNext
<1>3. NoStop(pos) /\ (bin.enabled <=> EnabledAt(pos))
    BY DEF IInv, Following
<1>. QED
    BY <1>2, <1>3, SameFile

LEMMA AlikeKeeps ==
    ASSUME IInv, file' = file, pos' = pos + 1, src.diags \subseteq src'.diags,
           Final(src'.out).unlike =>
               Final(src.out).unlike \/ (On(pos) /\ (file[pos].string \/ LostWord(pos))),
           Final(src.out).unlike => Final(src'.out).unlike,
           InHeader' \/ (On(pos) /\ file[pos].string => Final(src'.out).unlike)
    PROVE  Alike'
<1>1. pos \in Nat \ {0}
    <2>1. file \in Seq({file[i] : i \in DOMAIN file})
        BY FilesAreLines DEF IInv, Kept
    <2>2. Len(file) \in Nat
        BY <2>1
    <2>. QED
        BY <2>2 DEF IInv, TypeOK
<1>2. \A n : n \in 1..(pos' - 1) <=> n \in 1..(pos - 1) \/ n = pos
    BY <1>1
<1>3. InHeader => InHeader'
    BY DEF InHeader
<1>. QED
    BY <1>2, <1>3, SameFile DEF IInv, Alike

LEMMA AdvanceIs ==
    ASSUME NEW b, IsBin(b), NEW s, IsSrc(s), Advance(b, s)
    PROVE  /\ IsBin(bin') /\ bin'.enabled = b.enabled /\ bin'.shift = b.shift
           /\ bin'.patch = b.patch /\ bin'.build = b.build
           /\ IsSrc(src') /\ src'.status = s.status /\ src'.shift = s.shift
           /\ src'.out = s.out /\ s.diags \subseteq src'.diags
           /\ pos' = pos + 1 /\ file' = file /\ done' = done
<1>1. bin' = [enabled |-> b.enabled, shift |-> b.shift, patch |-> b.patch, build |-> b.build,
              diags |-> b.diags \cup ReaderDiags(pos)]
    BY DEF IsBin, Advance
<1>2. src' = [status |-> s.status, shift |-> s.shift, out |-> s.out, diags |-> s.diags \cup ReaderDiags(pos)]
    BY DEF IsSrc, Advance
<1>. QED
    BY <1>1, <1>2 DEF IsBin, IsSrc, Advance

LEMMA EmitIs ==
    ASSUME IsSrc(src), NEW text
    PROVE  /\ IsSrc(Emit(text)) /\ Emit(text).status = src.status /\ Emit(text).shift = src.shift
           /\ Emit(text).out = src.out \o text /\ Emit(text).diags = src.diags
<1>1. Emit(text) = [status |-> src.status, shift |-> src.shift, out |-> src.out \o text, diags |-> src.diags]
    <2> DEFINE more == src.out \o text
    <2>1. Emit(text) = [src EXCEPT !.out = more]
        BY DEF Emit
    <2> HIDE DEF more
    <2>2. [src EXCEPT !.out = more] = [status |-> src.status, shift |-> src.shift, out |-> more, diags |-> src.diags]
        BY DEF IsSrc
    <2>. QED
        BY <2>1, <2>2 DEF more
<1>. QED
    BY <1>1 DEF IsSrc

\* What every step keeps but the blocks and the patch, when t is added to the source.
Follows(t) ==
    /\ file' = file /\ pos' \in 1..(Len(file) + 1)
    /\ IsBin(bin') /\ bin'.enabled \in BOOLEAN /\ bin'.shift \in -(Top + 1)..Top
    /\ IsPatch(bin'.patch) /\ bin'.build \in {NoBuild, 1}
    /\ bin'.build = bin.build \/ \E n \in 1..Len(t) : t[n].kind = "option" /\ t[n].build = bin'.build
    /\ IsSrc(src') /\ src'.status \in {"pre-enabled", "enabled", "disabled"}
    /\ src'.shift = bin'.shift /\ (bin'.enabled <=> src'.status = "enabled")
    /\ t \in Seq(SourceLine) /\ src'.out = src.out \o t /\ src.diags \subseteq src'.diags

LEMMA FollowsKeeps ==
    ASSUME IInv, NEW t, Follows(t), Blocks', SamePatch', Following', Alike'
    PROVE  IInv'
<1>1. TypeOK'
    BY DEF TypeOK, Follows, IsPatch
<1>2. Kept'
    BY DEF IInv, Kept, Follows
<1>3. SameBuild'
    <2> DEFINE k == Len(src.out)
    <2>1. /\ src.out \in Seq(SourceLine) /\ t \in Seq(SourceLine) /\ k \in Nat /\ Len(t) \in Nat
          /\ Len(src'.out) = k + Len(t) /\ DOMAIN src.out = 1..k /\ DOMAIN src'.out = 1..(k + Len(t))
          /\ \A n \in 1..k : src'.out[n] = src.out[n]
          /\ \A n \in 1..Len(t) : src'.out[k + n] = t[n]
        BY DEF IInv, Kept, Follows
    <2> HIDE DEF k
    <2>2. CASE \E n \in 1..Len(t) : t[n].kind = "option" /\ t[n].build = bin'.build
        <3>1. PICK n \in 1..Len(t) : t[n].kind = "option" /\ t[n].build = bin'.build
            BY <2>2
        <3>2. k + n \in DOMAIN src'.out
            BY <2>1
        <3>. QED
            BY <2>1, <3>1, <3>2 DEF SameBuild
    <2>3. CASE bin'.build = bin.build /\ bin.build # NoBuild
        <3>1. PICK n \in 1..k : src.out[n].kind = "option" /\ src.out[n].build = bin.build
            BY <2>1, <2>3 DEF IInv, SameBuild
        <3>2. n \in DOMAIN src'.out
            BY <2>1
        <3>. QED
            BY <2>1, <2>3, <3>1, <3>2 DEF SameBuild
    <2>4. CASE bin'.build = bin.build /\ bin.build = NoBuild
        BY <2>4 DEF SameBuild, NoBuild
    <2>. QED
        BY <2>2, <2>3, <2>4 DEF Follows
<1>. QED
    BY <1>1, <1>2, <1>3 DEF IInv

\* A line that is no item: a block opens or ends when the status says so.
LEMMA LineKeeps ==
    ASSUME IInv, NEW l \in SourceLine, l.kind # "item", Follows(<<l>>), bin'.patch = bin.patch, ~done, ~done',
           pos \in DOMAIN file, pos' = pos + 1, Kind(pos) \notin {"patch", "stop"},
           bin'.enabled <=> Kind(pos) = "enable" \/ (bin.enabled /\ Kind(pos) # "disable"),
           l.kind = "if" => src.status # "disabled" /\ src'.status = "disabled",
           l.kind = "endif" => src.status = "disabled" /\ src'.status # "disabled",
           l.kind \notin {"if", "endif"} => (src.status = "disabled" <=> src'.status = "disabled")
    PROVE  IInv'
<1> DEFINE c == Final(src.out)
           d == Final(src'.out)
<1>1. src.out \in Seq(SourceLine) /\ src'.out = src.out \o <<l>>
    BY DEF IInv, Kept, Follows
<1>2. d = CompileLine(c, l) /\ (Balanced(src'.out) <=> Balanced(src.out) /\ d.depth \in 0..1)
    BY <1>1, LineAdded
<1>3. IsCompiling(c)
    BY <1>1, FinalIs
<1>4. Balanced(src.out) /\ c.depth = IF src.status = "disabled" THEN 1 ELSE 0
    BY DEF IInv, Blocks
<1> HIDE DEF c, d
<1>5. /\ d.depth = IF l.kind = "if" THEN c.depth + 1 ELSE IF l.kind = "endif" THEN c.depth - 1 ELSE c.depth
      /\ d.patch = c.patch /\ (Amiss(d) <=> Amiss(c)) /\ d.unlike = c.unlike
    BY <1>2, <1>3, CompileLineIs DEF Amiss
<1>6. d.depth = IF src'.status = "disabled" THEN 1 ELSE 0
    BY <1>4, <1>5
<1>7. Blocks'
    BY <1>2, <1>4, <1>6 DEF Blocks, d
<1>8. SamePatch'
    <2>1. InHeader => InHeader'
        BY DEF InHeader, Follows
    <2>2. ~Amiss(c) /\ ~InHeader => c.patch = bin.patch
        BY DEF IInv, SamePatch, c
    <2>. QED
        BY <1>5, <2>1, <2>2 DEF SamePatch, d
<1>9. file' = file /\ src.diags \subseteq src'.diags
    BY DEF Follows
<1>10. Following'
    BY <1>9, FollowingKeeps
<1>11. Alike'
    <2>1. ~On(pos)
        BY DEF On
    <2>2. Final(src'.out).unlike <=> Final(src.out).unlike
        BY <1>5 DEF c, d
    <2>. QED
        BY <1>9, <2>1, <2>2, AlikeKeeps
<1>. QED
    BY <1>7, <1>8, <1>10, <1>11, FollowsKeeps

-----------------------------------------------------------------------------
(* The steps.                                                              *)

\* What a line read is, whatever its kind.
LEMMA ReadsIs ==
    ASSUME IInv, NEW kinds, Reads(kinds)
    PROVE  /\ pos \in Nat /\ pos + 1 \in 1..(Len(file) + 1) /\ ~done /\ Kind(pos) \in kinds
           /\ IsLine(file[pos]) /\ pos \in DOMAIN file
<1>1. file \in Files /\ pos \in DOMAIN file
    BY DEF IInv, Kept, Reads
<1>2. /\ file \in Seq({file[i] : i \in DOMAIN file})
      /\ IsLine(file[pos])
    BY <1>1, FilesAreLines
<1>3. DOMAIN file = 1..Len(file) /\ Len(file) \in Nat
    BY <1>2
<1>. QED
    BY <1>1, <1>2, <1>3 DEF Reads

LEMMA ReadBuildIdKeeps ==
    ASSUME IInv, ReadBuildId
    PROVE  IInv'
<1> DEFINE l == [kind |-> "option", build |-> pos]
           b == [bin EXCEPT !.build = pos]
           s == Emit(<<l>>)
<1>1. pos \in Nat /\ pos + 1 \in 1..(Len(file) + 1) /\ ~done /\ Kind(pos) \in {"nsobid"} /\ pos \in DOMAIN file
    BY ReadsIs DEF ReadBuildId
<1>2. pos = 1
    <2>1. pos >= 1
        BY <1>1 DEF IInv, TypeOK
    <2>. QED
        BY <1>1, <2>1 DEF Kind
<1>3. IsBin(bin) /\ IsSrc(src)
    BY DEF IInv, Kept
<1>4. Advance(b, s)
    BY DEF ReadBuildId
<1>5. l \in SourceLine /\ l.kind = "option" /\ l.build = pos
    BY <1>1 DEF SourceLine
<1>6. IsBin(b) /\ b.enabled = bin.enabled /\ b.shift = bin.shift /\ b.patch = bin.patch /\ b.build = pos
    BY <1>3 DEF IsBin
<1>7. IsSrc(s) /\ s.status = src.status /\ s.shift = src.shift /\ s.out = src.out \o <<l>> /\ s.diags = src.diags
    BY <1>3, EmitIs
<1> HIDE DEF b, s, l
<1>8. /\ IsBin(bin') /\ bin'.enabled = bin.enabled /\ bin'.shift = bin.shift
      /\ bin'.patch = bin.patch /\ bin'.build = pos
      /\ IsSrc(src') /\ src'.status = src.status /\ src'.shift = src.shift
      /\ src'.out = src.out \o <<l>> /\ src.diags \subseteq src'.diags
      /\ pos' = pos + 1 /\ file' = file /\ done' = done
    BY <1>4, <1>6, <1>7, AdvanceIs
<1>9. Follows(<<l>>)
    <2>1. <<l>> \in Seq(SourceLine) /\ 1 \in 1..Len(<<l>>) /\ <<l>>[1] = l
        BY <1>5
    <2>. QED
        BY <1>1, <1>2, <1>5, <1>8, <2>1 DEF Follows, IInv, TypeOK, Kept
<1>. QED
    BY <1>1, <1>5, <1>8, <1>9, LineKeeps

\* A line of source for a line of the file, no patch and no build ID.
LEMMA OneLineKeeps ==
    ASSUME IInv, NEW kinds, Reads(kinds), NEW l \in SourceLine, l.kind # "item",
           NEW b, IsBin(b), b.enabled \in BOOLEAN, b.shift \in -(Top + 1)..Top,
           b.patch = bin.patch, b.build = bin.build,
           NEW s, IsSrc(s), s.status \in {"pre-enabled", "enabled", "disabled"},
           s.shift = b.shift, b.enabled <=> s.status = "enabled",
           s.out = src.out \o <<l>>, src.diags \subseteq s.diags, Advance(b, s),
           Kind(pos) \notin {"patch", "stop"},
           b.enabled <=> Kind(pos) = "enable" \/ (bin.enabled /\ Kind(pos) # "disable"),
           l.kind = "if" => src.status # "disabled" /\ s.status = "disabled",
           l.kind = "endif" => src.status = "disabled" /\ s.status # "disabled",
           l.kind \notin {"if", "endif"} => (src.status = "disabled" <=> s.status = "disabled")
    PROVE  IInv'
<1>1. pos + 1 \in 1..(Len(file) + 1) /\ ~done /\ pos \in DOMAIN file
    BY ReadsIs
<1>2. /\ IsBin(bin') /\ bin'.enabled = b.enabled /\ bin'.shift = b.shift
      /\ bin'.patch = b.patch /\ bin'.build = b.build
      /\ IsSrc(src') /\ src'.status = s.status /\ src'.shift = s.shift
      /\ src'.out = s.out /\ s.diags \subseteq src'.diags
      /\ pos' = pos + 1 /\ file' = file /\ done' = done
    BY AdvanceIs
<1>3. Follows(<<l>>)
    <2>1. <<l>> \in Seq(SourceLine)
        OBVIOUS
    <2>2. src.diags \subseteq src'.diags
        BY <1>2
    <2>. QED
        BY <1>1, <1>2, <2>1, <2>2 DEF Follows, IInv, TypeOK, Kept
<1>. QED
    BY <1>1, <1>2, <1>3, LineKeeps

LEMMA ReadNoteKeeps ==
    ASSUME IInv, ReadNote
    PROVE  IInv'
<1> DEFINE l == [kind |-> "comment"]
           s == Emit(<<l>>)
<1>1. Reads({"ignored", "comment", "big", "little", "print_values"}) /\ Kind(pos) \in {"ignored", "comment", "big", "little", "print_values"}
    BY DEF ReadNote, Reads
<1>2. l \in SourceLine /\ l.kind = "comment"
    BY DEF SourceLine
<1>3. IsBin(bin) /\ IsSrc(src)
    BY DEF IInv, Kept
<1>4. Advance(bin, s)
    BY DEF ReadNote
<1>5. IsSrc(s) /\ s.status = src.status /\ s.shift = src.shift /\ s.out = src.out \o <<l>> /\ s.diags = src.diags
    BY <1>3, EmitIs
<1>6. /\ bin.enabled \in BOOLEAN /\ bin.shift \in -(Top + 1)..Top /\ src.shift = bin.shift
      /\ src.status \in {"pre-enabled", "enabled", "disabled"} /\ (bin.enabled <=> src.status = "enabled")
    BY DEF IInv, TypeOK, Kept
<1> HIDE DEF s, l
<1>. QED
    BY <1>1, <1>2, <1>3, <1>4, <1>5, <1>6, OneLineKeeps

LEMMA ReadInformationKeeps ==
    ASSUME IInv, ReadInformation
    PROVE  IInv'
<1> DEFINE l == [kind |-> "warning"]
           s == Emit(<<l>>)
           b == [bin EXCEPT !.diags = @ \cup {Diag(pos, "information")}]
<1>1. Reads({"information"}) /\ Kind(pos) = "information"
    BY DEF ReadInformation, Reads
<1>2. l \in SourceLine /\ l.kind = "warning"
    BY DEF SourceLine
<1>3. IsBin(bin) /\ IsSrc(src)
    BY DEF IInv, Kept
<1>4. Advance(b, s)
    BY DEF ReadInformation
<1>5. IsSrc(s) /\ s.status = src.status /\ s.shift = src.shift /\ s.out = src.out \o <<l>> /\ s.diags = src.diags
    BY <1>3, EmitIs
<1>6. /\ bin.enabled \in BOOLEAN /\ bin.shift \in -(Top + 1)..Top /\ src.shift = bin.shift
      /\ src.status \in {"pre-enabled", "enabled", "disabled"} /\ (bin.enabled <=> src.status = "enabled")
    BY DEF IInv, TypeOK, Kept
<1>7. IsBin(b) /\ b.enabled = bin.enabled /\ b.shift = bin.shift /\ b.patch = bin.patch /\ b.build = bin.build
    BY <1>3 DEF IsBin
<1> HIDE DEF s, l, b
<1>. QED
    BY <1>1, <1>2, <1>4, <1>5, <1>6, <1>7, OneLineKeeps

LEMMA ReadEnableKeeps ==
    ASSUME IInv, ReadEnable
    PROVE  IInv'
<1> DEFINE l == [kind |-> IF src.status = "disabled" THEN "endif" ELSE "comment"]
           e == Emit(<<l>>)
           s == [e EXCEPT !.status = "enabled"]
           on == TRUE
           more == bin.diags \cup {Diag(pos, "enabled")}
           b == [bin EXCEPT !.enabled = on, !.diags = more]
<1>1. Reads({"enable"}) /\ Kind(pos) = "enable"
    BY DEF ReadEnable, Reads
<1>2. /\ l \in SourceLine /\ l.kind \in {"endif", "comment"}
      /\ (l.kind = "endif" <=> src.status = "disabled")
    BY DEF SourceLine
<1>3. IsBin(bin) /\ IsSrc(src)
    BY DEF IInv, Kept
<1>4. Advance(b, s)
    BY DEF ReadEnable
<1>5. IsSrc(e) /\ e.shift = src.shift /\ e.out = src.out \o <<l>> /\ e.diags = src.diags
    BY <1>3, EmitIs
<1>6. /\ bin.shift \in -(Top + 1)..Top /\ src.shift = bin.shift
    BY DEF IInv, TypeOK, Kept
<1>7. IsBin(b) /\ b.enabled = on /\ b.shift = bin.shift /\ b.patch = bin.patch /\ b.build = bin.build
    <2> HIDE DEF on, more
    <2> DEFINE started == [bin EXCEPT !.enabled = on]
    <2>2. b = [started EXCEPT !.diags = more]
        OBVIOUS
    <2>3. started = [enabled |-> on, shift |-> bin.shift, patch |-> bin.patch, build |-> bin.build, diags |-> bin.diags]
        BY <1>3 DEF IsBin
    <2> HIDE DEF started
    <2>1. b = [enabled |-> on, shift |-> bin.shift, patch |-> bin.patch, build |-> bin.build, diags |-> more]
        BY <2>2, <2>3
    <2> HIDE DEF b
    <2>. QED
        BY <2>1 DEF IsBin
<1> HIDE DEF e, l, b
<1>8. IsSrc(s) /\ s.status = "enabled" /\ s.shift = src.shift /\ s.out = src.out \o <<l>> /\ s.diags = src.diags
    BY <1>5 DEF IsSrc
<1> HIDE DEF s
<1>. QED
    BY <1>1, <1>2, <1>4, <1>6, <1>7, <1>8, OneLineKeeps

LEMMA ReadDisableKeeps ==
    ASSUME IInv, ReadDisable
    PROVE  IInv'
<1> DEFINE l == [kind |-> IF src.status = "disabled" THEN "comment" ELSE "if"]
           e == Emit(<<l>>)
           s == [e EXCEPT !.status = "disabled"]
           off == FALSE
           b == [bin EXCEPT !.enabled = off]
<1>1. Reads({"disable"}) /\ Kind(pos) = "disable"
    BY DEF ReadDisable, Reads
<1>2. /\ l \in SourceLine /\ l.kind \in {"if", "comment"}
      /\ (l.kind = "comment" <=> src.status = "disabled")
    BY DEF SourceLine
<1>3. IsBin(bin) /\ IsSrc(src)
    BY DEF IInv, Kept
<1>4. Advance(b, s)
    BY DEF ReadDisable
<1>5. IsSrc(e) /\ e.shift = src.shift /\ e.out = src.out \o <<l>> /\ e.diags = src.diags
    BY <1>3, EmitIs
<1>6. /\ bin.shift \in -(Top + 1)..Top /\ src.shift = bin.shift
    BY DEF IInv, TypeOK, Kept
<1>7. IsBin(b) /\ b.enabled = off /\ b.shift = bin.shift /\ b.patch = bin.patch /\ b.build = bin.build
    <2> HIDE DEF off
    <2>. QED
        BY <1>3 DEF IsBin
<1> HIDE DEF e, l, b
<1>8. IsSrc(s) /\ s.status = "disabled" /\ s.shift = src.shift /\ s.out = src.out \o <<l>> /\ s.diags = src.diags
    BY <1>5 DEF IsSrc
<1> HIDE DEF s
<1>. QED
    BY <1>1, <1>2, <1>4, <1>6, <1>7, <1>8, OneLineKeeps

LEMMA ReadShiftKeeps ==
    ASSUME IInv, ReadShift
    PROVE  IInv'
<1> DEFINE l == [kind |-> "comment"]
           e == Emit(<<l>>)
           by == file[pos].by
           s == [e EXCEPT !.shift = by]
           b == [bin EXCEPT !.shift = by]
<1>1. Reads({"shift"}) /\ Kind(pos) = "shift"
    BY DEF ReadShift, Reads
<1>2. l \in SourceLine /\ l.kind = "comment"
    BY DEF SourceLine
<1>3. IsBin(bin) /\ IsSrc(src)
    BY DEF IInv, Kept
<1>4. Advance(b, s)
    BY DEF ReadShift
<1>5. IsSrc(e) /\ e.status = src.status /\ e.out = src.out \o <<l>> /\ e.diags = src.diags
    BY <1>3, EmitIs
<1>6. by \in -(Top + 1)..Top
    <2>1. Kind(pos) \in {"shift"} /\ IsLine(file[pos])
        BY <1>1, ReadsIs
    <2>2. file[pos].kind = "shift"
        BY <2>1 DEF Kind
    <2>. QED
        BY <2>1, <2>2 DEF IsLine
<1>7. /\ bin.enabled \in BOOLEAN
      /\ src.status \in {"pre-enabled", "enabled", "disabled"} /\ (bin.enabled <=> src.status = "enabled")
    BY DEF IInv, TypeOK
<1> HIDE DEF e, l, by
<1>8. IsBin(b) /\ b.enabled = bin.enabled /\ b.shift = by /\ b.patch = bin.patch /\ b.build = bin.build
    BY <1>3 DEF IsBin
<1>9. IsSrc(s) /\ s.status = src.status /\ s.shift = by /\ s.out = src.out \o <<l>> /\ s.diags = src.diags
    BY <1>5 DEF IsSrc
<1> HIDE DEF s, b
<1>. QED
    BY <1>1, <1>2, <1>4, <1>6, <1>7, <1>8, <1>9, OneLineKeeps

\* More than one line, or an item: what is to be shown of them.
LEMMA LinesKeep ==
    ASSUME IInv, NEW kinds, Reads(kinds), NEW t \in Seq(SourceLine),
           NEW b, IsBin(b), b.enabled = bin.enabled, b.shift = bin.shift,
           IsPatch(b.patch), b.build = bin.build,
           NEW s, IsSrc(s), s.status \in {src.status, "disabled"}, s.status = "enabled" <=> src.status = "enabled",
           s.shift = src.shift, s.out = src.out \o t, src.diags \subseteq s.diags, Advance(b, s),
           Balanced(src.out \o t), Final(src.out \o t).depth = IF s.status = "disabled" THEN 1 ELSE 0,
           \/ \E d \in s.diags : d.kind = "header"
           \/ Amiss(Final(src.out \o t))
           \/ /\ Amiss(Final(src.out)) => Amiss(Final(src.out \o t))
              /\ Final(src.out).patch = bin.patch => Final(src.out \o t).patch = b.patch,
           Kind(pos) = "patch",
           Final(src.out \o t).unlike =>
               Final(src.out).unlike \/ (bin.enabled /\ (file[pos].string \/ LostWord(pos))),
           Final(src.out).unlike => Final(src.out \o t).unlike,
           \/ \E d \in s.diags : d.kind = "header"
           \/ bin.enabled /\ file[pos].string => Final(src.out \o t).unlike
    PROVE  IInv'
<1>1. pos + 1 \in 1..(Len(file) + 1) /\ ~done /\ pos \in DOMAIN file
    BY ReadsIs
<1>2. /\ IsBin(bin') /\ bin'.enabled = b.enabled /\ bin'.shift = b.shift
      /\ bin'.patch = b.patch /\ bin'.build = b.build
      /\ IsSrc(src') /\ src'.status = s.status /\ src'.shift = s.shift
      /\ src'.out = s.out /\ s.diags \subseteq src'.diags
      /\ pos' = pos + 1 /\ file' = file /\ done' = done
    BY AdvanceIs
<1>3. src.diags \subseteq src'.diags
    BY <1>2
<1>4. Follows(t)
    BY <1>1, <1>2, <1>3 DEF Follows, IInv, TypeOK, Kept
<1>5. Blocks'
    BY <1>1, <1>2 DEF Blocks
<1>6. SamePatch'
    <2>1. CASE \E d \in s.diags : d.kind = "header"
        BY <1>2, <2>1 DEF SamePatch, InHeader
    <2>2. CASE Amiss(Final(src.out \o t))
        BY <1>2, <2>2 DEF SamePatch
    <2>3. CASE /\ Amiss(Final(src.out)) => Amiss(Final(src.out \o t))
               /\ Final(src.out).patch = bin.patch => Final(src.out \o t).patch = b.patch
        <3>1. InHeader => InHeader'
            BY <1>3 DEF InHeader
        <3>2. ~Amiss(Final(src.out)) /\ ~InHeader => Final(src.out).patch = bin.patch
            BY DEF IInv, SamePatch
        <3>. QED
            BY <1>2, <2>3, <3>1, <3>2 DEF SamePatch
    <2>. QED
        BY <2>1, <2>2, <2>3
<1>7. Following'
    BY <1>1, <1>2, FollowingKeeps
<1>8. Alike'
    <2>1. On(pos) <=> bin.enabled
        BY <1>1 DEF On, IInv, Following
    <2>2. (\E d \in s.diags : d.kind = "header") => InHeader'
        BY <1>2 DEF InHeader
    <2>3. src'.out = src.out \o t
        BY <1>2
    <2>. QED
        BY <1>2, <1>3, <2>1, <2>2, <2>3, AlikeKeeps
<1>. QED
    BY <1>4, <1>5, <1>6, <1>7, <1>8, FollowsKeeps

\* The block that is opened before the first disabled patch.
OpensBlock(block) ==
    block = IF src.status = "pre-enabled" THEN <<[kind |-> "if"]>> ELSE <<>>

LEMMA BlockIs ==
    ASSUME IInv, ~done, NEW block, OpensBlock(block)
    PROVE  /\ block \in Seq(SourceLine) /\ src.out \o block \in Seq(SourceLine)
           /\ block # <<>> <=> src.status = "pre-enabled"
           /\ Balanced(src.out \o block)
           /\ Final(src.out \o block).depth = IF src.status = "enabled" THEN 0 ELSE 1
           /\ Amiss(Final(src.out \o block)) <=> Amiss(Final(src.out))
           /\ Final(src.out \o block).unlike = Final(src.out).unlike
           /\ Final(src.out \o block).patch = Final(src.out).patch
<1> DEFINE c == Final(src.out)
           l == [kind |-> "if"]
<1>1. src.out \in Seq(SourceLine) /\ l \in SourceLine /\ l.kind = "if"
    BY DEF IInv, Kept, SourceLine
<1>2. IsCompiling(c)
    BY <1>1, FinalIs
<1>3. Balanced(src.out) /\ c.depth = IF src.status = "disabled" THEN 1 ELSE 0
    BY DEF IInv, Blocks
<1>4. src.status \in {"pre-enabled", "enabled", "disabled"}
    BY DEF IInv, TypeOK
<1> HIDE DEF l
<1>5. CASE src.status = "pre-enabled"
    <2>1. block = <<l>>
        BY <1>5 DEF OpensBlock, l
    <2>2. /\ src.out \o <<l>> \in Seq(SourceLine) /\ Final(src.out \o <<l>>) = CompileLine(c, l)
          /\ Balanced(src.out \o <<l>>) <=> Balanced(src.out) /\ Final(src.out \o <<l>>).depth \in 0..1
        BY <1>1, LineAdded
    <2> HIDE DEF c
    <2>3. /\ CompileLine(c, l).depth = c.depth + 1 /\ CompileLine(c, l).patch = c.patch
          /\ Amiss(CompileLine(c, l)) <=> Amiss(c)
          /\ CompileLine(c, l).unlike = c.unlike
        BY <1>1, <1>2, CompileLineIs DEF Amiss
    <2>4. CompileLine(c, l).depth = 1
        BY <1>3, <1>5, <2>3
    <2>5. <<l>> \in Seq(SourceLine) /\ <<l>> # <<>>
        BY <1>1
    <2>. QED
        BY <1>3, <1>5, <2>1, <2>2, <2>3, <2>4, <2>5 DEF c
<1>6. CASE src.status # "pre-enabled"
    <2>1. block = <<>> /\ src.out \o block = src.out
        BY <1>1, <1>6 DEF OpensBlock
    <2>. QED
        BY <1>1, <1>3, <1>4, <1>6, <2>1
<1>. QED
    BY <1>5, <1>6

LEMMA ShiftedIsAddress ==
    ASSUME NEW offset \in Addresses, NEW by \in -(Top + 1)..Top
    PROVE  Shifted(offset, by) \in Addresses
<1>1. offset + by + Top + 1 \in Int /\ Top + 1 \in Nat /\ Top + 1 > 0
    BY TopIsNat DEF Addresses
<1>2. (offset + by + Top + 1) % (Top + 1) \in 0..Top
    BY <1>1, TopIsNat
<1>. QED
    BY <1>2 DEF Shifted, Addresses

LEMMA ReadPatchKeeps ==
    ASSUME IInv, ReadPatch
    PROVE  IInv'
<1> DEFINE bytes == BytesOf(pos)
           size == file[pos].size
           offset == Shifted(file[pos].offset, bin.shift)
           reports == IF Overflows(file[pos].offset, bin.shift) THEN {Diag(pos, "overflow")} ELSE {}
           header == IF offset < Header THEN {Diag(pos, "header")} ELSE {}
           block == IF src.status = "pre-enabled" THEN <<[kind |-> "if"]>> ELSE <<>>
           added == IF header # {} THEN <<>> ELSE Source(pos, offset - Header)
           b == IF bin.enabled
                THEN [bin EXCEPT !.patch = Put(@, offset, bytes), !.diags = @ \cup reports]
                ELSE bin
           s == [src EXCEPT !.out = @ \o block \o added,
                            !.status = IF block # <<>> THEN "disabled" ELSE @,
                            !.diags = @ \cup reports \cup header]
<1>1. Reads({"patch"}) /\ Advance(b, s) /\ Kind(pos) = "patch"
    BY DEF ReadPatch, Reads
<1>2. /\ pos \in Nat /\ ~done /\ size \in Nat /\ file[pos].offset \in Addresses
      /\ file[pos].string => size > 1
    <2>1. Kind(pos) \in {"patch"} /\ IsLine(file[pos]) /\ pos \in Nat /\ ~done
        BY <1>1, ReadsIs
    <2>2. file[pos].kind = "patch"
        BY <2>1 DEF Kind
    <2>. QED
        BY <2>1, <2>2 DEF IsLine
<1>3. IsBin(bin) /\ IsSrc(src) /\ bin.shift \in -(Top + 1)..Top /\ IsPatch(bin.patch) /\ src.out \in Seq(SourceLine)
    BY DEF IInv, Kept
<1>4. offset \in Addresses /\ offset \in Nat /\ Header \in Nat
    <2>1. offset \in Addresses
        BY <1>2, <1>3, ShiftedIsAddress
    <2>. HIDE DEF offset
    <2>. QED
        BY <2>1, HeaderIsAligned, TopIsNat DEF Addresses
<1>5. bytes \in PatchBytes /\ Len(bytes) = size /\ SubSeq(bytes, 1, size) = bytes /\ DOMAIN bytes = 1..size
    <2>1. bytes \in PatchBytes /\ Len(bytes) = size /\ SubSeq(bytes, 1, size) = bytes
        BY <1>2, BytesAre
    <2> HIDE DEF bytes, size
    <2>. QED
        BY <2>1 DEF PatchBytes
<1>6. (header # {} <=> offset < Header) /\ (header # {} => \E d \in header : d.kind = "header")
    BY DEF Diag
<1>7. /\ block \in Seq(SourceLine) /\ src.out \o block \in Seq(SourceLine)
      /\ block # <<>> <=> src.status = "pre-enabled"
      /\ Balanced(src.out \o block)
      /\ Final(src.out \o block).depth = IF src.status = "enabled" THEN 0 ELSE 1
      /\ Amiss(Final(src.out \o block)) <=> Amiss(Final(src.out))
      /\ Final(src.out \o block).unlike = Final(src.out).unlike
      /\ Final(src.out \o block).patch = Final(src.out).patch
    <2>1. OpensBlock(block)
        BY DEF OpensBlock
    <2> HIDE DEF block
    <2>. QED
        BY <1>2, <2>1, BlockIs
<1>8. /\ src.status \in {"pre-enabled", "enabled", "disabled"} /\ (bin.enabled <=> src.status = "enabled")
      /\ bin.enabled \in BOOLEAN
    BY DEF IInv, TypeOK
<1> HIDE DEF block, header, reports, offset, bytes, size
<1> DEFINE put == Put(bin.patch, offset, bytes)
<1>9. IsPatch(put)
    BY <1>2, <1>3, <1>4, <1>5, PutIsPatch
<1>10. /\ IsBin(b) /\ b.enabled = bin.enabled /\ b.shift = bin.shift /\ b.build = bin.build
       /\ b.patch = IF bin.enabled THEN put ELSE bin.patch
    <2>1. CASE bin.enabled
        <3> DEFINE reported == bin.diags \cup reports
        <3>1. b = [bin EXCEPT !.patch = put, !.diags = reported]
            BY <2>1
        <3> HIDE DEF put, reported, b
        <3>2. /\ IsBin(b) /\ b.enabled = bin.enabled /\ b.shift = bin.shift /\ b.build = bin.build
              /\ b.patch = put
            BY <1>3, <3>1 DEF IsBin
        <3>. QED
            BY <2>1, <3>2
    <2>2. CASE ~bin.enabled
        BY <1>3, <2>2
    <2>. QED
        BY <2>1, <2>2, <1>8
<1>11. IsPatch(b.patch)
    <2> HIDE DEF b, put
    <2>. QED
        BY <1>3, <1>9, <1>10
<1> HIDE DEF b, added
<1> DEFINE q == src.out \o block
           t == block \o added
           status == IF block # <<>> THEN "disabled" ELSE src.status
           diags == src.diags \cup reports \cup header
<1>12. IsSrc(s) /\ s.status = status /\ s.shift = src.shift /\ s.out = q \o added /\ s.diags = diags
    <2> DEFINE out == q \o added
    <2>1. s = [src EXCEPT !.out = out, !.status = status, !.diags = diags]
        OBVIOUS
    <2> HIDE DEF s, q, status, diags, out
    <2>2. IsSrc(s) /\ s.status = status /\ s.shift = src.shift /\ s.out = out /\ s.diags = diags
        BY <1>3, <2>1 DEF IsSrc
    <2>. QED
        BY <2>2 DEF out
<1> HIDE DEF s
<1>13. /\ src.diags \subseteq s.diags /\ header \subseteq s.diags /\ s.status \in {src.status, "disabled"}
       /\ s.status = "enabled" <=> src.status = "enabled"
       /\ s.status = "disabled" <=> src.status # "enabled"
    BY <1>7, <1>8, <1>12
<1>14. /\ AreQuiet(added)
       /\ header = {} => \A out : Ready(out) => Sets(out, added, offset, bytes, size)
       /\ (\E i \in 1..Len(added) : added[i].kind = "item" /\ Unlike(added[i])) =>
             file[pos].string \/ LostWord(pos)
       /\ header = {} /\ file[pos].string =>
             \E l \in SourceLine : l.kind = "item" /\ Unlike(l) /\ added = <<l>>
    <2>1. CASE header # {}
        <3>1. added = <<>>
            BY <2>1 DEF added
        <3>. QED
            BY <2>1, <3>1 DEF AreQuiet
    <2>2. CASE header = {}
        <3> DEFINE a == offset - Header
        <3>1. a \in Nat /\ a + Header = offset /\ a + Header \in Addresses
            BY <1>4, <1>6, <2>2
        <3>2. added = Source(pos, a)
            BY <2>2 DEF added
        <3> HIDE DEF a
        <3>3. file[pos].size \in Nat
            BY <1>2 DEF size
        <3>4. /\ AreQuiet(Source(pos, a))
              /\ \A out : Ready(out) => Sets(out, Source(pos, a), a + Header, BytesOf(pos), file[pos].size)
              /\ (\E i \in 1..Len(Source(pos, a)) : /\ Source(pos, a)[i].kind = "item"
                                                    /\ Unlike(Source(pos, a)[i])) =>
                    file[pos].string \/ LostWord(pos)
              /\ file[pos].string /\ file[pos].size > 1 =>
                    \E l \in SourceLine : l.kind = "item" /\ Unlike(l) /\ Source(pos, a) = <<l>>
            BY <1>2, <3>1, <3>3, SourceIs
        <3>. QED
            BY <1>2, <3>1, <3>2, <3>4 DEF bytes, size
    <2>. QED
        BY <2>1, <2>2
<1>15. t \in Seq(SourceLine) /\ added \in Seq(SourceLine) /\ q \o added = src.out \o t
    <2>1. src.out \in Seq(SourceLine) /\ block \in Seq(SourceLine) /\ added \in Seq(SourceLine)
        BY <1>3, <1>7, <1>14 DEF AreQuiet
    <2>2. \A x, y, z \in Seq(SourceLine) : (x \o y) \o z = x \o (y \o z) /\ y \o z \in Seq(SourceLine)
        OBVIOUS
    <2>. QED
        BY <2>1, <2>2
<1>16. /\ Balanced(q \o added) /\ Final(q \o added).depth = IF src.status = "enabled" THEN 0 ELSE 1
       /\ \/ header # {}
          \/ Amiss(Final(q \o added))
          \/ /\ Amiss(Final(src.out)) => Amiss(Final(q \o added))
             /\ Final(src.out).patch = bin.patch => Final(q \o added).patch = b.patch
    <2>1. CASE header = {} /\ src.status = "enabled"
        <3>1. Ready(q)
            BY <1>7, <2>1 DEF Ready
        <3>2. Sets(q, added, offset, bytes, size)
            BY <1>14, <2>1, <3>1
        <3>3. b.patch = Put(bin.patch, offset, bytes)
            BY <1>8, <1>10, <2>1
        <3> DEFINE c == Final(q \o added)
        <3>4. Balanced(q \o added) /\ c.depth = 0 /\ (Amiss(Final(src.out)) => Amiss(c))
            BY <1>7, <3>2 DEF Sets
        <3>5. ~Amiss(c) => c.patch = Put(Final(src.out).patch, offset, bytes)
            BY <1>5, <1>7, <3>2 DEF Sets
        <3>. QED
            BY <2>1, <3>3, <3>4, <3>5
    <2>2. CASE src.status # "enabled"
        <3>1. \A i \in 1..Len(added) : added[i].kind \notin {"if", "endif"}
            BY <1>14 DEF AreQuiet
        <3>2. Final(q).depth # 0
            BY <1>7, <2>2
        <3> HIDE DEF q
        <3>3. q \in Seq(SourceLine) /\ Balanced(q)
            BY <1>7 DEF q
        <3>4. Balanced(q \o added) /\ Final(q \o added) = Final(q)
            BY <1>15, <3>1, <3>2, <3>3, QuietLines
        <3>5. b.patch = bin.patch
            BY <1>8, <1>10, <2>2
        <3>. QED
            BY <1>7, <2>2, <3>4, <3>5 DEF q
    <2>3. CASE header # {}
        <3>1. added = <<>> /\ q \o added = q
            BY <1>7, <2>3 DEF added
        <3>. QED
            BY <1>7, <2>3, <3>1
    <2>. QED
        BY <2>1, <2>2, <2>3
<1>17. Final(src.out \o t).depth = IF s.status = "disabled" THEN 1 ELSE 0
    BY <1>13, <1>15, <1>16
<1>18. \/ \E d \in s.diags : d.kind = "header"
       \/ Amiss(Final(src.out \o t))
       \/ /\ Amiss(Final(src.out)) => Amiss(Final(src.out \o t))
          /\ Final(src.out).patch = bin.patch => Final(src.out \o t).patch = b.patch
    BY <1>6, <1>13, <1>15, <1>16
<1>19. Balanced(src.out \o t) /\ s.out = src.out \o t
    BY <1>12, <1>15, <1>16
<1> HIDE DEF t
<1>20. q \in Seq(SourceLine) /\ Final(q).unlike = Final(src.out).unlike
    BY <1>7
<1> HIDE DEF q
<1>21. /\ Final(src.out).unlike => Final(q \o added).unlike
       /\ Final(q \o added).unlike =>
             Final(src.out).unlike \/ (bin.enabled /\ (file[pos].string \/ LostWord(pos)))
    <2>1. /\ Final(q).unlike => Final(q \o added).unlike
          /\ Final(q \o added).unlike =>
                Final(q).unlike \/ \E i \in 1..Len(added) : added[i].kind = "item" /\ Unlike(added[i])
        BY <1>15, <1>20, UnlikeIs
    <2>2. CASE bin.enabled
        BY <1>14, <1>20, <2>1, <2>2
    <2>3. CASE ~bin.enabled
        <3>1. Final(q).depth # 0 /\ Balanced(q)
            BY <1>7, <1>8, <2>3 DEF q
        <3>2. \A i \in 1..Len(added) :
                  added[i].kind \notin {"if", "endif"} /\ (added[i].kind = "item" => Final(q).depth # 0)
            BY <1>14, <3>1 DEF AreQuiet
        <3>3. Final(q \o added) = Final(q)
            BY <1>15, <1>20, <3>1, <3>2, QuietLines
        <3>. QED
            BY <1>20, <3>3
    <2>. QED
        BY <2>2, <2>3
<1>22. header # {} \/ (bin.enabled /\ file[pos].string => Final(q \o added).unlike)
    <2> SUFFICES ASSUME header = {}, bin.enabled, file[pos].string PROVE Final(q \o added).unlike
        OBVIOUS
    <2>1. PICK l \in SourceLine : l.kind = "item" /\ Unlike(l) /\ added = <<l>>
        BY <1>14
    <2>2. Final(q \o <<l>>) = CompileLine(Final(q), l) /\ IsCompiling(Final(q))
        BY <1>20, LineAdded, FinalIs
    <2>3. Final(q).depth = 0
        BY <1>7, <1>8 DEF q
    <2> DEFINE c == Final(q)
    <2> HIDE DEF c
    <2>4. CompileLine(c, l).unlike = (c.unlike \/ (l.kind = "item" /\ c.depth = 0 /\ Unlike(l)))
        BY <2>2, CompileLineIs DEF c
    <2>. QED
        BY <2>1, <2>2, <2>3, <2>4 DEF c
<1>23. /\ Final(src.out \o t).unlike =>
             Final(src.out).unlike \/ (bin.enabled /\ (file[pos].string \/ LostWord(pos)))
       /\ Final(src.out).unlike => Final(src.out \o t).unlike
       /\ \/ \E d \in s.diags : d.kind = "header"
          \/ bin.enabled /\ file[pos].string => Final(src.out \o t).unlike
    BY <1>6, <1>13, <1>15, <1>21, <1>22
<1>. QED
    BY <1>1, <1>10, <1>11, <1>12, <1>13, <1>15, <1>17, <1>18, <1>19, <1>23, LinesKeep

LEMMA ReadStopKeeps ==
    ASSUME IInv, ReadStop
    PROVE  IInv'
<1> DEFINE k == Len(file) - pos + 1
           l == [kind |-> "comment"]
           t == [n \in 1..k |-> l]
<1>1. pos \in Nat /\ pos + 1 \in 1..(Len(file) + 1) /\ ~done /\ Kind(pos) \in {"stop"}
    BY ReadsIs DEF ReadStop
<1>2. IsBin(bin) /\ IsSrc(src) /\ IsPatch(bin.patch) /\ src.out \in Seq(SourceLine) /\ file \in Files
    BY DEF IInv, Kept
<1>3. Len(file) \in Nat /\ k \in Nat
    <2>1. Len(file) \in Nat
        BY <1>2, FilesAreLines
    <2>. QED
        BY <1>1, <2>1
<1>4. l \in SourceLine /\ l.kind = "comment"
    BY DEF SourceLine
<1>5. bin' = bin /\ src' = Emit(t) /\ pos' = Len(file) + 1 /\ file' = file /\ done' = done
    BY DEF ReadStop
<1> HIDE DEF k, l
<1>6. t \in Seq(SourceLine) /\ Len(t) = k /\ \A i \in 1..Len(t) : t[i] = l
    BY <1>3, <1>4
<1> HIDE DEF t
<1>7. /\ IsSrc(src') /\ src'.status = src.status /\ src'.shift = src.shift
      /\ src'.out = src.out \o t /\ src'.diags = src.diags
    BY <1>2, <1>5, EmitIs
<1>8. Follows(t)
    BY <1>2, <1>3, <1>5, <1>6, <1>7 DEF Follows, IInv, TypeOK, Kept
<1>9. Balanced(src.out) /\ Final(src.out).depth = IF src.status = "disabled" /\ ~done THEN 1 ELSE 0
    BY DEF IInv, Blocks
<1>10. Balanced(src.out \o t) /\ Final(src.out \o t) = Final(src.out)
    <2>1. \A i \in 1..Len(t) : t[i].kind \notin {"if", "endif"} /\ (t[i].kind = "item" => Final(src.out).depth # 0)
        BY <1>4, <1>6
    <2>. QED
        BY <1>2, <1>6, <1>9, <2>1, QuietLines
<1>11. Blocks'
    BY <1>5, <1>7, <1>9, <1>10 DEF Blocks
<1>12. SamePatch'
    BY <1>5, <1>7, <1>10 DEF IInv, SamePatch, InHeader
<1>13. Following'
    <2>1. DOMAIN file = 1..Len(file)
        BY <1>2, FilesAreLines
    <2>2. pos' \notin DOMAIN file
        BY <1>3, <1>5, <2>1
    <2>. QED
        BY <1>5, <2>2, SameFile
<1>14. Alike'
    <2>1. \A n \in 1..(pos' - 1) : n \in 1..(pos - 1) \/ ~On(n)
        <3> SUFFICES ASSUME NEW n \in 1..(pos' - 1), n \notin 1..(pos - 1) PROVE ~On(n)
            OBVIOUS
        <3>1. n = pos \/ pos \in 1..(n - 1)
            <4>1. 1 <= pos
                BY DEF IInv, TypeOK
            <4>. QED
                BY <1>1, <1>3, <1>5, <4>1
        <3>. QED
            BY <1>1, <3>1 DEF On, EnabledAt
    <2>2. \A n \in 1..(pos - 1) : n \in 1..(pos' - 1)
        BY <1>1, <1>3, <1>5
    <2>3. InHeader' <=> InHeader
        BY <1>7 DEF InHeader
    <2>4. Final(src'.out) = Final(src.out)
        BY <1>7, <1>10
    <2>. QED
        BY <1>5, <2>1, <2>2, <2>3, <2>4, SameFile DEF IInv, Alike
<1>. QED
    BY <1>8, <1>11, <1>12, <1>13, <1>14, FollowsKeeps

LEMMA EndOfFileKeeps ==
    ASSUME IInv, EndOfFile
    PROVE  IInv'
<1> DEFINE l == [kind |-> "endif"]
           reported == bin.diags \cup {Diag(0, "no build")}
<1>1. IsBin(bin) /\ IsSrc(src) /\ IsPatch(bin.patch) /\ src.out \in Seq(SourceLine)
    BY DEF IInv, Kept, TypeOK
<1>2. /\ bin' = IF bin.build = NoBuild THEN [bin EXCEPT !.diags = reported] ELSE bin
      /\ src' = IF src.status = "disabled" THEN Emit(<<l>>) ELSE src
      /\ done' /\ file' = file /\ pos' = pos /\ ~done
    BY DEF EndOfFile
<1>3. l \in SourceLine /\ l.kind = "endif"
    BY DEF SourceLine
<1> HIDE DEF l, reported
<1>4. /\ IsBin(bin') /\ bin'.enabled = bin.enabled /\ bin'.shift = bin.shift
      /\ bin'.patch = bin.patch /\ bin'.build = bin.build
    BY <1>1, <1>2 DEF IsBin
<1>5. /\ Balanced(src.out) /\ Final(src.out).depth = IF src.status = "disabled" THEN 1 ELSE 0
      /\ IsCompiling(Final(src.out))
    BY <1>1, <1>2, FinalIs DEF IInv, Blocks
<1>6. Following'
    <2>1. DOMAIN file = 1..Len(file) /\ Len(file) \in Nat
        BY FilesAreLines DEF IInv, Kept
    <2>2. pos' \notin DOMAIN file
        <3>1. pos' = pos /\ pos > Len(file) /\ pos \in Nat
            <4>1. pos \in 1..(Len(file) + 1)
                BY DEF IInv, TypeOK
            <4>2. pos' = pos /\ pos > Len(file)
                BY DEF EndOfFile
            <4>. QED
                BY <2>1, <4>1, <4>2
        <3> DEFINE k == Len(file)
        <3>2. k \in Nat /\ pos > k /\ DOMAIN file = 1..k
            BY <2>1, <3>1
        <3> HIDE DEF k
        <3>. QED
            BY <3>1, <3>2
    <2>. QED
        BY <1>2, <2>2, SameFile
<1>7. ASSUME src'.diags = src.diags, Final(src'.out).unlike <=> Final(src.out).unlike PROVE Alike'
    BY <1>2, <1>7, SameFile DEF IInv, Alike, InHeader
<1>8. CASE src.status = "disabled"
    <2>1. /\ IsSrc(src') /\ src'.status = src.status /\ src'.shift = src.shift
          /\ src'.out = src.out \o <<l>> /\ src'.diags = src.diags
        BY <1>1, <1>2, <1>8, EmitIs
    <2>2. /\ Final(src.out \o <<l>>) = CompileLine(Final(src.out), l)
          /\ Balanced(src.out \o <<l>>) <=> Balanced(src.out) /\ Final(src.out \o <<l>>).depth \in 0..1
        BY <1>1, <1>3, LineAdded
    <2> DEFINE c == Final(src.out)
               d == CompileLine(c, l)
    <2>3. d.depth = c.depth - 1 /\ d.patch = c.patch /\ (Amiss(d) <=> Amiss(c)) /\ d.unlike = c.unlike
        <3> HIDE DEF c
        <3>1. IsCompiling(c)
            BY <1>5 DEF c
        <3>. QED
            BY <1>3, <3>1, CompileLineIs DEF Amiss
    <2> HIDE DEF d
    <2>4. Follows(<<l>>)
        <3>1. <<l>> \in Seq(SourceLine)
            BY <1>3
        <3>. QED
            BY <1>1, <1>2, <1>4, <2>1, <3>1 DEF Follows, IInv, TypeOK, Kept
    <2>5. Blocks'
        <3>1. d.depth = 0
            BY <1>5, <1>8, <2>3
        <3>2. Final(src'.out) = d /\ (Balanced(src'.out) <=> Balanced(src.out) /\ d.depth \in 0..1)
            BY <2>1, <2>2 DEF d
        <3>3. Balanced(src'.out) /\ Final(src'.out).depth = 0
            BY <1>5, <3>1, <3>2
        <3>. QED
            BY <1>2, <3>3 DEF Blocks
    <2>6. SamePatch'
        BY <1>4, <2>1, <2>2, <2>3 DEF IInv, SamePatch, InHeader, d
    <2>7. Alike'
        BY <1>7, <2>1, <2>2, <2>3 DEF d
    <2>. QED
        BY <1>6, <2>4, <2>5, <2>6, <2>7, FollowsKeeps
<1>9. CASE src.status # "disabled"
    <2>1. src' = src /\ src.out \o <<>> = src.out /\ <<>> \in Seq(SourceLine)
        BY <1>1, <1>2, <1>9
    <2>2. Follows(<<>>)
        BY <1>1, <1>2, <1>4, <2>1 DEF Follows, IInv, TypeOK, Kept
    <2>3. Blocks'
        BY <1>2, <1>5, <1>9, <2>1 DEF Blocks
    <2>4. SamePatch'
        BY <1>4, <2>1 DEF IInv, SamePatch, InHeader
    <2>5. Alike'
        BY <1>7, <2>1
    <2>. QED
        BY <1>6, <2>2, <2>3, <2>4, <2>5, FollowsKeeps
<1>. QED
    BY <1>8, <1>9

-----------------------------------------------------------------------------
(* The theorems.                                                           *)

LEMMA InitIs ==
    ASSUME Init
    PROVE  IInv
<1>1. /\ file \in Files /\ pos = 1 /\ done = FALSE
      /\ bin = [enabled |-> FALSE, shift |-> 0, patch |-> NoPatch, build |-> NoBuild, diags |-> {}]
      /\ src = [status |-> "pre-enabled", shift |-> 0, out |-> <<>>, diags |-> {}]
    BY DEF Init
<1>2. Len(file) \in Nat
    BY <1>1, FilesAreLines
<1>3. IsPatch(NoPatch) /\ IsPatch(bin.patch) /\ bin.patch = NoPatch
    BY <1>1 DEF IsPatch, NoPatch
<1>4. src.out = <<>> /\ src.out \in Seq(SourceLine) /\ src.status = "pre-enabled" /\ Len(src.out) = 0
    BY <1>1
<1>5. Final(src.out).depth = 0 /\ Final(src.out).patch = NoPatch /\ Balanced(src.out)
    <2>1. Compiled(src.out)[0] = [depth |-> 0, patch |-> NoPatch, crosses |-> FALSE, unlike |-> FALSE]
        BY <1>4, FirstCompiled
    <2>2. Compiled(src.out)[0].depth = 0 /\ Compiled(src.out)[0].patch = NoPatch
        BY <2>1
    <2>. QED
        BY <1>4, <2>2 DEF Final, Balanced
<1>6. TypeOK
    BY <1>1, <1>2, <1>3 DEF TypeOK, IsPatch
<1>7. Kept
    BY <1>1, <1>3, <1>4, TopIsNat DEF Kept, IsBin, IsSrc
<1>8. Blocks /\ SamePatch
    BY <1>3, <1>4, <1>5 DEF Blocks, SamePatch
<1>9. SameBuild
    BY <1>1 DEF SameBuild, NoBuild
<1>10. Following
    <2>1. 1..(pos - 1) = {}
        BY <1>1
    <2>. QED
        BY <1>1, <2>1 DEF Following, NoStop, EnabledAt
<1>11. Alike
    <2>1. 1..(pos - 1) = {}
        BY <1>1
    <2>2. ~Final(src.out).unlike
        <3> DEFINE no == FALSE
        <3>1. Compiled(src.out)[0] = [depth |-> 0, patch |-> NoPatch, crosses |-> FALSE, unlike |-> no]
            BY <1>4, FirstCompiled
        <3> HIDE DEF no
        <3>2. Compiled(src.out)[0].unlike = no
            BY <3>1
        <3>. QED
            BY <1>4, <3>2 DEF Final, no
    <2>. QED
        BY <2>1, <2>2 DEF Alike
<1>. QED
    BY <1>6, <1>7, <1>8, <1>9, <1>10, <1>11 DEF IInv

\* After every line read, the source written so far, compiled, is the patch collected so far,
\* or one of its enabled lines does not assemble to its bytes; it has a block open exactly
\* while a disabled part is written.
THEOREM Invariance == Spec => []IInv
<1>1. Init => IInv
    BY InitIs
<1>2. IInv /\ [Next]_vars => IInv'
    <2> SUFFICES ASSUME IInv, [Next]_vars PROVE IInv'
        OBVIOUS
    <2>1. CASE ReadBuildId
        BY <2>1, ReadBuildIdKeeps
    <2>2. CASE ReadNote
        BY <2>2, ReadNoteKeeps
    <2>3. CASE ReadInformation
        BY <2>3, ReadInformationKeeps
    <2>4. CASE ReadEnable
        BY <2>4, ReadEnableKeeps
    <2>5. CASE ReadDisable
        BY <2>5, ReadDisableKeeps
    <2>6. CASE ReadShift
        BY <2>6, ReadShiftKeeps
    <2>7. CASE ReadPatch
        BY <2>7, ReadPatchKeeps
    <2>8. CASE ReadStop
        BY <2>8, ReadStopKeeps
    <2>9. CASE EndOfFile
        BY <2>9, EndOfFileKeeps
    <2>10. CASE Finished \/ UNCHANGED vars
        <3>1. file' = file /\ pos' = pos /\ bin' = bin /\ src' = src /\ done' = done
            BY <2>10 DEF Finished, vars
        <3>. QED
            BY <3>1, SameFile DEF IInv, TypeOK, Kept, Blocks, SamePatch, SameBuild, InHeader, Following, Alike
    <2>. QED
        BY <2>1, <2>2, <2>3, <2>4, <2>5, <2>6, <2>7, <2>8, <2>9, <2>10 DEF Next
<1>. QED
    BY <1>1, <1>2, PTL DEF Spec

\* The blocks of the imported source are never nested and never ended unopened, and all
\* are ended when the import is done (src/pchtxt.rs, pchtxt_to_nxpch).
THEOREM BlocksBalanceAlways == Spec => []BlocksBalance
<1>1. IInv => BlocksBalance
    BY DEF IInv, Blocks, BlocksBalance, Balanced, Final, Depth
<1>. QED
    BY <1>1, Invariance, PTL

\* The imported source, compiled, is the patch that compiling the pchtxt gives, and has
\* its build ID, when no enabled line is a string or has a word that Capstone's text loses;
\* with an enabled string it never compiles to the patch (src/pchtxt.rs, pchtxt_to_nxpch
\* and pchtxt_to_patches; src/parse.rs, parse_code).
THEOREM ImportAgreesAlways == Spec => []ImportAgrees
<1>1. IInv => ImportAgrees
    BY DEF IInv, SamePatch, SameBuild, Alike, Amiss, ImportAgrees, Final, AllCompiled
<1>. QED
    BY <1>1, Invariance, PTL

LEMMA PairIs ==
    ASSUME NEW T, NEW a \in T, NEW b \in T
    PROVE  <<a>> \o <<b>> = <<a, b>>
<1>1. <<a>> \in Seq(T) /\ Len(<<a>>) = 1 /\ <<a>>[1] = a
    OBVIOUS
<1>2. <<b>> \in Seq(T) /\ Len(<<b>>) = 1 /\ <<b>>[1] = b
    OBVIOUS
<1>3. <<a, b>> \in Seq(T) /\ Len(<<a, b>>) = 2 /\ <<a, b>>[1] = a /\ <<a, b>>[2] = b
    OBVIOUS
<1> DEFINE s == <<a>>
           t == <<b>>
           u == <<a, b>>
<1> HIDE DEF s, t, u
<1>4. /\ s \o t \in Seq(T) /\ Len(s \o t) = Len(s) + Len(t)
      /\ \A k \in 1..Len(s) : (s \o t)[k] = s[k]
      /\ \A k \in 1..Len(t) : (s \o t)[Len(s) + k] = t[k]
    BY <1>1, <1>2, ConcatIs DEF s, t
<1>5. Len(s \o t) = 2 /\ (s \o t)[1] = a /\ (s \o t)[2] = b
    <2>1. Len(s) = 1 /\ Len(t) = 1 /\ s[1] = a /\ t[1] = b
        BY <1>1, <1>2 DEF s, t
    <2>2. (s \o t)[1 + 1] = b
        BY <1>4, <2>1
    <2>. QED
        BY <1>4, <2>1, <2>2
<1>6. \A k \in 1..2 : k = 1 \/ k = 2
    OBVIOUS
<1>7. u \in Seq(T) /\ Len(u) = 2 /\ u[1] = a /\ u[2] = b
    BY <1>3 DEF u
<1>8. s \o t = u
    BY <1>4, <1>5, <1>6, <1>7, SameSequence
<1>. QED
    BY <1>8 DEF s, t, u

LEMMA FlattenOne ==
    ASSUME NEW T, NEW x \in Seq(T)
    PROVE  FlattenSeq(<<x>>) = x
<1>1. <<x>> = Append(<<>>, x) /\ <<>> \in Seq(Seq(T))
    OBVIOUS
<1>2. FlattenSeq(<<x>>) = <<>> \o x
    BY <1>1, FlattenAppend, FlattenNone
<1>3. <<>> \o x = x
    OBVIOUS
<1>. QED
    BY <1>2, <1>3

LEMMA FlattenJoin ==
    ASSUME NEW T, NEW s \in Seq(Seq(T)), NEW t \in Seq(Seq(T))
    PROVE  FlattenSeq(s \o t) = FlattenSeq(s) \o FlattenSeq(t)
<1> DEFINE Joins(u) == FlattenSeq(s \o u) = FlattenSeq(s) \o FlattenSeq(u)
           S == {k \in Nat : \A u \in Seq(Seq(T)) : Len(u) = k => Joins(u)}
<1>0. FlattenSeq(s) \in Seq(T)
    BY FlattenType
<1>1. 0 \in S
    <2>1. ASSUME NEW u \in Seq(Seq(T)), Len(u) = 0 PROVE Joins(u)
        <3>1. u = <<>> /\ s \o u = s
            BY <2>1
        <3>2. FlattenSeq(s) \o <<>> = FlattenSeq(s)
            BY <1>0
        <3>. QED
            BY <3>1, <3>2, FlattenNone
    <2> HIDE DEF Joins
    <2>. QED
        BY <2>1
<1>2. ASSUME NEW k \in S PROVE k + 1 \in S
    <2>1. ASSUME NEW u \in Seq(Seq(T)), Len(u) = k + 1 PROVE Joins(u)
        <3> DEFINE v == SubSeq(u, 1, k)
                   x == u[k + 1]
        <3>0. k \in Nat
            OBVIOUS
        <3>1. v \in Seq(Seq(T)) /\ Len(v) = k /\ x \in Seq(T) /\ u = Append(v, x)
            BY <2>1, <3>0
        <3> HIDE DEF v, x
        <3>2. s \o u = Append(s \o v, x) /\ s \o v \in Seq(Seq(T))
            BY <3>1, SMTT(20)
        <3>3. Joins(v)
            <4> HIDE DEF Joins
            <4>. QED
                BY <3>0, <3>1
        <3>4. FlattenSeq(s \o u) = FlattenSeq(s \o v) \o x
            BY <3>1, <3>2, FlattenAppend
        <3>5. FlattenSeq(u) = FlattenSeq(v) \o x
            BY <3>1, FlattenAppend
        <3>6. FlattenSeq(v) \in Seq(T)
            BY <3>1, FlattenType
        <3>7. \A a, b, c \in Seq(T) : (a \o b) \o c = a \o (b \o c)
            OBVIOUS
        <3>8. FlattenSeq(s \o u) = (FlattenSeq(s) \o FlattenSeq(v)) \o x
            BY <3>3, <3>4
        <3> DEFINE a == FlattenSeq(s)
                   b == FlattenSeq(v)
        <3> HIDE DEF a, b
        <3>9. (a \o b) \o x = a \o (b \o x)
            BY <1>0, <3>1, <3>6, <3>7 DEF a, b
        <3>10. FlattenSeq(s \o u) = a \o (b \o x)
            BY <3>8, <3>9 DEF a, b
        <3>. QED
            BY <3>5, <3>10 DEF a, b
    <2> HIDE DEF Joins
    <2>2. k + 1 \in Nat
        OBVIOUS
    <2>. QED
        BY <2>1, <2>2
<1> HIDE DEF S, Joins
<1>3. S \in SUBSET Nat
    BY DEF S
<1>4. S = Nat
    BY <1>1, <1>2, <1>3, Induction
<1>5. Joins(t)
    <2>1. Len(t) \in S
        BY <1>4
    <2>. QED
        BY <2>1 DEF S
<1>. QED
    BY <1>5 DEF Joins

-----------------------------------------------------------------------------
(* Strings.                                                                *)

\* No string goes on after one.
Obstacle(c) == c \in Control /\ ~IsEscaped(c)

IsWritable(h) ==
    /\ h # <<>> /\ h[Len(h)] = "nul"
    /\ \A i \in 1..(Len(h) - 1) : ~Obstacle(h[i])
    /\ IsUtf8(h)

LEMMA StringLengthIs ==
    ASSUME NEW h \in Seq(Bytes)
    PROVE  StringLength(h) \in Nat /\ (StringLength(h) # NoString <=> IsWritable(h))
<1> DEFINE body == SubSeq(h, 1, Len(h) - 1)
           n == Len(h) - 1
           escapes == [i \in DOMAIN body |-> Escape(body[i])]
<1>1. CASE h = <<>>
    BY <1>1 DEF StringLength, NoString, IsWritable
<1>2. CASE h # <<>>
    <2>1. n \in Nat /\ DOMAIN body = 1..n /\ \A i \in 1..n : body[i] = h[i]
        BY <1>2
    <2> HIDE DEF n, body
    <2>2. Len(FlattenSeq(escapes)) \in Nat
        <3>1. escapes = Escapes(h, n)
            BY <2>1 DEF Escapes
        <3>2. n <= Len(h)
            BY <1>2 DEF n
        <3>3. Escapes(h, n) \in Seq(Seq(Tokens))
            BY <2>1, <3>2, EscapesAre
        <3> HIDE DEF escapes
        <3>4. FlattenSeq(escapes) \in Seq(Tokens)
            BY <3>1, <3>3, FlattenType
        <3>. QED
            BY <3>4
    <2> DEFINE length == 2 + Len(FlattenSeq(escapes))
    <2>3. length \in Nat /\ length # NoString
        <3> DEFINE l == Len(FlattenSeq(escapes))
        <3> HIDE DEF l
        <3>1. l \in Nat
            BY <2>2 DEF l
        <3>2. 2 + l \in Nat /\ 2 + l # 0
            BY <3>1
        <3>. QED
            BY <3>2 DEF NoString, l
    <2> DEFINE bad == \/ h = <<>> \/ h[Len(h)] # "nul"
                      \/ \E i \in DOMAIN body : body[i] \in Control /\ ~IsEscaped(body[i])
                      \/ ~IsUtf8(h)
    <2>4. StringLength(h) = IF bad THEN NoString ELSE length
        BY DEF StringLength, Last, body
    <2>5. bad <=> ~IsWritable(h)
        <3>1. (\E i \in DOMAIN body : body[i] \in Control /\ ~IsEscaped(body[i]))
                <=> ~(\A i \in 1..n : ~Obstacle(h[i]))
            BY <2>1 DEF Obstacle
        <3>. QED
            BY <3>1 DEF IsWritable, n
    <2> HIDE DEF length, bad
    <2>. QED
        BY <2>3, <2>4, <2>5 DEF NoString
<1>. QED
    BY <1>1, <1>2

-----------------------------------------------------------------------------
(* The pieces of a hunk.                                                   *)

PieceSet == [bytes : Seq(Bytes), length : Nat]

AllBytes(ps) == [k \in DOMAIN ps |-> ps[k].bytes]

IsGood(p) == p.bytes # <<>> /\ p.length = StringLength(p.bytes)

Obstructed(h) == \E i \in 1..Len(h) : Obstacle(h[i])

\* The pieces are those of x, and all but the last are no part of a longer string.
IsCutting(ps, x) ==
    /\ ps \in Seq(PieceSet)
    /\ FlattenSeq(AllBytes(ps)) = x
    /\ \A k \in 1..Len(ps) : IsGood(ps[k])
    /\ \A k \in 1..(Len(ps) - 1) : Obstructed(ps[k].bytes)

IsClosedCutting(ps, x) == IsCutting(ps, x) /\ \A k \in 1..Len(ps) : Obstructed(ps[k].bytes)

LEMMA AllBytesAre ==
    ASSUME NEW ps \in Seq(PieceSet)
    PROVE  /\ AllBytes(ps) \in Seq(Seq(Bytes)) /\ Len(AllBytes(ps)) = Len(ps)
           /\ \A k \in 1..Len(ps) : AllBytes(ps)[k] = ps[k].bytes
<1>1. \A k \in 1..Len(ps) : ps[k] \in PieceSet
    OBVIOUS
<1>2. \A k \in 1..Len(ps) : ps[k].bytes \in Seq(Bytes)
    BY <1>1 DEF PieceSet
<1>. QED
    BY <1>2 DEF AllBytes

LEMMA AllBytesJoin ==
    ASSUME NEW ps \in Seq(PieceSet), NEW qs \in Seq(PieceSet)
    PROVE  AllBytes(ps \o qs) = AllBytes(ps) \o AllBytes(qs)
<1> DEFINE a == AllBytes(ps)
           b == AllBytes(qs)
           c == AllBytes(ps \o qs)
           m == Len(ps)
           n == Len(qs)
<1>1. /\ a \in Seq(Seq(Bytes)) /\ Len(a) = m /\ \A k \in 1..m : a[k] = ps[k].bytes
      /\ b \in Seq(Seq(Bytes)) /\ Len(b) = n /\ \A k \in 1..n : b[k] = qs[k].bytes
    BY AllBytesAre
<1>2. ps \o qs \in Seq(PieceSet) /\ Len(ps \o qs) = m + n /\ m \in Nat /\ n \in Nat
    OBVIOUS
<1>3. c \in Seq(Seq(Bytes)) /\ Len(c) = m + n /\ \A k \in 1..(m + n) : c[k] = (ps \o qs)[k].bytes
    BY <1>2, AllBytesAre
<1>4. \A k \in 1..(m + n) : (ps \o qs)[k] = IF k <= m THEN ps[k] ELSE qs[k - m]
    OBVIOUS
<1> HIDE DEF a, b, c, m, n
<1>5. /\ a \o b \in Seq(Seq(Bytes)) /\ Len(a \o b) = m + n
      /\ \A k \in 1..m : (a \o b)[k] = a[k]
      /\ \A k \in 1..n : (a \o b)[m + k] = b[k]
    <2> DEFINE Q == Seq(Bytes)
    <2>1. a \in Seq(Q) /\ b \in Seq(Q)
        BY <1>1
    <2> HIDE DEF Q
    <2>2. /\ a \o b \in Seq(Q) /\ Len(a \o b) = Len(a) + Len(b)
          /\ \A k \in 1..Len(a) : (a \o b)[k] = a[k]
          /\ \A k \in 1..Len(b) : (a \o b)[Len(a) + k] = b[k]
        BY <2>1, ConcatIs
    <2>. QED
        BY <1>1, <2>2 DEF Q
<1>6. ASSUME NEW k \in 1..(m + n) PROVE (a \o b)[k] = c[k]
    <2>0. c[k] = (ps \o qs)[k].bytes /\ (ps \o qs)[k] = IF k <= m THEN ps[k] ELSE qs[k - m]
        BY <1>3, <1>4
    <2>1. CASE k <= m
        <3>1. k \in 1..m
            BY <1>2, <2>1
        <3>2. (a \o b)[k] = a[k] /\ a[k] = ps[k].bytes
            BY <1>1, <1>5, <3>1
        <3>. QED
            BY <2>0, <2>1, <3>2
    <2>2. CASE ~(k <= m)
        <3>1. k - m \in 1..n /\ m + (k - m) = k
            BY <1>2, <2>2
        <3>2. (a \o b)[m + (k - m)] = b[k - m] /\ b[k - m] = qs[k - m].bytes
            BY <1>1, <1>5, <3>1
        <3>. QED
            BY <2>0, <2>2, <3>1, <3>2
    <2>. QED
        BY <2>1, <2>2
<1>7. a \o b = c
    <2> DEFINE Q == Seq(Bytes)
    <2>1. a \o b \in Seq(Q) /\ c \in Seq(Q)
        BY <1>3, <1>5
    <2> HIDE DEF Q
    <2>. QED
        BY <1>3, <1>5, <1>6, <2>1, SameSequence
<1>. QED
    BY <1>7 DEF a, b, c

LEMMA CuttingJoin ==
    ASSUME NEW x \in Seq(Bytes), NEW y \in Seq(Bytes), NEW ps, NEW qs,
           IsClosedCutting(ps, x), IsCutting(qs, y)
    PROVE  /\ IsCutting(ps \o qs, x \o y)
           /\ IsClosedCutting(qs, y) => IsClosedCutting(ps \o qs, x \o y)
<1> DEFINE m == Len(ps)
           n == Len(qs)
           rs == ps \o qs
<1>1. ps \in Seq(PieceSet) /\ qs \in Seq(PieceSet) /\ m \in Nat /\ n \in Nat
    BY DEF IsCutting, IsClosedCutting
<1>2. /\ rs \in Seq(PieceSet) /\ Len(rs) = m + n
      /\ \A k \in 1..(m + n) : rs[k] = IF k <= m THEN ps[k] ELSE qs[k - m]
    BY <1>1
<1>3. FlattenSeq(AllBytes(rs)) = x \o y
    <2>1. AllBytes(rs) = AllBytes(ps) \o AllBytes(qs)
        BY <1>1, AllBytesJoin
    <2>2. AllBytes(ps) \in Seq(Seq(Bytes)) /\ AllBytes(qs) \in Seq(Seq(Bytes))
        BY <1>1, AllBytesAre
    <2>3. FlattenSeq(AllBytes(ps) \o AllBytes(qs)) = FlattenSeq(AllBytes(ps)) \o FlattenSeq(AllBytes(qs))
        BY <2>2, FlattenJoin
    <2>. QED
        BY <2>1, <2>3 DEF IsCutting, IsClosedCutting
<1> HIDE DEF m, n, rs
<1>4. ASSUME NEW k \in 1..(m + n), k > m
      PROVE  k - m \in 1..n /\ rs[k] = qs[k - m] /\ (k # m + n => k - m \in 1..(n - 1))
    BY <1>1, <1>2, <1>4
<1>5. ASSUME NEW k \in 1..(m + n), ~(k > m)
      PROVE  k \in 1..m /\ rs[k] = ps[k]
    BY <1>1, <1>2, <1>5
<1>6. \A k \in 1..(m + n) : IsGood(rs[k])
    BY <1>4, <1>5 DEF IsCutting, IsClosedCutting, m, n
<1>7. ASSUME NEW k \in 1..(m + n), k # m + n PROVE Obstructed(rs[k].bytes)
    BY <1>4, <1>5, <1>7 DEF IsCutting, IsClosedCutting, m, n
<1>8. ASSUME IsClosedCutting(qs, y), NEW k \in 1..(m + n) PROVE Obstructed(rs[k].bytes)
    BY <1>4, <1>5, <1>8 DEF IsClosedCutting, m, n
<1>9. \A k \in 1..(m + n - 1) : k \in 1..(m + n) /\ k # m + n
    BY <1>1
<1>. QED
    BY <1>2, <1>3, <1>6, <1>7, <1>8, <1>9, SMTT(20) DEF IsCutting, IsClosedCutting, rs

-----------------------------------------------------------------------------
(* The cuts at NULs.                                                       *)

LEMMA FrontIs ==
    ASSUME NEW T, NEW s \in Seq(T), s # <<>>
    PROVE  \E v \in Seq(T), x \in T : s = Append(v, x) /\ Len(s) = Len(v) + 1
<1>1. Len(s) \in Nat /\ Len(s) # 0
    OBVIOUS
<1> DEFINE k == Len(s) - 1
           v == SubSeq(s, 1, k)
           x == s[k + 1]
<1>2. k \in Nat /\ Len(s) = k + 1
    BY <1>1
<1> HIDE DEF k
<1>3. v \in Seq(T) /\ Len(v) = k /\ x \in T /\ s = Append(v, x)
    BY <1>2
<1>. QED
    BY <1>2, <1>3

EndsOnly(x) == x # <<>> /\ \A i \in 1..(Len(x) - 1) : x[i] # "nul"

\* u is g cut after each NUL.
IsCutAtNuls(u, g) ==
    /\ u \in Seq(Seq(Bytes))
    /\ FlattenSeq(u) = g
    /\ \A k \in 1..Len(u) : EndsOnly(u[k])
    /\ \A k \in 1..(Len(u) - 1) : u[k][Len(u[k])] = "nul"
    /\ g # <<>> => u # <<>> /\ u[Len(u)][Len(u[Len(u)])] = g[Len(g)]
    /\ g = <<>> => u = <<>>

LEMMA StartPiece ==
    ASSUME NEW g \in Seq(Bytes), NEW u, IsCutAtNuls(u, g), NEW c \in Bytes,
           g = <<>> \/ g[Len(g)] = "nul"
    PROVE  IsCutAtNuls(Append(u, <<c>>), Append(g, c))
<1> DEFINE Q == Seq(Bytes)
           w == Append(u, <<c>>)
           n == Len(u)
<1>1. <<c>> \in Q /\ Len(<<c>>) = 1 /\ <<c>> # <<>> /\ <<c>>[1] = c
    OBVIOUS
<1>2. u \in Seq(Q) /\ n \in Nat
    BY DEF IsCutAtNuls
<1>3. FlattenSeq(w) = FlattenSeq(u) \o <<c>>
    BY <1>1, <1>2, FlattenAppend
<1>4. g \o <<c>> = Append(g, c)
    OBVIOUS
<1> HIDE DEF Q
<1>5. w \in Seq(Q) /\ Len(w) = n + 1 /\ w # <<>> /\ (\A k \in 1..n : w[k] = u[k]) /\ w[n + 1] = <<c>>
    BY <1>1, <1>2, AppendIs
<1>6. EndsOnly(<<c>>)
    BY <1>1 DEF EndsOnly
<1>7. \A k \in 1..n : EndsOnly(u[k]) /\ u[k][Len(u[k])] = "nul"
    <2>1. ASSUME NEW k \in 1..n PROVE u[k][Len(u[k])] = "nul"
        <3>1. CASE k = n
            <4>1. u # <<>>
                BY <1>2
            <4>2. g # <<>>
                BY <4>1 DEF IsCutAtNuls
            <4>. QED
                BY <3>1, <4>2 DEF IsCutAtNuls
        <3>2. CASE k # n
            <4>1. k \in 1..(n - 1)
                BY <1>2, <3>2
            <4>. QED
                BY <4>1 DEF IsCutAtNuls
        <3>. QED
            BY <3>1, <3>2
    <2>. QED
        BY <2>1 DEF IsCutAtNuls
<1>8. \A k \in 1..(n + 1) : EndsOnly(w[k])
    <2>1. TAKE k \in 1..(n + 1)
    <2>2. k \in 1..n \/ k = n + 1
        BY <1>2
    <2>. QED
        BY <1>5, <1>6, <1>7, <2>2
<1>9. \A k \in 1..(n + 1 - 1) : k \in 1..n
    BY <1>2
<1>10. Append(g, c) # <<>> /\ Append(g, c)[Len(Append(g, c))] = c
    <2>1. Append(g, c)[Len(g) + 1] = c /\ Len(Append(g, c)) = Len(g) + 1 /\ Append(g, c) # <<>>
        BY AppendIs
    <2>. QED
        BY <2>1
<1>11. FlattenSeq(w) = Append(g, c)
    BY <1>3, <1>4 DEF IsCutAtNuls
<1>12. w[Len(w)][Len(w[Len(w)])] = c
    BY <1>1, <1>5
<1> DEFINE h == Append(g, c)
<1> HIDE DEF w, n, h
<1>13. h # <<>> /\ h[Len(h)] = c /\ FlattenSeq(w) = h
    BY <1>10, <1>11 DEF h
<1>14. IsCutAtNuls(w, h)
    <2>1. w \in Seq(Seq(Bytes))
        BY <1>5 DEF Q
    <2>2. \A k \in 1..(Len(w) - 1) : w[k][Len(w[k])] = "nul"
        <3>1. TAKE k \in 1..(Len(w) - 1)
        <3>0. n \in Nat /\ Len(w) = n + 1
            BY <1>2, <1>5
        <3>3. k \in 1..n
            BY <3>0
        <3>2. k \in 1..n /\ w[k] = u[k]
            BY <1>5, <3>3
        <3>. QED
            BY <1>7, <3>2
    <2>. QED
        BY <1>5, <1>8, <1>12, <1>13, <2>1, <2>2 DEF IsCutAtNuls
<1>. QED
    BY <1>14 DEF w, h

LEMMA ExtendPiece ==
    ASSUME NEW g \in Seq(Bytes), NEW u, IsCutAtNuls(u, g), NEW c \in Bytes,
           g # <<>>, g[Len(g)] # "nul"
    PROVE  IsCutAtNuls([u EXCEPT ![Len(u)] = Append(@, c)], Append(g, c))
<1> DEFINE Q == Seq(Bytes)
           w == [u EXCEPT ![Len(u)] = Append(@, c)]
<1>1. u \in Seq(Q) /\ u # <<>>
    BY DEF IsCutAtNuls
<1>2. PICK v \in Seq(Q), x \in Q : u = Append(v, x) /\ Len(u) = Len(v) + 1
    <2> HIDE DEF Q
    <2>. QED
        BY <1>1, FrontIs
<1> DEFINE y == Append(x, c)
           n == Len(v)
<1>3. /\ y \in Q /\ Len(y) = Len(x) + 1 /\ y # <<>> /\ (\A k \in 1..Len(x) : y[k] = x[k])
      /\ y[Len(x) + 1] = c /\ Len(x) \in Nat
    BY AppendIs
<1>4. FlattenSeq(u) = FlattenSeq(v) \o x /\ FlattenSeq(Append(v, y)) = FlattenSeq(v) \o y
    BY <1>2, <1>3, FlattenAppend
<1>5. FlattenSeq(v) \o y = Append(FlattenSeq(v) \o x, c)
    <2>1. FlattenSeq(v) \in Seq(Bytes)
        BY FlattenType
    <2>2. \A a, b \in Seq(Bytes) : a \o Append(b, c) = Append(a \o b, c)
        OBVIOUS
    <2>. QED
        BY <2>1, <2>2
<1> HIDE DEF Q, y
<1>6. /\ u \in Seq(Q) /\ Len(u) = n + 1 /\ (\A k \in 1..n : u[k] = v[k]) /\ u[n + 1] = x
      /\ n \in Nat
    BY <1>2, AppendIs
<1>7. w = Append(v, y)
    <2>1. w = [u EXCEPT ![n + 1] = y]
        BY <1>6 DEF y
    <2>2. w \in Seq(Q) /\ Len(w) = n + 1 /\ (\A k \in 1..n : w[k] = v[k]) /\ w[n + 1] = y
        <3>1. n + 1 \in 1..(n + 1) /\ DOMAIN u = 1..(n + 1) /\ \A k \in 1..n : k \in 1..(n + 1) /\ k # n + 1
            BY <1>6
        <3>2. DOMAIN w = 1..(n + 1) /\ w[n + 1] = y /\ \A k \in 1..n : w[k] = u[k]
            BY <2>1, <3>1
        <3>3. \A k \in 1..(n + 1) : w[k] \in Q
            <4>1. TAKE k \in 1..(n + 1)
            <4>2. u[k] \in Q /\ y \in Q
                BY <1>3, <1>6
            <4>. QED
                BY <2>1, <3>1, <4>2
        <3>4. w = [k \in 1..(n + 1) |-> w[k]]
            BY <2>1, <3>1
        <3> HIDE DEF w
        <3>5. w \in Seq(Q) /\ Len(w) = n + 1
            BY <1>6, <3>3, <3>4
        <3>. QED
            BY <1>6, <3>2, <3>5
    <2>3. /\ Append(v, y) \in Seq(Q) /\ Len(Append(v, y)) = n + 1
          /\ (\A k \in 1..n : Append(v, y)[k] = v[k]) /\ Append(v, y)[n + 1] = y
        BY <1>3, AppendIs
    <2>4. \A k \in 1..(n + 1) : k \in 1..n \/ k = n + 1
        BY <1>6
    <2>5. \A k \in 1..(n + 1) : w[k] = Append(v, y)[k]
        BY <2>2, <2>3, <2>4
    <2> HIDE DEF w
    <2>. QED
        BY <2>2, <2>3, <2>5, SameSequence
<1>8. /\ w \in Seq(Q) /\ Len(w) = n + 1 /\ w # <<>> /\ (\A k \in 1..n : w[k] = u[k])
      /\ w[n + 1] = y
    <2> HIDE DEF w
    <2>. QED
        BY <1>2, <1>3, <1>6, <1>7, AppendIs
<1> HIDE DEF w, n
<1>9. EndsOnly(x) /\ x[Len(x)] # "nul"
    <2>1. n + 1 \in 1..Len(u)
        BY <1>6
    <2>. QED
        BY <1>6, <2>1 DEF IsCutAtNuls
<1>10. EndsOnly(y)
    <2>1. ASSUME NEW i \in 1..(Len(y) - 1) PROVE y[i] # "nul"
        <3>1. i \in 1..Len(x) /\ y[i] = x[i] /\ (i = Len(x) \/ i \in 1..(Len(x) - 1))
            BY <1>3
        <3>. QED
            BY <1>9, <3>1 DEF EndsOnly
    <2>. QED
        BY <1>3, <2>1 DEF EndsOnly
<1>11. \A k \in 1..(n + 1) : EndsOnly(w[k])
    <2>1. TAKE k \in 1..(n + 1)
    <2>2. k \in 1..n \/ k = n + 1
        BY <1>6
    <2>. QED
        BY <1>6, <1>8, <1>10, <2>2 DEF IsCutAtNuls
<1>12. \A k \in 1..(n + 1 - 1) : w[k][Len(w[k])] = "nul"
    <2>1. TAKE k \in 1..(n + 1 - 1)
    <2>2. k \in 1..n /\ k \in 1..(Len(u) - 1)
        BY <1>6
    <2>. QED
        BY <1>8, <2>2 DEF IsCutAtNuls
<1>13. Append(g, c) # <<>> /\ Append(g, c)[Len(Append(g, c))] = c
    <2>1. Append(g, c)[Len(g) + 1] = c /\ Len(Append(g, c)) = Len(g) + 1 /\ Append(g, c) # <<>>
        BY AppendIs
    <2>. QED
        BY <2>1
<1>14. FlattenSeq(w) = Append(g, c)
    BY <1>4, <1>5, <1>7 DEF IsCutAtNuls
<1>15. w[Len(w)][Len(w[Len(w)])] = c
    BY <1>3, <1>8
<1> DEFINE h == Append(g, c)
<1> HIDE DEF h
<1>16. h # <<>> /\ h[Len(h)] = c /\ FlattenSeq(w) = h
    BY <1>13, <1>14 DEF h
<1>17. IsCutAtNuls(w, h)
    <2>1. w \in Seq(Seq(Bytes))
        BY <1>8 DEF Q
    <2>2. \A k \in 1..(Len(w) - 1) : w[k][Len(w[k])] = "nul"
        <3>1. TAKE k \in 1..(Len(w) - 1)
        <3>2. k \in 1..(n + 1 - 1)
            BY <1>6, <1>8
        <3>. QED
            BY <1>12, <3>2
    <2>3. \A k \in 1..Len(w) : EndsOnly(w[k])
        BY <1>8, <1>11
    <2>4. w # <<>>
        BY <1>8
    <2>. QED
        BY <1>15, <1>16, <2>1, <2>2, <2>3, <2>4 DEF IsCutAtNuls
<1>. QED
    BY <1>17 DEF w, h

LEMMA CutAtNulsIs ==
    ASSUME NEW h \in Seq(Bytes)
    PROVE  IsCutAtNuls(CutAtNuls(h), h)
<1> DEFINE Q == Seq(Bytes)
           X == Seq(Q)
           N == Len(h)
           Step(x, n) == IF n = 1 \/ h[n - 1] = "nul" THEN Append(x, <<h[n]>>)
                         ELSE [x EXCEPT ![Len(x)] = Append(@, h[n])]
           Rows(f) == f = [n \in 0..N |-> IF n = 0 THEN <<>> ELSE Step(f[n - 1], n)]
           F == CHOOSE f : Rows(f)
           step == [m \in Nat |-> [x \in X |-> IF m \in 1..N THEN Step(x, m) ELSE x]]
<1>1. N \in Nat /\ \A i \in 1..N : h[i] \in Bytes
    OBVIOUS
<1>2. ASSUME NEW m \in 1..N, NEW x \in X PROVE Step(x, m) \in X
    <2>1. h[m] \in Bytes /\ <<h[m]>> \in Q
        BY <1>1
    <2>2. Append(x, <<h[m]>>) \in X
        <3> HIDE DEF Q
        <3>. QED
            BY <2>1, AppendIs
    <2>3. [x EXCEPT ![Len(x)] = Append(@, h[m])] \in X
        <3> DEFINE y == [x EXCEPT ![Len(x)] = Append(@, h[m])]
                   e == Append(x[Len(x)], h[m])
        <3>0. x \in Seq(Q) /\ Len(x) \in Nat /\ DOMAIN x = 1..Len(x)
            OBVIOUS
        <3>1. \A k \in 1..Len(x) : x[k] \in Q
            BY <3>0
        <3>2. \A k \in 1..Len(x) : k = Len(x) => e \in Q
            <4>1. \A z \in Q : Append(z, h[m]) \in Q
                BY <2>1
            <4>. QED
                BY <3>1, <4>1
        <3>3. y = [k \in 1..Len(x) |-> IF k = Len(x) THEN e ELSE x[k]]
            BY <3>0
        <3> HIDE DEF y, e, Q
        <3>4. y \in [1..Len(x) -> Q]
            BY <3>1, <3>2, <3>3
        <3>5. y \in Seq(Q)
            BY <3>0, <3>4
        <3>. QED
            BY <3>5 DEF y
    <2>. QED
        BY <2>2, <2>3
<1>3. step \in [Nat -> [X -> X]]
    <2> HIDE DEF Step, X
    <2>. QED
        BY <1>2
<1>4. <<>> \in X
    OBVIOUS
<1> HIDE DEF X, Q, N
<1>5. PICK g \in [0..N -> X] : Follow(g, <<>>, step, N)
    <2> HIDE DEF step
    <2>. QED
        BY <1>1, <1>3, <1>4, ThereIsARow
<1> HIDE DEF Step
<1>6. Rows(g)
    <2>1. ASSUME NEW n \in 1..N PROVE g[n] = Step(g[n - 1], n)
        <3>1. n \in Nat /\ n - 1 \in 0..N
            BY <1>1
        <3>2. g[n - 1] \in X
            BY <3>1
        <3>3. g[n] = step[n][g[n - 1]]
            BY <1>5 DEF Follow
        <3>. QED
            BY <3>1, <3>2, <3>3
    <2>2. g[0] = <<>>
        BY <1>5 DEF Follow
    <2>3. \A n \in 0..N : n = 0 \/ n \in 1..N
        BY <1>1
    <2>. QED
        BY <2>1, <2>2, <2>3
<1>7. Rows(F)
    <2> HIDE DEF Rows
    <2>. QED
        BY <1>6
<1>8. CutAtNuls(h) = F[N]
    BY DEF CutAtNuls, Step, N
<1> HIDE DEF F
<1>9. F[0] = <<>> /\ \A n \in 1..N : F[n] = Step(F[n - 1], n)
    <2>1. 0 \in 0..N /\ \A n \in 1..N : n \in 0..N /\ n # 0
        BY <1>1
    <2>. QED
        BY <1>7, <2>1
<1> HIDE DEF Rows, step
<1> DEFINE S == {k \in Nat : k \in 0..N => IsCutAtNuls(F[k], SubSeq(h, 1, k))}
<1>10. 0 \in S
    <2>1. SubSeq(h, 1, 0) = <<>>
        OBVIOUS
    <2>2. IsCutAtNuls(<<>>, <<>>)
        <3>1. <<>> \in Seq(Seq(Bytes)) /\ Len(<<>>) = 0
            OBVIOUS
        <3>. QED
            BY <3>1, FlattenNone DEF IsCutAtNuls
    <2>. QED
        BY <1>9, <2>1, <2>2
<1>11. ASSUME NEW k \in S PROVE k + 1 \in S
    <2>0. k \in Nat /\ k + 1 \in Nat
        OBVIOUS
    <2>1. SUFFICES ASSUME k + 1 \in 0..N PROVE IsCutAtNuls(F[k + 1], SubSeq(h, 1, k + 1))
        BY <2>0
    <2> DEFINE g1 == SubSeq(h, 1, k)
               c == h[k + 1]
    <2>2. k \in 0..N /\ k + 1 \in 1..N /\ (k + 1) - 1 = k
        BY <1>1, <2>0, <2>1
    <2>3. IsCutAtNuls(F[k], g1)
        BY <2>2
    <2>4. /\ g1 \in Seq(Bytes) /\ c \in Bytes /\ Len(g1) = k
          /\ SubSeq(h, 1, k + 1) = Append(g1, c)
          /\ k # 0 => g1 # <<>> /\ g1[k] = h[k]
          /\ k = 0 => g1 = <<>>
        BY <2>0, <2>2 DEF N
    <2>5. F[k + 1] = IF k + 1 = 1 \/ h[k] = "nul" THEN Append(F[k], <<c>>)
                     ELSE [F[k] EXCEPT ![Len(F[k])] = Append(@, c)]
        BY <1>9, <2>2 DEF Step
    <2> HIDE DEF g1, c
    <2>6. CASE k = 0 \/ h[k] = "nul"
        <3>1. F[k + 1] = Append(F[k], <<c>>)
            BY <2>0, <2>5, <2>6
        <3>2. g1 = <<>> \/ g1[Len(g1)] = "nul"
            BY <2>4, <2>6
        <3>. QED
            BY <2>3, <2>4, <3>1, <3>2, StartPiece
    <2>7. CASE ~(k = 0 \/ h[k] = "nul")
        <3>1. F[k + 1] = [F[k] EXCEPT ![Len(F[k])] = Append(@, c)]
            BY <2>0, <2>5, <2>7
        <3>2. g1 # <<>> /\ g1[Len(g1)] # "nul"
            BY <2>4, <2>7
        <3>3. IsCutAtNuls([F[k] EXCEPT ![Len(F[k])] = Append(@, c)], Append(g1, c))
            BY <2>3, <2>4, <3>2, ExtendPiece
        <3>. QED
            BY <2>4, <3>1, <3>3
    <2>. QED
        BY <2>6, <2>7
<1> HIDE DEF S
<1>12. S \in SUBSET Nat
    BY DEF S
<1>13. S = Nat
    BY <1>10, <1>11, <1>12, Induction
<1>14. SubSeq(h, 1, N) = h
    BY DEF N
<1>15. N \in S /\ N \in 0..N
    BY <1>1, <1>13
<1>. QED
    BY <1>8, <1>14, <1>15 DEF S

LEMMA OnePiece ==
    ASSUME NEW p \in PieceSet, IsGood(p)
    PROVE  /\ IsCutting(<<p>>, p.bytes)
           /\ Obstructed(p.bytes) => IsClosedCutting(<<p>>, p.bytes)
<1>1. p.bytes \in Seq(Bytes)
    BY DEF PieceSet
<1>2. <<p>> \in Seq(PieceSet) /\ Len(<<p>>) = 1 /\ <<p>>[1] = p
    OBVIOUS
<1>3. AllBytes(<<p>>) = <<p.bytes>>
    BY DEF AllBytes
<1>4. FlattenSeq(<<p.bytes>>) = p.bytes
    BY <1>1, FlattenOne
<1>5. (\A k \in 1..1 : k = 1) /\ \A k \in 1..(1 - 1) : FALSE
    OBVIOUS
<1>6. IsCutting(<<p>>, p.bytes)
    BY <1>2, <1>3, <1>4, <1>5 DEF IsCutting
<1>7. ASSUME Obstructed(p.bytes) PROVE \A k \in 1..Len(<<p>>) : Obstructed(<<p>>[k].bytes)
    BY <1>2, <1>5, <1>7
<1>. QED
    BY <1>6, <1>7 DEF IsClosedCutting

LEMMA EndObstructs ==
    ASSUME NEW x \in Seq(Bytes), x # <<>>, x[Len(x)] = "nul"
    PROVE  Obstructed(x)
<1>1. Len(x) \in 1..Len(x)
    OBVIOUS
<1>2. Obstacle("nul")
    BY DEF Obstacle, Control, IsEscaped
<1>. QED
    BY <1>1, <1>2 DEF Obstructed

\* Control characters alone, none an obstacle, do not spoil the string behind them.
LEMMA LeadingWritable ==
    ASSUME NEW x \in Seq(Bytes), NEW f \in 2..Len(x),
           \A i \in 1..(f - 1) : x[i] \in Control /\ ~Obstacle(x[i]),
           IsWritable(SubSeq(x, f, Len(x)))
    PROVE  IsWritable(x)
<1> DEFINE N == Len(x)
           r == SubSeq(x, f, N)
           d == f - 1
<1>1. N \in Nat /\ f \in Nat /\ d \in Nat /\ d + 1 = f /\ x # <<>> /\ d <= N
    OBVIOUS
<1>2. r \in Seq(Bytes) /\ Len(r) = N - d /\ \A i \in 1..(N - d) : r[i] = x[d + i]
    OBVIOUS
<1>3. \A i \in 1..d : x[i] \in Control /\ ~Obstacle(x[i])
    OBVIOUS
<1>4. IsWritable(r)
    OBVIOUS
<1> HIDE DEF N, r, d
<1>5. N - d # 0 /\ r[N - d] = "nul"
    <2>1. r # <<>> /\ r[Len(r)] = "nul"
        BY <1>4 DEF IsWritable
    <2>2. Len(r) # 0
        BY <1>2, <2>1
    <2>. QED
        BY <1>2, <2>1, <2>2
<1>6. x[N] = "nul"
    <2>1. N - d \in 1..(N - d) /\ d + (N - d) = N
        BY <1>1, <1>5
    <2>. QED
        BY <1>2, <1>5, <2>1
<1>7. ASSUME NEW i \in 1..N PROVE i \in 1..d \/ (i - d \in 1..(N - d) /\ d + (i - d) = i)
    BY <1>1
<1>8. ASSUME NEW i \in 1..(N - 1) PROVE ~Obstacle(x[i])
    <2>1. CASE i \in 1..d
        BY <1>3, <2>1
    <2>2. CASE i \notin 1..d
        <3>1. i - d \in 1..(N - d) /\ d + (i - d) = i /\ i - d \in 1..(N - d - 1)
            BY <1>1, <2>2
        <3>2. ~Obstacle(r[i - d])
            BY <1>2, <1>4, <3>1 DEF IsWritable
        <3>. QED
            BY <1>2, <3>1, <3>2
    <2>. QED
        BY <2>1, <2>2
<1>9. IsUtf8(x)
    <2>0. /\ DOMAIN x = 1..N /\ DOMAIN r = 1..(N - d)
          /\ "lead" \notin Control /\ "trail" \notin Control
        BY <1>2 DEF Control, N
    <2>1. ASSUME NEW i \in 1..N, x[i] = "lead" PROVE i < N /\ x[i + 1] = "trail"
        <3>1. i \notin 1..d
            BY <1>3, <2>0, <2>1
        <3>2. i - d \in 1..(N - d) /\ d + (i - d) = i
            BY <1>7, <3>1
        <3>3. r[i - d] = "lead"
            BY <1>2, <2>1, <3>2
        <3>4. i - d < N - d /\ r[(i - d) + 1] = "trail"
            BY <1>2, <1>4, <2>0, <3>2, <3>3 DEF IsWritable, IsUtf8
        <3>5. (i - d) + 1 \in 1..(N - d) /\ d + ((i - d) + 1) = i + 1 /\ i < N
            BY <1>1, <3>2, <3>4
        <3>. QED
            BY <1>2, <3>4, <3>5
    <2>2. ASSUME NEW i \in 1..N, x[i] = "trail" PROVE i > 1 /\ x[i - 1] = "lead"
        <3>1. i \notin 1..d
            BY <1>3, <2>0, <2>2
        <3>2. i - d \in 1..(N - d) /\ d + (i - d) = i
            BY <1>7, <3>1
        <3>3. r[i - d] = "trail"
            BY <1>2, <2>2, <3>2
        <3>4. i - d > 1 /\ r[(i - d) - 1] = "lead"
            BY <1>2, <1>4, <2>0, <3>2, <3>3 DEF IsWritable, IsUtf8
        <3>5. (i - d) - 1 \in 1..(N - d) /\ d + ((i - d) - 1) = i - 1 /\ i > 1
            BY <1>1, <3>2, <3>4
        <3>. QED
            BY <1>2, <3>4, <3>5
    <2>. QED
        BY <2>0, <2>1, <2>2 DEF IsUtf8, N
<1>. QED
    BY <1>1, <1>6, <1>8, <1>9 DEF IsWritable, N

LEMMA CutLeadingIs ==
    ASSUME NEW x \in Seq(Bytes), EndsOnly(x)
    PROVE  /\ IsCutting(CutLeading(x), x)
           /\ x[Len(x)] = "nul" => IsClosedCutting(CutLeading(x), x)
<1> DEFINE N == Len(x)
           texts == {i \in DOMAIN x : x[i] \notin Control}
           first == CHOOSE i \in texts : \A j \in texts : i <= j
           right == SubSeq(x, first, Len(x))
           left == SubSeq(x, 1, first - 1)
           whole == \/ StringLength(x) # NoString \/ Last(x) # "nul"
                    \/ texts = {} \/ first = 1 \/ StringLength(right) = NoString
           p == [bytes |-> left, length |-> NoString]
<1>1. CutLeading(x) = IF whole THEN <<Piece(x)>> ELSE <<p, Piece(right)>>
    BY DEF CutLeading
<1>2. ASSUME NEW y \in Seq(Bytes), y # <<>>
      PROVE  Piece(y) \in PieceSet /\ IsGood(Piece(y)) /\ Piece(y).bytes = y
    <2>1. StringLength(y) \in Nat
        BY StringLengthIs
    <2>. QED
        BY <1>2, <2>1 DEF Piece, PieceSet, IsGood
<1>3. x # <<>> /\ N \in Nat /\ N # 0
    BY DEF EndsOnly
<1>4. CASE whole
    <2>1. Piece(x) \in PieceSet /\ IsGood(Piece(x)) /\ Piece(x).bytes = x
        BY <1>2, <1>3
    <2>2. CutLeading(x) = <<Piece(x)>>
        BY <1>1, <1>4
    <2>. QED
        BY <1>3, <2>1, <2>2, OnePiece, EndObstructs
<1>5. CASE ~whole
    <2>1. /\ StringLength(x) = NoString /\ x[N] = "nul" /\ texts # {} /\ first # 1
          /\ StringLength(right) # NoString
        BY <1>5 DEF Last
    <2>2. DOMAIN x = 1..N
        OBVIOUS
    <2>3. first \in texts /\ \A j \in texts : first <= j
        <3>1. texts \in SUBSET Nat
            BY <1>3, <2>2
        <3>2. \E i \in texts : \A j \in texts : i <= j
            BY <2>1, <3>1, LeastOf
        <3>. QED
            BY <3>2
    <2> HIDE DEF whole, first
    <2>4. first \in 1..N /\ first # N /\ first \in 2..N
        <3>1. "nul" \in Control
            BY DEF Control
        <3>2. first \in 1..N /\ first # N
            BY <2>1, <2>2, <2>3, <3>1
        <3>. QED
            BY <1>3, <2>1, <3>2
    <2>5. \A i \in 1..(first - 1) : x[i] \in Control
        <3>1. TAKE i \in 1..(first - 1)
        <3>2. i \in 1..N /\ ~(first <= i)
            BY <1>3, <2>4
        <3>. QED
            BY <2>2, <2>3, <3>2
    <2> HIDE DEF texts
    <2>6. /\ left \in Seq(Bytes) /\ Len(left) = first - 1 /\ \A i \in 1..(first - 1) : left[i] = x[i]
          /\ right \in Seq(Bytes) /\ right # <<>> /\ left \o right = x
        <3>1. /\ left \in Seq(Bytes) /\ Len(left) = first - 1
              /\ \A i \in 1..(first - 1) : left[i] = x[i]
            BY <1>3, <2>4
        <3>2. right \in Seq(Bytes) /\ Len(right) = N - first + 1
            BY <1>3, <2>4
        <3>3. right # <<>>
            <4>1. N - first + 1 # 0
                BY <1>3, <2>4
            <4>2. Len(right) # 0
                BY <3>2, <4>1
            <4> HIDE DEF right
            <4>3. right = <<>> => Len(right) = 0
                OBVIOUS
            <4>. QED
                BY <4>2, <4>3
        <3>4. left \o right = x
            BY <1>3, <2>4
        <3>. QED
            BY <3>1, <3>2, <3>3, <3>4
    <2> HIDE DEF left, right
    <2>7. IsWritable(right)
        BY <2>1, <2>6, StringLengthIs
    <2>8. Obstructed(left)
        <3>1. ASSUME ~Obstructed(left) PROVE FALSE
            <4>1. \A i \in 1..(first - 1) : x[i] \in Control /\ ~Obstacle(x[i])
                BY <2>5, <2>6, <3>1 DEF Obstructed
            <4>2. IsWritable(x)
                BY <2>4, <2>7, <4>1, LeadingWritable DEF right, N
            <4>. QED
                BY <2>1, <4>2, StringLengthIs
        <3>. QED
            BY <3>1
    <2>9. left # <<>> /\ StringLength(left) = NoString
        <3>1. Len(left) # 0 /\ Len(left) \in 1..(first - 1) /\ Len(left) \in 1..(N - 1)
            BY <1>3, <2>4, <2>6
        <3>2. left # <<>>
            BY <2>6, <3>1
        <3>3. left[Len(left)] # "nul"
            BY <2>6, <3>1 DEF EndsOnly, N
        <3>. QED
            BY <2>6, <3>2, <3>3, StringLengthIs DEF IsWritable
    <2>10. p \in PieceSet /\ IsGood(p) /\ p.bytes = left
        BY <2>6, <2>9 DEF PieceSet, IsGood, NoString
    <2>11. Piece(right) \in PieceSet /\ IsGood(Piece(right)) /\ Piece(right).bytes = right
        BY <1>2, <2>6
    <2> HIDE DEF p
    <2>12. IsClosedCutting(<<p>>, left)
        BY <2>8, <2>10, OnePiece
    <2>13. IsCutting(<<Piece(right)>>, right)
        BY <2>11, OnePiece
    <2>14. Obstructed(right)
        BY <2>6, <2>7, EndObstructs DEF IsWritable
    <2>15. IsClosedCutting(<<Piece(right)>>, right)
        BY <2>11, <2>14, OnePiece
    <2>16. <<p>> \o <<Piece(right)>> = <<p, Piece(right)>>
        BY <2>10, <2>11, PairIs
    <2>17. CutLeading(x) = <<p>> \o <<Piece(right)>>
        BY <1>1, <1>5, <2>16 DEF whole
    <2>. QED
        BY <2>6, <2>12, <2>13, <2>15, <2>17, CuttingJoin
<1>. QED
    BY <1>4, <1>5

LEMMA CutIs ==
    ASSUME NEW h \in Seq(Bytes), h # <<>>
    PROVE  IsCutting(Cut(h), h) /\ Cut(h) # <<>>
<1> DEFINE u == CutAtNuls(h)
           N == Len(u)
           Q == Seq(Bytes)
           R == Seq(PieceSet)
           Row(k) == [j \in 1..k |-> CutLeading(u[j])]
           Start(k) == SubSeq(u, 1, k)
<1>1. IsCutAtNuls(u, h)
    BY CutAtNulsIs
<1>2. u \in Seq(Q) /\ N \in Nat /\ N # 0 /\ FlattenSeq(u) = h
    <2>1. u \in Seq(Q) /\ FlattenSeq(u) = h /\ u # <<>>
        BY <1>1 DEF IsCutAtNuls
    <2> HIDE DEF Q, u
    <2>2. Len(u) \in Nat /\ Len(u) # 0
        BY <2>1
    <2>. QED
        BY <2>1, <2>2 DEF u
<1> HIDE DEF u, N
<1>3. ASSUME NEW k \in 1..N
      PROVE  /\ u[k] \in Q
             /\ IsCutting(CutLeading(u[k]), u[k]) /\ CutLeading(u[k]) \in R
             /\ k # N => IsClosedCutting(CutLeading(u[k]), u[k])
    <2>1. u[k] \in Q
        <3> HIDE DEF Q
        <3>. QED
            BY <1>2 DEF N
    <2>2. EndsOnly(u[k])
        BY <1>1 DEF IsCutAtNuls, N
    <2>3. IsCutting(CutLeading(u[k]), u[k])
        BY <2>1, <2>2, CutLeadingIs
    <2>4. ASSUME k # N PROVE IsClosedCutting(CutLeading(u[k]), u[k])
        <3>1. k \in 1..(N - 1)
            BY <1>2, <2>4
        <3>2. u[k][Len(u[k])] = "nul"
            BY <1>1, <3>1 DEF IsCutAtNuls, N
        <3>. QED
            BY <2>1, <2>2, <3>2, CutLeadingIs
    <2>. QED
        BY <2>1, <2>3, <2>4 DEF IsCutting
<1> HIDE DEF Q, R
<1>4. ASSUME NEW k \in Nat, k <= N
      PROVE  Row(k) \in Seq(R) /\ Start(k) \in Seq(Q)
    <2>1. \A j \in 1..k : j \in 1..N
        BY <1>2, <1>4
    <2>2. Row(k) \in Seq(R)
        BY <1>3, <2>1
    <2>3. \A j \in 1..k : u[j] \in Q
        BY <1>3, <2>1
    <2>4. Start(k) = [j \in 1..k |-> u[j]]
        BY <1>2, <1>4 DEF N
    <2>. QED
        BY <2>2, <2>3, <2>4
<1>5. ASSUME NEW k \in Nat, k + 1 <= N
      PROVE  /\ Row(k + 1) = Append(Row(k), CutLeading(u[k + 1]))
             /\ Start(k + 1) = Append(Start(k), u[k + 1])
             /\ k + 1 \in 1..N /\ k <= N
    <2>1. k + 1 \in 1..N /\ k <= N /\ \A j \in 1..(k + 1) : j \in 1..N
        BY <1>2, <1>5
    <2>2. Row(k + 1) = Append(Row(k), CutLeading(u[k + 1]))
        <3> DEFINE a == Row(k + 1)
                   b == Append(Row(k), CutLeading(u[k + 1]))
        <3>1. a \in Seq(R) /\ Len(a) = k + 1
            BY <1>4, <1>5
        <3>2. Row(k) \in Seq(R) /\ Len(Row(k)) = k /\ CutLeading(u[k + 1]) \in R
            BY <1>3, <1>4, <2>1
        <3>3. b \in Seq(R) /\ Len(b) = k + 1
              /\ (\A j \in 1..k : b[j] = Row(k)[j]) /\ b[k + 1] = CutLeading(u[k + 1])
            BY <3>2, AppendIs
        <3>4. \A j \in 1..(k + 1) : b[j] = CutLeading(u[j])
            BY <3>3
        <3>5. \A j \in 1..(k + 1) : a[j] = b[j]
            BY <3>4
        <3> HIDE DEF a, b
        <3>. QED
            BY <3>1, <3>3, <3>5, SameSequence DEF a, b
    <2>3. Start(k + 1) = Append(Start(k), u[k + 1])
        BY <1>2, <1>5 DEF N
    <2>. QED
        BY <2>1, <2>2, <2>3
<1> DEFINE IsCut(k) == /\ IsCutting(FlattenSeq(Row(k)), FlattenSeq(Start(k)))
                       /\ k # N => IsClosedCutting(FlattenSeq(Row(k)), FlattenSeq(Start(k)))
           S == {k \in Nat : k <= N => IsCut(k)}
<1>6. 0 \in S
    <2>1. Row(0) = <<>> /\ Start(0) = <<>>
        BY <1>2
    <2>2. FlattenSeq(Row(0)) = <<>> /\ FlattenSeq(Start(0)) = <<>>
        BY <2>1, FlattenNone
    <2>3. AllBytes(<<>>) = <<>> /\ <<>> \in Seq(PieceSet) /\ Len(<<>>) = 0
        BY DEF AllBytes
    <2>4. FlattenSeq(AllBytes(<<>>)) = <<>>
        BY <2>3, FlattenNone
    <2>5. (\A k \in 1..0 : FALSE) /\ (\A k \in 1..(0 - 1) : FALSE)
        OBVIOUS
    <2>6. IsClosedCutting(<<>>, <<>>)
        BY <2>3, <2>4, <2>5 DEF IsClosedCutting, IsCutting
    <2>7. IsCut(0)
        BY <2>2, <2>6 DEF IsClosedCutting
    <2>. QED
        BY <2>7
<1>7. ASSUME NEW k \in S PROVE k + 1 \in S
    <2>1. SUFFICES ASSUME k + 1 <= N PROVE IsCut(k + 1)
        OBVIOUS
    <2>2. k \in Nat /\ k <= N /\ k # N /\ k + 1 \in 1..N
        BY <1>2, <1>5, <2>1
    <2> DEFINE a == FlattenSeq(Row(k))
               b == CutLeading(u[k + 1])
               x == FlattenSeq(Start(k))
               y == u[k + 1]
    <2>3. IsClosedCutting(a, x)
        BY <2>2
    <2>4. /\ y \in Seq(Bytes) /\ IsCutting(b, y) /\ b \in R
          /\ k + 1 # N => IsClosedCutting(b, y)
        BY <1>3, <2>2 DEF Q
    <2>5. x \in Seq(Bytes)
        BY <1>4, <2>2, FlattenType DEF Q
    <2>6. FlattenSeq(Row(k + 1)) = a \o b
        <3>1. Row(k) \in Seq(Seq(PieceSet)) /\ b \in Seq(PieceSet)
            BY <1>4, <2>2, <2>4 DEF R
        <3>2. Row(k + 1) = Append(Row(k), b)
            BY <1>5, <2>1, <2>2
        <3> HIDE DEF Row, b
        <3>. QED
            BY <3>1, <3>2, FlattenAppend
    <2>7. FlattenSeq(Start(k + 1)) = x \o y
        <3>1. Start(k) \in Seq(Seq(Bytes))
            BY <1>4, <2>2 DEF Q
        <3>2. Start(k + 1) = Append(Start(k), y)
            BY <1>5, <2>1, <2>2
        <3> HIDE DEF Start, y
        <3>. QED
            BY <2>4, <3>1, <3>2, FlattenAppend
    <2> HIDE DEF a, b, x, y, Row, Start
    <2>8. /\ IsCutting(a \o b, x \o y)
          /\ k + 1 # N => IsClosedCutting(a \o b, x \o y)
        BY <2>3, <2>4, <2>5, CuttingJoin
    <2>. QED
        BY <2>6, <2>7, <2>8
<1> HIDE DEF IsCut, S
<1>8. S \in SUBSET Nat
    BY DEF S
<1>9. IsCut(N)
    <2>1. S = Nat
        BY <1>6, <1>7, <1>8, Induction
    <2>. QED
        BY <1>2, <2>1 DEF S
<1>10. Row(N) = [j \in DOMAIN u |-> CutLeading(u[j])] /\ Start(N) = u
    BY <1>2 DEF N
<1>11. IsCutting(Cut(h), h)
    BY <1>2, <1>9, <1>10 DEF IsCut, Cut, u
<1>12. ASSUME Cut(h) = <<>> PROVE FALSE
    <2>1. FlattenSeq(AllBytes(<<>>)) = h
        BY <1>11, <1>12 DEF IsCutting
    <2>2. AllBytes(<<>>) = <<>>
        BY DEF AllBytes
    <2>. QED
        BY <2>1, <2>2, FlattenNone
<1>. QED
    BY <1>11, <1>12

-----------------------------------------------------------------------------
(* What a line says: bytes that stand in the patch from its address on; a  *)
(* string is one the writer could write, so its first NUL is its last byte. *)

LineSet == [address : Addresses, form : {"hex", "string"}, text : Seq(Tokens)]

Says(d, l, s) ==
    /\ s \in Seq(Bytes) /\ s # <<>>
    /\ l.address + Len(s) <= Top + 1
    /\ \A i \in 1..Len(s) : l.address + i - 1 \in DOMAIN d /\ d[l.address + i - 1] = s[i]
    /\ l.form = "hex" => l.text = s
    /\ l.form = "string" => IsWritable(s) /\ l.text = WriteString(s)

LEMMA SaidIs ==
    ASSUME NEW d, IsPatchVec(d), NEW l \in LineSet, NEW s, Says(d, l, s)
    PROVE  /\ Said(d, l) = s
           /\ Place(d, l) = l.address..(l.address + Len(s) - 1)
<1> DEFINE A == l.address
           IsNul(a) == /\ a >= A /\ d[a] = "nul"
                       /\ \A b \in DOMAIN d : b \in A..a /\ d[b] = "nul" => b = a
           nul == CHOOSE a \in DOMAIN d : IsNul(a)
           n == IF l.form = "hex" THEN Len(l.text) ELSE nul - A + 1
           e == A + Len(s) - 1
<1>1. /\ A \in Nat /\ s \in Seq(Bytes) /\ Len(s) \in Nat /\ Len(s) # 0
      /\ \A i \in 1..Len(s) : A + i - 1 \in DOMAIN d /\ d[A + i - 1] = s[i]
      /\ e \in Nat /\ e >= A
    BY DEF Says, LineSet, Addresses
<1>2. n = Len(s)
    <2>1. CASE l.form = "hex"
        BY <2>1 DEF Says
    <2>2. CASE l.form = "string"
        <3>1. s[Len(s)] = "nul" /\ \A i \in 1..(Len(s) - 1) : s[i] # "nul"
            <4>1. Obstacle("nul")
                BY DEF Obstacle, Control, IsEscaped
            <4>. QED
                BY <2>2, <4>1 DEF Says, IsWritable
        <3>2. e \in DOMAIN d /\ d[e] = "nul"
            <4>1. Len(s) \in 1..Len(s)
                BY <1>1
            <4>. QED
                BY <1>1, <3>1, <4>1
        <3>3. ASSUME NEW b \in A..e, d[b] = "nul" PROVE b = e
            <4>1. b - A + 1 \in 1..Len(s) /\ A + (b - A + 1) - 1 = b
                BY <1>1
            <4>2. s[b - A + 1] = "nul"
                BY <1>1, <3>3, <4>1
            <4>3. b - A + 1 = Len(s)
                BY <1>1, <3>1, <4>1, <4>2
            <4>. QED
                BY <1>1, <4>3
        <3>4. IsNul(e)
            BY <1>1, <3>2, <3>3
        <3>5. nul \in DOMAIN d /\ IsNul(nul)
            BY <3>2, <3>4
        <3> HIDE DEF nul
        <3>6. nul = e
            <4>1. nul \in Nat
                BY <3>5, TopIsNat DEF IsPatchVec, Addresses
            <4>2. CASE nul <= e
                <5>1. nul \in A..e
                    BY <1>1, <3>5, <4>1, <4>2
                <5>. QED
                    BY <3>3, <3>5, <5>1
            <4>3. CASE ~(nul <= e)
                <5>1. e \in A..nul
                    BY <1>1, <4>1, <4>3
                <5>. QED
                    BY <3>2, <3>5, <5>1
            <4>. QED
                BY <4>2, <4>3
        <3>. QED
            BY <1>1, <2>2, <3>6
    <2>. QED
        BY <2>1, <2>2 DEF LineSet
<1> HIDE DEF n
<1>3. Said(d, l) = [i \in 1..n |-> d[A + i - 1]]
    BY DEF Said, n, nul
<1>4. Said(d, l) = s
    <2>1. s = [i \in 1..Len(s) |-> s[i]]
        BY <1>1
    <2>. QED
        BY <1>1, <1>2, <1>3, <2>1
<1>. QED
    BY <1>4 DEF Place

-----------------------------------------------------------------------------
(* The invariant of the writer.                                            *)

\* Nothing is in hand between the hunks and nothing is left for the reader.
PhasesFit ==
    /\ phase \in {"hunks", "reading"} => pieces = <<>>
    /\ phase = "joining" => pieces # <<>>
    /\ phase = "reading" => Remaining(data, next) = {}
    /\ phase # "reading" => line = 1 /\ back = NoPatch

\* No piece but the last could go on as a string.
PiecesFit ==
    /\ pieces \in Seq(PieceSet)
    /\ \A k \in 1..Len(pieces) : IsGood(pieces[k])
    /\ \A k \in 1..(Len(pieces) - 1) : Obstructed(pieces[k].bytes)

\* The pieces are the patch from base up to next.
PendingFits ==
    /\ pieces # <<>> => base + Len(Pending) = next
    /\ \A i \in 1..Len(Pending) : base + i - 1 \in DOMAIN data /\ data[base + i - 1] = Pending[i]

LinesFit ==
    /\ lines \in Seq(LineSet)
    /\ \A k \in 1..Len(lines) : Says(data, lines[k], Said(data, lines[k]))

Here == base..(base + Len(Pending) - 1)

InLines(a) == \E k \in 1..Len(lines) : a \in Place(data, lines[k])

\* What has been taken is in hand or in a line.
TakenFits == \A a : (a \in DOMAIN data /\ a < next) <=> (a \in Here \/ InLines(a))

ApartFits ==
    \A k \in 1..Len(lines) : \A a \in Place(data, lines[k]) :
        /\ pieces # <<>> => a < base
        /\ \A j \in 1..(k - 1) : a \notin Place(data, lines[j])

WInv ==
    /\ TypeOKWriter
    /\ PhasesFit
    /\ PiecesFit
    /\ PendingFits
    /\ LinesFit
    /\ TakenFits
    /\ ApartFits

LEMMA PendingType ==
    ASSUME PiecesFit
    PROVE  /\ Pending = FlattenSeq(AllBytes(pieces)) /\ Pending \in Seq(Bytes) /\ Len(Pending) \in Nat
           /\ pieces = <<>> => Pending = <<>>
<1>1. Pending = FlattenSeq(AllBytes(pieces))
    BY DEF Pending, AllBytes
<1>2. AllBytes(pieces) \in Seq(Seq(Bytes))
    BY AllBytesAre DEF PiecesFit
<1>3. FlattenSeq(AllBytes(pieces)) \in Seq(Bytes)
    BY <1>2, FlattenType
<1>4. ASSUME pieces = <<>> PROVE Pending = <<>>
    <2>1. AllBytes(pieces) = <<>>
        BY <1>4 DEF AllBytes
    <2>. QED
        BY <1>1, <2>1, FlattenNone
<1>. QED
    BY <1>1, <1>3, <1>4

\* What the invariant says, and more than the model's runs ask.
LEMMA WInvGives ==
    ASSUME WInv
    PROVE  CachedLengthIsRight /\ NothingDropped
<1>1. CachedLengthIsRight
    <2>1. DOMAIN pieces = 1..Len(pieces)
        BY DEF WInv, PiecesFit
    <2>. QED
        BY <2>1 DEF WInv, CachedLengthIsRight, PiecesFit, IsGood
<1>2. DOMAIN lines = 1..Len(lines) /\ Len(Pending) \in Nat /\ DOMAIN Pending = 1..Len(Pending)
    BY PendingType DEF WInv, LinesFit
<1>3. {a \in DOMAIN data : a < next} = Here \cup UNION {Place(data, lines[k]) : k \in DOMAIN lines}
    BY <1>2 DEF WInv, TakenFits, InLines
<1>4. ASSUME NEW k \in DOMAIN lines, NEW a \in Place(data, lines[k])
      PROVE  a \notin Here /\ \A j \in 1..(k - 1) : a \notin Place(data, lines[j])
    <2>1. /\ pieces # <<>> => a < base
          /\ \A j \in 1..(k - 1) : a \notin Place(data, lines[j])
        BY <1>2 DEF WInv, ApartFits
    <2>2. CASE pieces = <<>>
        <3>1. Len(Pending) = 0
            BY <2>2, PendingType DEF WInv
        <3>2. Here = {}
            BY <3>1 DEF Here, WInv, TypeOKWriter, Addresses
        <3>. QED
            BY <2>1, <3>2
    <2>3. CASE pieces # <<>>
        <3>1. a \notin Here
            BY <2>1, <2>3 DEF Here, WInv, TypeOKWriter, Addresses
        <3>. QED
            BY <2>1, <3>1
    <2>. QED
        BY <2>2, <2>3
<1>5. \A i \in DOMAIN Pending : Pending[i] = data[base + i - 1]
    BY <1>2 DEF WInv, PendingFits
<1>6. ASSUME NEW k \in DOMAIN lines
      PROVE  LET said == Said(data, lines[k])
             IN  lines[k].text = IF lines[k].form = "hex" THEN said ELSE WriteString(said)
    <2>1. lines[k] \in LineSet /\ Says(data, lines[k], Said(data, lines[k]))
        BY <1>2 DEF WInv, LinesFit
    <2>2. lines[k].form \in {"hex", "string"}
        BY <2>1 DEF LineSet
    <2>. QED
        BY <2>1, <2>2 DEF Says
<1>7. NothingDropped
    BY <1>3, <1>4, <1>5, <1>6 DEF NothingDropped, Here
<1>. QED
    BY <1>1, <1>7

LEMMA InitWriterIs ==
    ASSUME InitWriter
    PROVE  WInv
<1> USE TopIsNat DEF InitWriter
<1>1. IsPatchVec(data)
    BY PatchesArePatchVecs
<1>2. IsPatchVec(NoPatch)
    BY DEF IsPatchVec, NoPatch
<1>3. Len(lines) = 0 /\ Len(pieces) = 0
    OBVIOUS
<1>4. TypeOKWriter
    BY <1>1, <1>2, <1>3 DEF TypeOKWriter, Addresses
<1>5. PhasesFit /\ PiecesFit /\ LinesFit
    BY DEF PhasesFit, PiecesFit, LinesFit
<1>6. Len(Pending) = 0
    BY <1>5, PendingType
<1>7. Here = {} /\ \A i \in 1..Len(Pending) : FALSE
    BY <1>6 DEF Here
<1>8. PendingFits
    BY <1>7 DEF PendingFits
<1>9. \A a : ~(a \in DOMAIN data /\ a < next) /\ ~InLines(a)
    BY <1>1, <1>3 DEF IsPatchVec, Addresses, InLines
<1>10. TakenFits /\ ApartFits
    BY <1>3, <1>7, <1>9 DEF TakenFits, ApartFits
<1>. QED
    BY <1>4, <1>5, <1>8, <1>10 DEF WInv

LEMMA TakeHunkKeeps ==
    ASSUME WInv, TakeHunk
    PROVE  WInv'
<1> USE TopIsNat
<1> DEFINE from == NextBase(data, next)
           hunk == Hunk(data, from, MaxHunk)
<1>1. /\ IsPatchVec(data) /\ IsPatchVec(back) /\ next \in 0..(Top + 1) /\ phase = "hunks"
      /\ pieces = <<>> /\ line = 1 /\ back = NoPatch
      /\ data' = data /\ base' = from /\ next' = from + Len(hunk) /\ pieces' = Cut(hunk)
      /\ at' = 1 /\ phase' = "joining" /\ lines' = lines /\ line' = line /\ back' = back
    BY DEF WInv, TypeOKWriter, PhasesFit, TakeHunk
<1>2. /\ from \in DOMAIN data /\ from >= next
      /\ \A a \in DOMAIN data : a >= next => from <= a
    <2>1. Remaining(data, next) # {} /\ next \in Nat /\ DOMAIN data \subseteq Addresses
        BY <1>1 DEF TakeHunk, IsPatchVec
    <2>. QED
        BY <2>1, NextBaseIs
<1> HIDE DEF from
<1>3. IsHunkOf(data, from, MaxHunk, hunk)
    BY <1>1, <1>2, HunkIs, LimitsArePositive
<1> HIDE DEF hunk
<1>4. /\ hunk \in Seq(Bytes) /\ hunk # <<>> /\ Len(hunk) \in Nat /\ Len(hunk) # 0
      /\ from + Len(hunk) <= Top + 1
      /\ \A i \in 1..Len(hunk) : from + i - 1 \in DOMAIN data /\ hunk[i] = data[from + i - 1]
    BY <1>3 DEF IsHunkOf
<1>5. IsCutting(pieces', hunk) /\ pieces' # <<>>
    BY <1>1, <1>4, CutIs
<1>6. PiecesFit'
    BY <1>5 DEF PiecesFit, IsCutting
<1>7. Pending' = hunk
    <2>1. Pending' = FlattenSeq(AllBytes(pieces'))
        BY DEF Pending, AllBytes
    <2>. QED
        BY <1>5, <2>1 DEF IsCutting
<1>8. from \in Nat /\ from \in Addresses /\ DOMAIN data \subseteq Nat
    BY <1>1, <1>2 DEF IsPatchVec, Addresses
<1>9. TypeOKWriter'
    <2>1. pieces' \in Seq(PieceSet) /\ Len(pieces') \in Nat /\ Len(pieces') # 0
        BY <1>5, <1>6 DEF PiecesFit
    <2>2. \A k \in DOMAIN pieces' : pieces'[k].bytes # <<>>
        BY <1>6, <2>1 DEF PiecesFit, IsGood
    <2>3. 1 <= Len(pieces')
        BY <2>1
    <2>4. from + Len(hunk) \in 0..(Top + 1)
        BY <1>4, <1>8
    <2>5. (line \in 1..(Len(lines) + 1))'
        BY <1>1 DEF WInv, TypeOKWriter
    <2>. QED
        BY <1>1, <1>8, <2>2, <2>3, <2>4, <2>5 DEF TypeOKWriter
<1>10. PhasesFit'
    BY <1>1, <1>5 DEF PhasesFit
<1>11. PendingFits'
    BY <1>1, <1>4, <1>7 DEF PendingFits
<1>12. LinesFit' /\ \A a : InLines(a)' <=> InLines(a)
    BY <1>1 DEF WInv, LinesFit, InLines
<1>13. Here' = from..(from + Len(hunk) - 1) /\ Here = {}
    <2>1. Len(Pending) = 0
        BY <1>1, PendingType DEF WInv
    <2>2. Here = {}
        BY <2>1 DEF Here, WInv, TypeOKWriter, Addresses
    <2>. QED
        BY <1>1, <1>7, <2>2 DEF Here
<1>14. \A a : (a \in DOMAIN data /\ a < next) <=> InLines(a)
    BY <1>13 DEF WInv, TakenFits
<1>15. \A a \in from..(from + Len(hunk) - 1) : a \in DOMAIN data /\ a < from + Len(hunk)
    <2> TAKE a \in from..(from + Len(hunk) - 1)
    <2>1. a - from + 1 \in 1..Len(hunk) /\ from + (a - from + 1) - 1 = a
        BY <1>4, <1>8
    <2>2. from + (a - from + 1) - 1 \in DOMAIN data
        BY <1>4, <2>1
    <2>3. a < from + Len(hunk)
        BY <1>4, <1>8
    <2>. QED
        BY <2>1, <2>2, <2>3
<1>16. TakenFits'
    <2>1. ASSUME NEW a, a \in DOMAIN data, a < from + Len(hunk)
          PROVE  a \in from..(from + Len(hunk) - 1) \/ InLines(a)
        <3>1. a \in Nat
            BY <1>8, <2>1
        <3>2. CASE a < next
            BY <1>14, <2>1, <3>2
        <3>3. CASE ~(a < next)
            <4>1. from <= a
                BY <1>1, <1>2, <2>1, <3>1, <3>3
            <4>. QED
                BY <1>4, <1>8, <2>1, <3>1, <4>1
        <3>. QED
            BY <3>2, <3>3
    <2>2. ASSUME NEW a, InLines(a) PROVE a \in DOMAIN data /\ a < from + Len(hunk)
        <3>1. a \in DOMAIN data /\ a < next
            BY <1>14, <2>2
        <3>. QED
            BY <1>1, <1>2, <1>4, <1>8, <3>1
    <2>. QED
        BY <1>1, <1>12, <1>13, <1>15, <2>1, <2>2 DEF TakenFits
<1>17. ApartFits'
    <2>1. ASSUME NEW k \in 1..Len(lines), NEW a \in Place(data, lines[k])
          PROVE  a < from /\ \A j \in 1..(k - 1) : a \notin Place(data, lines[j])
        <3>1. InLines(a)
            BY DEF InLines
        <3>2. a \in DOMAIN data /\ a < next
            BY <1>14, <3>1
        <3>3. a < from
            BY <1>1, <1>2, <1>8, <3>2
        <3>. QED
            BY <3>3 DEF WInv, ApartFits
    <2>. QED
        BY <1>1, <2>1 DEF ApartFits
<1>. QED
    BY <1>6, <1>9, <1>10, <1>11, <1>12, <1>16, <1>17 DEF WInv

\* Steps that only turn to what is next.
LEMMA TurningKeeps ==
    ASSUME WInv, data' = data, next' = next, base' = base, pieces' = pieces, lines' = lines,
           TypeOKWriter', PhasesFit'
    PROVE  WInv'
<1>1. Pending' = Pending
    BY DEF Pending
<1>2. PiecesFit' /\ PendingFits' /\ LinesFit'
    BY <1>1 DEF WInv, PiecesFit, PendingFits, LinesFit
<1>3. Here' = Here /\ \A a : InLines(a)' <=> InLines(a)
    BY <1>1 DEF Here, InLines
<1>4. TakenFits' /\ ApartFits'
    BY <1>3 DEF WInv, TakenFits, ApartFits
<1>. QED
    BY <1>2, <1>4 DEF WInv

LEMMA TurnsKeep ==
    ASSUME WInv, KeepApart \/ StartWriting \/ HunkWritten \/ FileWritten \/ UNCHANGED writerVars
    PROVE  WInv'
<1>1. data' = data /\ next' = next /\ base' = base /\ pieces' = pieces /\ lines' = lines
      /\ line' = line /\ back' = back
    BY DEF KeepApart, StartWriting, HunkWritten, FileWritten, writerVars
<1>2. Len(pieces) \in Nat /\ at \in Nat
    BY DEF WInv, PiecesFit, TypeOKWriter
<1>3. TypeOKWriter'
    BY <1>1, <1>2 DEF WInv, TypeOKWriter, KeepApart, StartWriting, HunkWritten, FileWritten, writerVars
<1>4. PhasesFit'
    BY <1>1 DEF WInv, PhasesFit, KeepApart, StartWriting, HunkWritten, FileWritten, writerVars
<1>. QED
    BY <1>1, <1>3, <1>4, TurningKeeps

\* x between f and e.
IsInsert(a, T, f, x, e) ==
    /\ a \in Seq(T) /\ Len(a) = Len(f) + 1 + Len(e)
    /\ \A k \in 1..Len(f) : a[k] = f[k]
    /\ a[Len(f) + 1] = x
    /\ \A k \in 1..Len(e) : a[Len(f) + 1 + k] = e[k]

LEMMA InsertIs ==
    ASSUME NEW T, NEW f \in Seq(T), NEW x \in T, NEW e \in Seq(T)
    PROVE  IsInsert(f \o (<<x>> \o e), T, f, x, e)
<1> DEFINE b == <<x>> \o e
<1>1. /\ b \in Seq(T) /\ Len(b) = 1 + Len(e) /\ b[1] = x
      /\ \A k \in 1..Len(e) : b[1 + k] = e[k]
    BY ConsIs
<1> HIDE DEF b
<1>2. /\ f \o b \in Seq(T) /\ Len(f \o b) = Len(f) + Len(b)
      /\ \A k \in 1..Len(f) : (f \o b)[k] = f[k]
      /\ \A k \in 1..Len(b) : (f \o b)[Len(f) + k] = b[k]
    <2>1. b \in Seq(T)
        BY <1>1
    <2>. QED
        BY <2>1
<1>3. Len(f) \in Nat /\ Len(e) \in Nat
    OBVIOUS
<1>4. Len(f \o b) = Len(f) + 1 + Len(e)
    BY <1>1, <1>2, <1>3
<1>5. (f \o b)[Len(f) + 1] = x
    <2>1. 1 \in 1..Len(b)
        BY <1>1, <1>3
    <2>. QED
        BY <1>1, <1>2, <2>1
<1>6. ASSUME NEW k \in 1..Len(e) PROVE (f \o b)[Len(f) + 1 + k] = e[k]
    <2>1. 1 + k \in 1..Len(b) /\ Len(f) + (1 + k) = Len(f) + 1 + k
        BY <1>1, <1>3
    <2>2. (f \o b)[Len(f) + (1 + k)] = b[1 + k]
        BY <1>2, <2>1
    <2>. QED
        BY <1>1, <2>1, <2>2
<1>. QED
    BY <1>2, <1>4, <1>5, <1>6 DEF b, IsInsert

\* Two neighbours made one: the bytes stay, and so does what is before and behind them.
LEMMA JoinedIs ==
    ASSUME NEW ps \in Seq(PieceSet), NEW n \in 1..(Len(ps) - 1), NEW r \in PieceSet,
           r.bytes = ps[n].bytes \o ps[n + 1].bytes
    PROVE  LET qs == ReplaceAt(RemoveAt(ps, n + 1), n, r)
           IN  /\ qs \in Seq(PieceSet) /\ Len(qs) = Len(ps) - 1
               /\ \A k \in 1..(Len(ps) - 1) :
                     qs[k] = IF k < n THEN ps[k] ELSE IF k = n THEN r ELSE ps[k + 1]
               /\ FlattenSeq(AllBytes(qs)) = FlattenSeq(AllBytes(ps))
<1> DEFINE N == Len(ps)
           T == PieceSet
           removed == RemoveAt(ps, n + 1)
           qs == ReplaceAt(removed, n, r)
           front == SubSeq(ps, 1, n - 1)
           end == SubSeq(ps, n + 2, N)
           p == ps[n]
           q == ps[n + 1]
<1>1. /\ ps \in Seq(T) /\ N \in Nat /\ n \in Nat /\ n # 0 /\ n + 1 <= N /\ r \in T
      /\ p \in T /\ q \in T
    OBVIOUS
<1>2. /\ front \in Seq(T) /\ Len(front) = n - 1 /\ \A k \in 1..(n - 1) : front[k] = ps[k]
      /\ end \in Seq(T) /\ Len(end) = N - n - 1 /\ \A k \in 1..(N - n - 1) : end[k] = ps[n + 1 + k]
    <2> HIDE DEF T
    <2>1. front \in Seq(T) /\ Len(front) = n - 1 /\ \A k \in 1..(n - 1) : front[k] = ps[k]
        BY <1>1
    <2>2. end \in Seq(T) /\ Len(end) = N - n - 1 /\ \A k \in 1..(N - n - 1) : end[k] = ps[n + 1 + k]
        BY <1>1
    <2>. QED
        BY <2>1, <2>2
<1>3. /\ removed \in Seq(T) /\ Len(removed) = N - 1
      /\ \A k \in 1..(N - 1) : removed[k] = IF k <= n THEN ps[k] ELSE ps[k + 1]
    <2> HIDE DEF T
    <2> DEFINE a == SubSeq(ps, 1, n)
               b == SubSeq(ps, n + 2, N)
    <2>1. removed = a \o b
        <3>1. (n + 1) - 1 = n /\ (n + 1) + 1 = n + 2
            BY <1>1
        <3>. QED
            BY <3>1 DEF RemoveAt
    <2>2. /\ a \in Seq(T) /\ Len(a) = n /\ \A k \in 1..n : a[k] = ps[k]
          /\ b \in Seq(T) /\ Len(b) = N - n - 1 /\ \A k \in 1..(N - n - 1) : b[k] = ps[n + 1 + k]
        <3>1. a \in Seq(T) /\ Len(a) = n /\ \A k \in 1..n : a[k] = ps[k]
            BY <1>1
        <3>2. b \in Seq(T) /\ Len(b) = N - n - 1 /\ \A k \in 1..(N - n - 1) : b[k] = ps[n + 1 + k]
            BY <1>1
        <3>. QED
            BY <3>1, <3>2
    <2> HIDE DEF a, b, removed
    <2>3. /\ a \o b \in Seq(T) /\ Len(a \o b) = Len(a) + Len(b)
          /\ \A k \in 1..Len(a) : (a \o b)[k] = a[k]
          /\ \A k \in 1..Len(b) : (a \o b)[Len(a) + k] = b[k]
        <3>1. a \in Seq(T) /\ b \in Seq(T)
            BY <2>2
        <3>. QED
            BY <3>1
    <2>4. ASSUME NEW k \in 1..(N - 1)
          PROVE  (a \o b)[k] = IF k <= n THEN ps[k] ELSE ps[k + 1]
        <3>1. CASE k <= n
            <4>1. k \in 1..n
                BY <1>1, <3>1
            <4>. QED
                BY <2>2, <2>3, <3>1, <4>1
        <3>2. CASE ~(k <= n)
            <4>1. k - n \in 1..(N - n - 1) /\ n + (k - n) = k /\ n + 1 + (k - n) = k + 1
                BY <1>1, <3>2
            <4>2. (a \o b)[n + (k - n)] = b[k - n] /\ b[k - n] = ps[n + 1 + (k - n)]
                BY <2>2, <2>3, <4>1
            <4>. QED
                BY <3>2, <4>1, <4>2
        <3>. QED
            BY <3>1, <3>2
    <2>5. Len(a \o b) = N - 1
        BY <1>1, <2>2, <2>3
    <2>. QED
        BY <2>1, <2>3, <2>4, <2>5
<1> HIDE DEF removed
<1>4. /\ qs \in Seq(T) /\ Len(qs) = N - 1
      /\ \A k \in 1..(N - 1) : qs[k] = IF k < n THEN ps[k] ELSE IF k = n THEN r ELSE ps[k + 1]
    <2>1. qs = [removed EXCEPT ![n] = r]
        BY DEF ReplaceAt
    <2> HIDE DEF T, qs
    <2>2. qs \in Seq(T) /\ Len(qs) = N - 1 /\ \A k \in 1..(N - 1) : qs[k] = IF k = n THEN r ELSE removed[k]
        BY <1>1, <1>3, <2>1
    <2>3. ASSUME NEW k \in 1..(N - 1)
          PROVE  qs[k] = IF k < n THEN ps[k] ELSE IF k = n THEN r ELSE ps[k + 1]
        <3>1. k = n => ~(k < n)
            BY <1>1
        <3>2. k <= n <=> k < n \/ k = n
            BY <1>1
        <3>. QED
            BY <1>3, <2>2, <3>1, <3>2
    <2>. QED
        BY <2>2, <2>3
<1> HIDE DEF T, qs, front, end, p, q
<1>6. qs = front \o (<<r>> \o end)
    <2> DEFINE a == front \o (<<r>> \o end)
    <2>1. /\ a \in Seq(T) /\ Len(a) = Len(front) + 1 + Len(end)
          /\ \A k \in 1..Len(front) : a[k] = front[k]
          /\ a[Len(front) + 1] = r
          /\ \A k \in 1..Len(end) : a[Len(front) + 1 + k] = end[k]
        <3>1. front \in Seq(T) /\ r \in T /\ end \in Seq(T)
            BY <1>1, <1>2
        <3>2. IsInsert(front \o (<<r>> \o end), T, front, r, end)
            BY <3>1, InsertIs
        <3>. QED
            BY <3>2 DEF IsInsert, a
    <2> HIDE DEF a
    <2>2. ASSUME NEW k \in 1..(N - 1) PROVE qs[k] = a[k]
        <3>2. CASE k < n
            <4>1. k \in 1..(n - 1)
                BY <1>1, <3>2
            <4>. QED
                BY <1>2, <1>4, <2>1, <3>2, <4>1
        <3>3. CASE k = n
            <4>1. Len(front) + 1 = k /\ ~(k < n)
                BY <1>1, <1>2, <3>3
            <4>. QED
                BY <1>4, <2>1, <3>3, <4>1
        <3>4. CASE k > n
            <4>1. /\ k - n \in 1..(N - n - 1) /\ n + 1 + (k - n) = k + 1 /\ ~(k < n) /\ k # n
                  /\ Len(front) + 1 + (k - n) = k
                BY <1>1, <1>2, <3>4
            <4>2. end[k - n] = ps[n + 1 + (k - n)]
                BY <1>2, <4>1
            <4>3. a[Len(front) + 1 + (k - n)] = end[k - n]
                BY <1>2, <2>1, <4>1
            <4>. QED
                BY <1>4, <4>1, <4>2, <4>3
        <3>. QED
            BY <1>1, <3>2, <3>3, <3>4
    <2>3. Len(a) = N - 1
        BY <1>1, <1>2, <2>1
    <2>4. qs = a
        BY <1>4, <2>1, <2>2, <2>3, SameSequence
    <2>. QED
        BY <2>4 DEF a
<1>7. ps = front \o (<<p>> \o (<<q>> \o end))
    <2> DEFINE b == <<q>> \o end
               a == front \o (<<p>> \o b)
    <2>0. /\ b \in Seq(T) /\ Len(b) = 1 + Len(end) /\ b[1] = q
          /\ \A k \in 1..Len(end) : b[1 + k] = end[k]
        BY <1>1, <1>2, ConsIs
    <2> HIDE DEF b
    <2>1. /\ a \in Seq(T) /\ Len(a) = Len(front) + 1 + Len(b)
          /\ \A k \in 1..Len(front) : a[k] = front[k]
          /\ a[Len(front) + 1] = p
          /\ \A k \in 1..Len(b) : a[Len(front) + 1 + k] = b[k]
        <3>1. front \in Seq(T) /\ p \in T /\ b \in Seq(T)
            BY <1>1, <1>2, <2>0
        <3>2. IsInsert(front \o (<<p>> \o b), T, front, p, b)
            BY <3>1, InsertIs
        <3>. QED
            BY <3>2 DEF IsInsert, a
    <2> HIDE DEF a
    <2>2. ASSUME NEW k \in 1..N PROVE ps[k] = a[k]
        <3>2. CASE k < n
            <4>1. k \in 1..(n - 1)
                BY <1>1, <3>2
            <4>. QED
                BY <1>2, <2>1, <4>1
        <3>3. CASE k = n
            <4>1. Len(front) + 1 = k
                BY <1>1, <1>2, <3>3
            <4>. QED
                BY <2>1, <3>3, <4>1 DEF p
        <3>4. CASE k = n + 1
            <4>1. Len(front) + 1 + 1 = k /\ 1 \in 1..Len(b)
                BY <1>1, <1>2, <2>0, <3>4
            <4>. QED
                BY <2>0, <2>1, <3>4, <4>1 DEF q
        <3>5. CASE k > n + 1
            <4>1. /\ k - n - 1 \in 1..(N - n - 1) /\ n + 1 + (k - n - 1) = k
                  /\ 1 + (k - n - 1) \in 1..Len(b) /\ Len(front) + 1 + (1 + (k - n - 1)) = k
                BY <1>1, <1>2, <2>0, <3>5
            <4>2. end[k - n - 1] = ps[n + 1 + (k - n - 1)]
                BY <1>2, <4>1
            <4>3. b[1 + (k - n - 1)] = end[k - n - 1]
                BY <1>2, <2>0, <4>1
            <4>4. a[Len(front) + 1 + (1 + (k - n - 1))] = b[1 + (k - n - 1)]
                BY <2>1, <4>1
            <4>. QED
                BY <4>1, <4>2, <4>3, <4>4
        <3>. QED
            BY <1>1, <3>2, <3>3, <3>4, <3>5
    <2>3. Len(a) = N
        BY <1>1, <1>2, <2>0, <2>1
    <2>4. ps = a
        BY <1>1, <2>1, <2>2, <2>3, SameSequence
    <2>. QED
        BY <2>4 DEF a, b
<1>8. ASSUME NEW s \in Seq(T), NEW t \in Seq(T)
      PROVE  /\ FlattenSeq(AllBytes(s \o t)) = FlattenSeq(AllBytes(s)) \o FlattenSeq(AllBytes(t))
             /\ FlattenSeq(AllBytes(s)) \in Seq(Bytes)
    <2>1. AllBytes(s) \in Seq(Seq(Bytes)) /\ AllBytes(t) \in Seq(Seq(Bytes))
        BY AllBytesAre DEF T
    <2>2. AllBytes(s \o t) = AllBytes(s) \o AllBytes(t)
        BY AllBytesJoin DEF T
    <2>. QED
        BY <2>1, <2>2, FlattenJoin, FlattenType
<1>9. ASSUME NEW x \in T, NEW t \in Seq(T)
      PROVE  /\ <<x>> \o t \in Seq(T) /\ x.bytes \in Seq(Bytes)
             /\ FlattenSeq(AllBytes(<<x>> \o t)) = x.bytes \o FlattenSeq(AllBytes(t))
    <2>1. x.bytes \in Seq(Bytes)
        BY DEF T, PieceSet
    <2>2. AllBytes(<<x>>) = <<x.bytes>>
        BY DEF AllBytes
    <2>3. <<x>> \in Seq(T)
        OBVIOUS
    <2>4. FlattenSeq(AllBytes(<<x>> \o t)) = FlattenSeq(<<x.bytes>>) \o FlattenSeq(AllBytes(t))
        BY <1>8, <2>2, <2>3
    <2>5. FlattenSeq(<<x.bytes>>) = x.bytes
        BY <2>1, FlattenOne
    <2>6. <<x>> \o t \in Seq(T)
        BY ConsIs
    <2>. QED
        BY <2>1, <2>4, <2>5, <2>6
<1> DEFINE F(s) == FlattenSeq(AllBytes(s))
           re == <<r>> \o end
           qe == <<q>> \o end
           pe == <<p>> \o qe
<1>10. /\ re \in Seq(T) /\ F(re) = r.bytes \o F(end)
       /\ qe \in Seq(T) /\ F(qe) = q.bytes \o F(end)
    BY <1>1, <1>2, <1>9
<1>11. pe \in Seq(T) /\ F(pe) = p.bytes \o F(qe)
    <2> HIDE DEF qe
    <2>. QED
        BY <1>1, <1>9, <1>10
<1>12. qs = front \o re /\ ps = front \o pe
    BY <1>6, <1>7
<1> HIDE DEF re, qe, pe
<1>13. F(qs) = F(front) \o F(re) /\ F(ps) = F(front) \o F(pe)
    BY <1>2, <1>8, <1>10, <1>11, <1>12
<1>14. p.bytes \in Seq(Bytes) /\ q.bytes \in Seq(Bytes) /\ F(end) \in Seq(Bytes)
    BY <1>1, <1>2, <1>8, <1>9
<1> HIDE DEF F
<1>15. F(re) = F(pe)
    <2>1. \A x, y, z \in Seq(Bytes) : (x \o y) \o z = x \o (y \o z)
        OBVIOUS
    <2>2. r.bytes = p.bytes \o q.bytes
        BY DEF p, q
    <2>3. (p.bytes \o q.bytes) \o F(end) = p.bytes \o (q.bytes \o F(end))
        BY <1>14, <2>1
    <2>. QED
        BY <1>10, <1>11, <2>2, <2>3
<1>. QED
    BY <1>4, <1>13, <1>15 DEF F, T, qs, removed

LEMMA JoinNextKeeps ==
    ASSUME WInv, JoinNext
    PROVE  WInv'
<1> DEFINE N == Len(pieces)
           joined == pieces[at].bytes \o pieces[at + 1].bytes
           r == [bytes |-> joined, length |-> NoString]
           qs == ReplaceAt(RemoveAt(pieces, at + 1), at, r)
<1>1. /\ phase = "joining" /\ at < N /\ pieces' = qs
      /\ data' = data /\ next' = next /\ base' = base /\ at' = at /\ phase' = phase
      /\ lines' = lines /\ line' = line /\ back' = back
    BY DEF JoinNext
<1>2. /\ pieces \in Seq(PieceSet) /\ N \in Nat /\ at \in 1..(N - 1) /\ at \in Nat
      /\ \A k \in 1..N : IsGood(pieces[k]) /\ pieces[k] \in PieceSet
      /\ \A k \in 1..(N - 1) : Obstructed(pieces[k].bytes)
    BY <1>1 DEF WInv, TypeOKWriter, PiecesFit
<1>3. /\ pieces[at].bytes \in Seq(Bytes) /\ pieces[at + 1].bytes \in Seq(Bytes)
      /\ pieces[at].bytes # <<>> /\ pieces[at + 1].bytes # <<>> /\ Obstructed(pieces[at].bytes)
    <2>1. at \in 1..N /\ at + 1 \in 1..N
        BY <1>2
    <2>. QED
        BY <1>2, <2>1 DEF IsGood, PieceSet
<1>4. /\ joined \in Seq(Bytes) /\ joined # <<>> /\ Obstructed(joined)
      /\ StringLength(joined) = NoString
    <2> DEFINE x == pieces[at].bytes
               y == pieces[at + 1].bytes
    <2>1. /\ x \in Seq(Bytes) /\ y \in Seq(Bytes) /\ Obstructed(x)
          /\ Len(y) \in Nat /\ Len(y) # 0 /\ Len(x) \in Nat
        BY <1>3
    <2> HIDE DEF x, y
    <2>2. /\ x \o y \in Seq(Bytes) /\ Len(x \o y) = Len(x) + Len(y)
          /\ \A k \in 1..Len(x) : (x \o y)[k] = x[k]
        BY <2>1
    <2>3. PICK i \in 1..Len(x) : Obstacle(x[i])
        BY <2>1 DEF Obstructed
    <2>4. /\ Obstacle((x \o y)[i]) /\ i \in 1..Len(x \o y) /\ i \in 1..(Len(x \o y) - 1)
        BY <2>1, <2>2, <2>3
    <2>5. Obstructed(x \o y) /\ ~IsWritable(x \o y)
        BY <2>4 DEF Obstructed, IsWritable
    <2>6. StringLength(x \o y) = NoString
        BY <2>2, <2>5, StringLengthIs
    <2>7. x \o y # <<>>
        BY <2>1, <2>2
    <2>. QED
        BY <2>2, <2>5, <2>6, <2>7 DEF x, y
<1> HIDE DEF joined
<1>5. r \in PieceSet /\ IsGood(r) /\ Obstructed(r.bytes) /\ r.bytes = joined
    BY <1>4 DEF PieceSet, IsGood, NoString
<1> HIDE DEF r
<1>6. /\ qs \in Seq(PieceSet) /\ Len(qs) = N - 1
      /\ \A k \in 1..(N - 1) : qs[k] = IF k < at THEN pieces[k] ELSE IF k = at THEN r ELSE pieces[k + 1]
      /\ FlattenSeq(AllBytes(qs)) = FlattenSeq(AllBytes(pieces))
    <2>1. r.bytes = pieces[at].bytes \o pieces[at + 1].bytes
        BY <1>5 DEF joined
    <2>. QED
        BY <1>2, <1>5, <2>1, JoinedIs
<1> HIDE DEF qs
<1>7. PiecesFit'
    <2>1. ASSUME NEW k \in 1..(N - 1) PROVE IsGood(qs[k])
        <3>1. k \in 1..N /\ k + 1 \in 1..N
            BY <1>2
        <3>. QED
            BY <1>2, <1>5, <1>6, <3>1
    <2>2. ASSUME NEW k \in 1..(N - 1 - 1) PROVE Obstructed(qs[k].bytes)
        <3>1. k \in 1..(N - 1) /\ k + 1 \in 1..(N - 1)
            BY <1>2
        <3>. QED
            BY <1>2, <1>5, <1>6, <3>1
    <2>. QED
        BY <1>1, <1>6, <2>1, <2>2 DEF PiecesFit
<1>8. Pending' = Pending
    BY <1>1, <1>6 DEF Pending, AllBytes
<1>9. qs # <<>> /\ pieces # <<>>
    <2>1. N - 1 # 0 /\ N # 0
        BY <1>2
    <2>2. Len(qs) # 0 /\ Len(pieces) # 0
        BY <1>6, <2>1
    <2>. QED
        BY <2>2
<1>10. TypeOKWriter'
    <2>1. \A k \in DOMAIN pieces' : pieces'[k].bytes # <<>>
        <3>1. DOMAIN pieces' = 1..Len(pieces')
            BY <1>7 DEF PiecesFit
        <3>. QED
            BY <1>7, <3>1 DEF PiecesFit, IsGood
    <2>2. at <= N - 1
        BY <1>2
    <2>. QED
        BY <1>1, <1>6, <2>1, <2>2 DEF WInv, TypeOKWriter
<1>11. PhasesFit'
    BY <1>1, <1>9 DEF WInv, PhasesFit
<1>12. PendingFits' /\ LinesFit'
    BY <1>1, <1>8, <1>9 DEF WInv, PendingFits, LinesFit
<1>13. Here' = Here /\ \A a : InLines(a)' <=> InLines(a)
    BY <1>1, <1>8 DEF Here, InLines
<1>14. TakenFits'
    BY <1>1, <1>13 DEF WInv, TakenFits
<1>15. ApartFits'
    BY <1>1, <1>9 DEF WInv, ApartFits
<1>. QED
    BY <1>7, <1>10, <1>11, <1>12, <1>14, <1>15 DEF WInv

\* A good piece on a line says its bytes.
LEMMA LineSays ==
    ASSUME NEW p \in PieceSet, IsGood(p), NEW a \in Addresses, a + Len(p.bytes) <= Top + 1,
           NEW d, \A i \in 1..Len(p.bytes) : a + i - 1 \in DOMAIN d /\ d[a + i - 1] = p.bytes[i]
    PROVE  /\ Line(a, p) \in LineSet /\ Line(a, p).address = a
           /\ Says(d, Line(a, p), p.bytes)
<1> DEFINE s == p.bytes
<1>1. s \in Seq(Bytes) /\ s # <<>> /\ p.length = StringLength(s)
    BY DEF PieceSet, IsGood
<1>2. CASE p.length # NoString
    <2>1. Line(a, p) = [address |-> a, form |-> "string", text |-> WriteString(s)]
        BY <1>2 DEF Line
    <2>2. IsWritable(s) /\ WriteString(s) \in Seq(Tokens)
        BY <1>1, <1>2, StringLengthIs, WriteStringType
    <2>. QED
        BY <1>1, <2>1, <2>2 DEF LineSet, Says
<1>3. CASE p.length = NoString
    <2>1. Line(a, p) = [address |-> a, form |-> "hex", text |-> s]
        BY <1>3 DEF Line
    <2>2. s \in Seq(Tokens)
        BY <1>1 DEF Tokens
    <2>. QED
        BY <1>1, <2>1, <2>2 DEF LineSet, Says
<1>. QED
    BY <1>2, <1>3

LEMMA FirstPieceIs ==
    ASSUME NEW ps \in Seq(PieceSet), ps # <<>>
    PROVE  /\ Head(ps) = ps[1] /\ ps[1] \in PieceSet
           /\ Tail(ps) \in Seq(PieceSet) /\ Len(Tail(ps)) = Len(ps) - 1
           /\ \A k \in 1..(Len(ps) - 1) : Tail(ps)[k] = ps[k + 1]
           /\ FlattenSeq(AllBytes(Tail(ps))) \in Seq(Bytes)
           /\ FlattenSeq(AllBytes(ps)) = ps[1].bytes \o FlattenSeq(AllBytes(Tail(ps)))
<1> DEFINE T == PieceSet
           N == Len(ps)
           p == ps[1]
           t == Tail(ps)
<1>1. /\ Head(ps) = p /\ p \in T /\ N \in Nat /\ N # 0
      /\ t \in Seq(T) /\ Len(t) = N - 1 /\ \A k \in 1..(N - 1) : t[k] = ps[k + 1]
    <2> HIDE DEF T
    <2>1. ps \in Seq(T)
        BY DEF T
    <2>2. N \in Nat /\ N # 0
        BY <2>1
    <2>. QED
        BY <2>1, <2>2
<1> HIDE DEF p, t
<1>2. ps = <<p>> \o t
    <2>1. /\ <<p>> \o t \in Seq(T) /\ Len(<<p>> \o t) = 1 + Len(t)
          /\ (<<p>> \o t)[1] = p
          /\ \A k \in 1..Len(t) : (<<p>> \o t)[1 + k] = t[k]
        BY <1>1, ConsIs
    <2> DEFINE a == <<p>> \o t
    <2> HIDE DEF a
    <2>2. ASSUME NEW k \in 1..N PROVE ps[k] = a[k]
        <3>1. CASE k = 1
            BY <2>1, <3>1 DEF a, p
        <3>2. CASE k # 1
            <4>1. k - 1 \in 1..(N - 1) /\ 1 + (k - 1) = k /\ (k - 1) + 1 = k
                BY <1>1, <3>2
            <4>2. a[1 + (k - 1)] = t[k - 1]
                BY <1>1, <2>1, <4>1 DEF a
            <4>3. t[k - 1] = ps[(k - 1) + 1]
                BY <1>1, <4>1
            <4>. QED
                BY <4>1, <4>2, <4>3
        <3>. QED
            BY <3>1, <3>2
    <2>3. a \in Seq(T) /\ Len(a) = N
        BY <1>1, <2>1 DEF a
    <2>4. ps = a
        BY <2>2, <2>3, SameSequence
    <2>. QED
        BY <2>4 DEF a
<1>3. p.bytes \in Seq(Bytes) /\ AllBytes(<<p>>) = <<p.bytes>>
    BY <1>1 DEF AllBytes, PieceSet
<1>4. AllBytes(t) \in Seq(Seq(Bytes)) /\ <<p.bytes>> \in Seq(Seq(Bytes))
    <2>1. AllBytes(t) \in Seq(Seq(Bytes))
        BY <1>1, AllBytesAre
    <2> DEFINE Q == Seq(Bytes)
    <2>2. p.bytes \in Q
        BY <1>3
    <2> HIDE DEF Q
    <2>3. <<p.bytes>> \in Seq(Q)
        BY <2>2
    <2>. QED
        BY <2>1, <2>3 DEF Q
<1>5. AllBytes(ps) = <<p.bytes>> \o AllBytes(t)
    <2>1. <<p>> \in Seq(PieceSet)
        BY <1>1
    <2>. QED
        BY <1>1, <1>2, <1>3, <2>1, AllBytesJoin
<1>6. FlattenSeq(AllBytes(ps)) = p.bytes \o FlattenSeq(AllBytes(t))
    <2>1. FlattenSeq(<<p.bytes>> \o AllBytes(t)) = FlattenSeq(<<p.bytes>>) \o FlattenSeq(AllBytes(t))
        BY <1>4, FlattenJoin
    <2>2. FlattenSeq(<<p.bytes>>) = p.bytes
        BY <1>3, FlattenOne
    <2>. QED
        BY <1>5, <2>1, <2>2
<1>7. FlattenSeq(AllBytes(t)) \in Seq(Bytes)
    BY <1>4, FlattenType
<1>. QED
    BY <1>1, <1>6, <1>7 DEF p, t

LEMMA WriteLineKeeps ==
    ASSUME WInv, WriteLine
    PROVE  WInv'
<1> USE TopIsNat
<1> DEFINE N == Len(pieces)
           p == Head(pieces)
           t == Tail(pieces)
           l == Line(base, p)
           n == Len(p.bytes)
           rest == FlattenSeq(AllBytes(t))
           M == Len(lines)
<1>1. /\ phase = "writing" /\ pieces # <<>> /\ pieces' = t /\ lines' = Append(lines, l)
      /\ base' = Plus(base, n)
      /\ data' = data /\ next' = next /\ at' = at /\ phase' = phase
      /\ line' = line /\ back' = back
    BY DEF WriteLine
<1>2. /\ pieces \in Seq(PieceSet) /\ N \in Nat /\ N # 0
      /\ \A k \in 1..N : IsGood(pieces[k])
      /\ \A k \in 1..(N - 1) : Obstructed(pieces[k].bytes)
      /\ base \in Addresses /\ base \in Nat /\ next \in 0..(Top + 1) /\ IsPatchVec(data)
      /\ lines \in Seq(LineSet) /\ M \in Nat
      /\ \A k \in 1..M : lines[k] \in LineSet /\ Says(data, lines[k], Said(data, lines[k]))
    BY <1>1 DEF WInv, TypeOKWriter, PiecesFit, LinesFit, Addresses
<1>3. /\ p = pieces[1] /\ p \in PieceSet /\ p.bytes \in Seq(Bytes)
      /\ t \in Seq(PieceSet) /\ Len(t) = N - 1 /\ \A k \in 1..(N - 1) : t[k] = pieces[k + 1]
      /\ rest \in Seq(Bytes)
      /\ FlattenSeq(AllBytes(pieces)) = p.bytes \o rest
    <2>1. pieces[1] \in PieceSet => pieces[1].bytes \in Seq(Bytes)
        BY DEF PieceSet
    <2>. QED
        BY <1>1, <1>2, <2>1, FirstPieceIs
<1>4. Pending = p.bytes \o rest /\ Pending' = rest
    <2>1. Pending' = FlattenSeq(AllBytes(pieces'))
        BY DEF Pending, AllBytes
    <2>2. Pending = FlattenSeq(AllBytes(pieces))
        BY DEF Pending, AllBytes
    <2>. QED
        BY <1>1, <1>3, <2>1, <2>2
<1>5. IsGood(p)
    BY <1>2, <1>3
<1> HIDE DEF p, t, l, rest
<1>6. n \in Nat /\ n # 0 /\ Len(rest) \in Nat
    <2>1. p.bytes # <<>>
        BY <1>5 DEF IsGood
    <2>. QED
        BY <1>3, <2>1
<1>7. /\ Len(Pending) = n + Len(rest)
      /\ \A i \in 1..n : Pending[i] = p.bytes[i]
      /\ \A i \in 1..Len(rest) : Pending[n + i] = rest[i]
    BY <1>3, <1>4
<1> HIDE DEF n
<1>8. /\ base + n + Len(rest) = next
      /\ \A i \in 1..(n + Len(rest)) : base + i - 1 \in DOMAIN data /\ data[base + i - 1] = Pending[i]
    BY <1>1, <1>2, <1>6, <1>7 DEF WInv, PendingFits
<1>9. base + n <= Top + 1 /\ base + n <= next
    BY <1>2, <1>6, <1>8
<1>10. /\ l \in LineSet /\ l.address = base /\ Says(data, l, p.bytes)
       /\ Said(data, l) = p.bytes /\ Place(data, l) = base..(base + n - 1)
    <2>1. ASSUME NEW i \in 1..n
          PROVE  base + i - 1 \in DOMAIN data /\ data[base + i - 1] = p.bytes[i]
        <3>1. i \in 1..(n + Len(rest))
            BY <1>6
        <3>. QED
            BY <1>7, <1>8, <3>1
    <2>2. l \in LineSet /\ l.address = base /\ Says(data, l, p.bytes)
        BY <1>2, <1>3, <1>5, <1>9, <2>1, LineSays DEF l, n
    <2>. QED
        BY <1>2, <2>2, SaidIs DEF n
<1>11. base' \in Addresses /\ (base + n # Top + 1 => base' = base + n)
    <2>1. base' = IF base + n = Top + 1 THEN 0 ELSE base + n
        BY <1>1, <1>2, <1>6, <1>9, PlusIs
    <2>. QED
        BY <1>2, <1>6, <1>9, <2>1 DEF Addresses
<1>12. ASSUME t # <<>>
       PROVE  Len(rest) # 0 /\ base + n # Top + 1 /\ base' = base + n
    <2>1. Len(t) \in Nat /\ Len(t) # 0
        <3>1. t \in Seq(PieceSet) /\ t # <<>>
            BY <1>3, <1>12
        <3>. QED
            BY <3>1
    <2>2. 1 \in 1..(N - 1) /\ 2 \in 1..N /\ t[1] = pieces[1 + 1] /\ t[1] \in PieceSet
        BY <1>2, <1>3, <2>1
    <2>3. IsGood(t[1])
        BY <1>2, <2>2
    <2>4. rest = t[1].bytes \o FlattenSeq(AllBytes(Tail(t))) /\ FlattenSeq(AllBytes(Tail(t))) \in Seq(Bytes)
        BY <1>3, <1>12, FirstPieceIs DEF rest
    <2>5. t[1].bytes \in Seq(Bytes) /\ t[1].bytes # <<>>
        BY <2>2, <2>3 DEF PieceSet, IsGood
    <2>6. Len(rest) # 0
        <3> DEFINE a == t[1].bytes
                   b == FlattenSeq(AllBytes(Tail(t)))
        <3>1. a \in Seq(Bytes) /\ b \in Seq(Bytes) /\ Len(a) # 0 /\ rest = a \o b
            BY <2>4, <2>5
        <3> HIDE DEF a, b
        <3>2. Len(rest) = Len(a) + Len(b) /\ Len(a) \in Nat /\ Len(b) \in Nat
            BY <3>1
        <3>. QED
            BY <3>1, <3>2
    <2>7. base + n # Top + 1
        BY <1>2, <1>6, <1>8, <2>6
    <2>. QED
        BY <1>11, <2>6, <2>7
<1>13. ASSUME t = <<>>
       PROVE  Len(rest) = 0
    <2>1. AllBytes(t) = <<>>
        BY <1>13 DEF AllBytes
    <2>. QED
        BY <2>1, FlattenNone DEF rest
<1>14. PiecesFit'
    <2>1. ASSUME NEW k \in 1..(N - 1) PROVE IsGood(t[k])
        <3>1. k + 1 \in 1..N
            BY <1>2
        <3>. QED
            BY <1>2, <1>3, <3>1
    <2>2. ASSUME NEW k \in 1..(N - 1 - 1) PROVE Obstructed(t[k].bytes)
        <3>1. k \in 1..(N - 1) /\ k + 1 \in 1..(N - 1)
            BY <1>2
        <3>. QED
            BY <1>2, <1>3, <3>1
    <2>. QED
        BY <1>1, <1>3, <2>1, <2>2 DEF PiecesFit
<1>15. PendingFits'
    <2>1. t # <<>> => base' + Len(rest) = next
        BY <1>8, <1>12
    <2>2. ASSUME NEW i \in 1..Len(rest)
          PROVE  base' + i - 1 \in DOMAIN data /\ data[base' + i - 1] = rest[i]
        <3>1. t # <<>>
            BY <1>13, <2>2
        <3>2. n + i \in 1..(n + Len(rest)) /\ base + (n + i) - 1 = base' + i - 1
            BY <1>2, <1>6, <1>12, <3>1
        <3>3. base + (n + i) - 1 \in DOMAIN data /\ data[base + (n + i) - 1] = Pending[n + i]
            BY <1>8, <3>2
        <3>. QED
            BY <1>7, <3>2, <3>3
    <2>. QED
        BY <1>1, <1>4, <2>1, <2>2 DEF PendingFits
<1>16. /\ lines' \in Seq(LineSet) /\ Len(lines') = M + 1 /\ lines'[M + 1] = l
       /\ \A k \in 1..M : lines'[k] = lines[k]
    BY <1>1, <1>2, <1>10, AppendIs
<1>17. LinesFit'
    <2>1. ASSUME NEW k \in 1..(M + 1) PROVE Says(data, lines'[k], Said(data, lines'[k]))
        <3>1. CASE k = M + 1
            BY <1>10, <1>16, <3>1
        <3>2. CASE k # M + 1
            <4>1. k \in 1..M
                BY <1>2, <3>2
            <4>. QED
                BY <1>2, <1>16, <4>1
        <3>. QED
            BY <3>1, <3>2
    <2>. QED
        BY <1>1, <1>16, <2>1 DEF LinesFit
<1>18. \A a : InLines(a)' <=> (InLines(a) \/ a \in base..(base + n - 1))
    <2>1. ASSUME NEW a, InLines(a)' PROVE InLines(a) \/ a \in base..(base + n - 1)
        <3>1. PICK k \in 1..(M + 1) : a \in Place(data, lines'[k])
            BY <1>1, <1>16, <2>1 DEF InLines
        <3>2. CASE k = M + 1
            BY <1>10, <1>16, <3>1, <3>2
        <3>3. CASE k # M + 1
            <4>1. k \in 1..M
                BY <1>2, <3>3
            <4>. QED
                BY <1>16, <3>1, <4>1 DEF InLines
        <3>. QED
            BY <3>2, <3>3
    <2>2. ASSUME NEW a, InLines(a) PROVE InLines(a)'
        <3>1. PICK k \in 1..M : a \in Place(data, lines[k])
            BY <2>2 DEF InLines
        <3>2. k \in 1..Len(lines') /\ a \in Place(data', lines'[k])
            BY <1>1, <1>2, <1>16, <3>1
        <3>. QED
            BY <3>2 DEF InLines
    <2>3. ASSUME NEW a, a \in base..(base + n - 1) PROVE InLines(a)'
        <3>1. M + 1 \in 1..Len(lines') /\ a \in Place(data', lines'[M + 1])
            BY <1>1, <1>2, <1>10, <1>16, <2>3
        <3>. QED
            BY <3>1 DEF InLines
    <2>. QED
        BY <2>1, <2>2, <2>3
<1>19. /\ Here = base..(base + n + Len(rest) - 1)
       /\ \A a : a \in Here <=> (a \in base..(base + n - 1) \/ a \in Here')
    <2>1. Here = base..(base + n + Len(rest) - 1)
        <3>1. base + Len(Pending) - 1 = base + n + Len(rest) - 1
            BY <1>2, <1>6, <1>7
        <3>. QED
            BY <3>1 DEF Here
    <2>2. Here' = base'..(base' + Len(rest) - 1)
        BY <1>4 DEF Here
    <2>3. CASE t = <<>>
        <3>1. Here' = {}
            BY <1>11, <1>13, <2>2, <2>3 DEF Addresses
        <3>2. Here = base..(base + n - 1)
            BY <1>2, <1>6, <1>13, <2>1, <2>3
        <3>. QED
            BY <2>1, <3>1, <3>2
    <2>4. CASE t # <<>>
        <3>1. Here' = (base + n)..(base + n + Len(rest) - 1)
            BY <1>12, <2>2, <2>4
        <3>. QED
            BY <1>2, <1>6, <2>1, <3>1
    <2>. QED
        BY <2>3, <2>4
<1>20. TakenFits'
    BY <1>1, <1>18, <1>19 DEF WInv, TakenFits
<1>21. ASSUME NEW k \in 1..M, NEW a \in Place(data, lines[k])
       PROVE  a \in Nat /\ a < base /\ \A j \in 1..(k - 1) : a \notin Place(data, lines[j])
    <2>1. a < base /\ \A j \in 1..(k - 1) : a \notin Place(data, lines[j])
        BY <1>1 DEF WInv, ApartFits
    <2>2. InLines(a)
        BY DEF InLines
    <2>3. a \in DOMAIN data
        BY <2>2 DEF WInv, TakenFits
    <2>. QED
        BY <1>2, <2>1, <2>3 DEF IsPatchVec, Addresses
<1>22. ApartFits'
    <2>1. ASSUME NEW k \in 1..(M + 1), NEW a \in Place(data, lines'[k])
          PROVE  /\ t # <<>> => a < base'
                 /\ \A j \in 1..(k - 1) : a \notin Place(data, lines'[j])
        <3>1. CASE k = M + 1
            <4>1. a \in base..(base + n - 1)
                BY <1>10, <1>16, <3>1
            <4>2. t # <<>> => a < base'
                BY <1>2, <1>6, <1>12, <4>1
            <4>3. ASSUME NEW j \in 1..(k - 1), a \in Place(data, lines'[j]) PROVE FALSE
                <5>1. j \in 1..M
                    BY <1>2, <3>1
                <5>2. a \in Place(data, lines[j])
                    BY <1>16, <4>3, <5>1
                <5>3. a < base
                    BY <1>21, <5>1, <5>2
                <5>. QED
                    BY <1>2, <4>1, <5>3
            <4>. QED
                BY <4>2, <4>3
        <3>2. CASE k # M + 1
            <4>1. k \in 1..M
                BY <1>2, <3>2
            <4>2. a \in Place(data, lines[k])
                BY <1>16, <4>1
            <4>3. a \in Nat /\ a < base /\ \A j \in 1..(k - 1) : a \notin Place(data, lines[j])
                BY <1>21, <4>1, <4>2
            <4>4. t # <<>> => a < base'
                BY <1>2, <1>6, <1>12, <4>3
            <4>5. \A j \in 1..(k - 1) : lines'[j] = lines[j]
                <5>1. \A j \in 1..(k - 1) : j \in 1..M
                    BY <1>2, <4>1
                <5>. QED
                    BY <1>16, <5>1
            <4>. QED
                BY <4>3, <4>4, <4>5
        <3>. QED
            BY <3>1, <3>2
    <2>. QED
        BY <1>1, <1>16, <2>1 DEF ApartFits
<1>23. TypeOKWriter'
    <2>1. \A k \in DOMAIN pieces' : pieces'[k].bytes # <<>>
        <3>1. DOMAIN pieces' = 1..Len(pieces')
            BY <1>14 DEF PiecesFit
        <3>. QED
            BY <1>14, <3>1 DEF PiecesFit, IsGood
    <2>2. line' \in 1..(Len(lines') + 1)
        <3>1. line \in 1..(M + 1)
            BY DEF WInv, TypeOKWriter
        <3>. QED
            BY <1>1, <1>2, <1>16, <3>1
    <2>. QED
        BY <1>1, <1>11, <2>1, <2>2 DEF WInv, TypeOKWriter
<1>24. PhasesFit'
    BY <1>1 DEF WInv, PhasesFit
<1>. QED
    BY <1>14, <1>15, <1>17, <1>20, <1>22, <1>23, <1>24 DEF WInv

\* A line the reader takes gives as many bytes, and the same unless the line is unlucky.
LEMMA LineReads ==
    ASSUME NEW d, NEW l \in LineSet, NEW s, Says(d, l, s)
    PROVE  /\ IsRead(l) => ReadBytes(l) \in Seq(Bytes) /\ Len(ReadBytes(l)) = Len(s)
           /\ (IsRead(l) /\ ReadBytes(l) = s) <=>
                ~(/\ l.form = "string"
                  /\ \/ Len(s) = 1 \/ s[Len(s) - 1] = "backslash"
                     \/ \E i \in 1..Len(s) : s[i] = "vtab")
<1>1. s \in Seq(Bytes) /\ s # <<>> /\ Len(s) \in Nat /\ Len(s) # 0
    <2>1. s \in Seq(Bytes) /\ s # <<>>
        BY DEF Says
    <2>. QED
        BY <2>1
<1>2. CASE l.form = "hex"
    <2>1. IsRead(l) /\ ReadBytes(l) = s
        BY <1>2 DEF IsRead, ReadBytes, Says
    <2>. QED
        BY <1>1, <1>2, <2>1
<1>3. CASE l.form = "string"
    <2> DEFINE t == WriteString(s)
    <2>1. l.text = t /\ IsWritable(s) /\ s[Len(s)] = "nul"
        BY <1>3 DEF Says, IsWritable
    <2>2. (IsRead(l) <=> IsClosed(t)) /\ ReadBytes(l) = ReadString(t)
        BY <1>3, <2>1 DEF IsRead, ReadBytes
    <2>3. Len(s) - 1 = 0 <=> Len(s) = 1
        BY <1>1
    <2>4. CASE Len(s) = 1 \/ s[Len(s) - 1] = "backslash"
        <3>1. ClosingQuotes(t) = {}
            BY <1>1, <2>3, <2>4, ClosingIs
        <3>2. ~IsRead(l)
            BY <2>2, <3>1 DEF IsClosed
        <3>. QED
            BY <1>3, <2>4, <3>2
    <2>5. CASE ~(Len(s) = 1 \/ s[Len(s) - 1] = "backslash")
        <3>1. ClosingQuotes(t) # {}
            BY <1>1, <2>3, <2>5, ClosingIs
        <3>2. IsRead(l)
            BY <2>2, <3>1 DEF IsClosed
        <3>3. ReadBytes(l) = RereadAll(s) /\ RereadAll(s) \in Seq(Bytes)
            BY <1>1, <2>1, <2>2, <2>5, ReadStringIs
        <3>4. /\ Len(RereadAll(s)) = Len(s)
              /\ \A i \in 1..Len(s) : RereadAll(s)[i] = IF i = Len(s) THEN "nul" ELSE Reread(s[i])
            BY <1>1 DEF RereadAll
        <3>5. ASSUME NEW i \in 1..Len(s)
              PROVE  RereadAll(s)[i] = s[i] <=> s[i] # "vtab"
            <4>1. s[i] \in Bytes
                BY <1>1
            <4>2. Reread(s[i]) = s[i] <=> s[i] # "vtab"
                BY <4>1, RereadIs
            <4>. QED
                BY <2>1, <3>4, <4>2
        <3>6. RereadAll(s) = s <=> \A i \in 1..Len(s) : s[i] # "vtab"
            <4>1. ASSUME RereadAll(s) = s, NEW i \in 1..Len(s) PROVE s[i] # "vtab"
                BY <3>5, <4>1
            <4>2. ASSUME \A i \in 1..Len(s) : s[i] # "vtab" PROVE RereadAll(s) = s
                <5> DEFINE b == RereadAll(s)
                <5>1. b \in Seq(Bytes) /\ Len(b) = Len(s) /\ \A i \in 1..Len(b) : b[i] = s[i]
                    BY <3>3, <3>4, <3>5, <4>2
                <5> HIDE DEF b
                <5>2. b = s
                    BY <1>1, <5>1, SameSequence
                <5>. QED
                    BY <5>2 DEF b
            <4>. QED
                BY <4>1, <4>2
        <3>. QED
            BY <1>3, <2>5, <3>2, <3>3, <3>4, <3>6
    <2>. QED
        BY <2>4, <2>5
<1>. QED
    BY <1>2, <1>3 DEF LineSet

-----------------------------------------------------------------------------
(* The reader.                                                             *)

\* What has been read is in the patch, at the places of the lines it was read from.
BackFits ==
    phase = "reading" =>
        /\ \A a : a \in DOMAIN back <=>
                    \E k \in 1..(line - 1) : IsRead(lines[k]) /\ a \in Place(data, lines[k])
        /\ \A k \in 1..(line - 1) : IsRead(lines[k]) =>
              \A a \in Place(data, lines[k]) :
                  back[a] = ReadBytes(lines[k])[a - lines[k].address + 1]

WriterInv == WInv /\ BackFits

\* Two lines stand at different places.
LEMMA LinesApart ==
    ASSUME WInv, NEW k \in 1..Len(lines), NEW j \in 1..Len(lines), j # k,
           NEW a \in Place(data, lines[k])
    PROVE  a \notin Place(data, lines[j])
<1>1. k \in Nat /\ j \in Nat
    OBVIOUS
<1>2. CASE j < k
    <2>1. j \in 1..(k - 1)
        BY <1>1, <1>2
    <2>. QED
        BY <2>1 DEF WInv, ApartFits
<1>3. CASE k < j
    <2>1. k \in 1..(j - 1)
        BY <1>1, <1>3
    <2>. QED
        BY <2>1 DEF WInv, ApartFits
<1>. QED
    BY <1>1, <1>2, <1>3

LEMMA LineIs ==
    ASSUME WInv, NEW k \in 1..Len(lines)
    PROVE  /\ lines[k] \in LineSet /\ lines[k].address \in Nat
           /\ Says(data, lines[k], Said(data, lines[k]))
           /\ Place(data, lines[k]) =
                lines[k].address..(lines[k].address + Len(Said(data, lines[k])) - 1)
           /\ lines[k].address + Len(Said(data, lines[k])) <= Top + 1
           /\ Len(Said(data, lines[k])) \in Nat /\ Len(Said(data, lines[k])) # 0
           /\ Said(data, lines[k]) \in Seq(Bytes)
<1>1. lines[k] \in LineSet /\ Says(data, lines[k], Said(data, lines[k]))
    BY DEF WInv, LinesFit
<1>2. Said(data, lines[k]) \in Seq(Bytes) /\ Said(data, lines[k]) # <<>>
    BY <1>1 DEF Says
<1>3. Len(Said(data, lines[k])) \in Nat /\ Len(Said(data, lines[k])) # 0
    BY <1>2
<1>. QED
    BY <1>1, <1>2, <1>3 DEF Place, Says, LineSet, Addresses

LEMMA ReadLineKeeps ==
    ASSUME WriterInv, ReadLine
    PROVE  WriterInv'
<1> USE TopIsNat
<1> DEFINE M == Len(lines)
           l == lines[line]
           s == Said(data, l)
           n == Len(s)
           r == ReadBytes(l)
           A == l.address
<1>1. /\ WInv /\ BackFits /\ phase = "reading" /\ line \in DOMAIN lines
      /\ back' = (IF IsRead(l) THEN Put(back, A, r) ELSE back)
      /\ line' = line + 1
      /\ data' = data /\ next' = next /\ base' = base /\ pieces' = pieces /\ at' = at
      /\ phase' = phase /\ lines' = lines
    BY DEF ReadLine, WriterInv
<1>2. line \in 1..M /\ M \in Nat /\ line \in Nat
    BY <1>1 DEF WInv, LinesFit
<1>3. /\ l \in LineSet /\ A \in Nat /\ Says(data, l, s) /\ Place(data, l) = A..(A + n - 1)
      /\ A + n <= Top + 1 /\ n \in Nat /\ n # 0
    BY <1>1, <1>2, LineIs
<1>4. IsRead(l) => r \in Seq(Bytes) /\ Len(r) = n
    BY <1>3, LineReads
<1> HIDE DEF l, s, n, r, A
<1>5. IsPatchVec(back)
    BY <1>1 DEF WInv, TypeOKWriter
<1>6. ASSUME IsRead(l)
      PROVE  /\ IsPut(back', back, A, r, n)
             /\ IsPatchVec(back')
    <2>1. DOMAIN r = 1..n /\ \A i \in 1..n : r[i] \in Bytes
        BY <1>3, <1>4, <1>6
    <2>2. IsPut(back', back, A, r, n)
        BY <1>1, <1>3, <1>6, <2>1, PutWithin
    <2>3. ASSUME NEW a \in DOMAIN back' PROVE back'[a] \in Bytes /\ a \in Addresses
        <3>1. CASE a \in A..(A + n - 1)
            <4>1. a - A + 1 \in 1..n /\ a \in Addresses
                BY <1>3, <3>1 DEF Addresses
            <4>2. back'[a] = r[a - A + 1]
                BY <2>2, <3>1 DEF IsPut
            <4>. QED
                BY <2>1, <4>1, <4>2
        <3>2. CASE a \notin A..(A + n - 1)
            <4>1. a \in DOMAIN back /\ back'[a] = back[a]
                BY <2>2, <2>3, <3>2 DEF IsPut
            <4>. QED
                BY <1>5, <4>1 DEF IsPatchVec
        <3>. QED
            BY <3>1, <3>2
    <2>4. back' = [a \in DOMAIN back' |-> back'[a]]
        BY <2>2 DEF IsPut
    <2> DEFINE q == back'
    <2>5. q = [a \in DOMAIN q |-> q[a]] /\ \A a \in DOMAIN q : q[a] \in Bytes /\ a \in Addresses
        BY <2>3, <2>4
    <2> HIDE DEF q
    <2>6. IsPatchVec(q)
        BY <2>5 DEF IsPatchVec
    <2>. QED
        BY <2>2, <2>6 DEF q
<1>7. IsPatchVec(back')
    BY <1>1, <1>5, <1>6
<1>8. TypeOKWriter' /\ PhasesFit'
    <2>1. line' \in 1..(M + 1)
        BY <1>1, <1>2
    <2>2. TypeOKWriter'
        BY <1>1, <1>7, <2>1 DEF WInv, TypeOKWriter
    <2>3. PhasesFit'
        BY <1>1 DEF WInv, PhasesFit
    <2>. QED
        BY <2>2, <2>3
<1>9. WInv'
    BY <1>1, <1>8, TurningKeeps
<1>10. line' - 1 = line /\ (\A k \in 1..line : k \in 1..M /\ (k = line \/ k \in 1..(line - 1)))
       /\ \A k \in 1..(line - 1) : k \in 1..line /\ k \in 1..M /\ k # line
    BY <1>1, <1>2
<1>11. /\ \A a : a \in DOMAIN back <=>
                    \E k \in 1..(line - 1) : IsRead(lines[k]) /\ a \in Place(data, lines[k])
       /\ \A k \in 1..(line - 1) : IsRead(lines[k]) =>
              \A a \in Place(data, lines[k]) :
                  back[a] = ReadBytes(lines[k])[a - lines[k].address + 1]
    BY <1>1 DEF BackFits
<1>12. \A a : a \in DOMAIN back' <=> (a \in DOMAIN back \/ (IsRead(l) /\ a \in Place(data, l)))
    <2>1. CASE IsRead(l)
        <3>1. DOMAIN back' = DOMAIN back \cup A..(A + n - 1)
            BY <1>6, <2>1 DEF IsPut
        <3>. QED
            BY <1>3, <2>1, <3>1
    <2>2. CASE ~IsRead(l)
        BY <1>1, <2>2
    <2>. QED
        BY <2>1, <2>2
<1>13. \A a : a \in DOMAIN back' <=> \E k \in 1..line : IsRead(lines[k]) /\ a \in Place(data, lines[k])
    <2>1. line \in 1..line
        BY <1>2
    <2>2. ASSUME NEW a, a \in DOMAIN back'
          PROVE  \E k \in 1..line : IsRead(lines[k]) /\ a \in Place(data, lines[k])
        <3>1. CASE a \in DOMAIN back
            BY <1>10, <1>11, <3>1
        <3>2. CASE IsRead(l) /\ a \in Place(data, l)
            BY <2>1, <3>2 DEF l
        <3>. QED
            BY <1>12, <2>2, <3>1, <3>2
    <2>3. ASSUME NEW k \in 1..line, NEW a, IsRead(lines[k]), a \in Place(data, lines[k])
          PROVE  a \in DOMAIN back'
        <3>1. CASE k = line
            BY <1>12, <2>3, <3>1 DEF l
        <3>2. CASE k # line
            <4>1. k \in 1..(line - 1)
                BY <1>10, <3>2
            <4>2. a \in DOMAIN back
                BY <1>11, <2>3, <4>1
            <4>. QED
                BY <1>12, <4>2
        <3>. QED
            BY <3>1, <3>2
    <2>. QED
        BY <2>2, <2>3
<1>14. ASSUME NEW k \in 1..line, IsRead(lines[k]), NEW a \in Place(data, lines[k])
       PROVE  back'[a] = ReadBytes(lines[k])[a - lines[k].address + 1]
    <2>1. CASE k = line
        <3>1. IsRead(l) /\ a \in A..(A + n - 1)
            BY <1>3, <1>14, <2>1 DEF l
        <3>2. back'[a] = r[a - A + 1]
            BY <1>6, <3>1 DEF IsPut
        <3>. QED
            BY <2>1, <3>2 DEF r, A, l
    <2>2. CASE k # line
        <3>1. k \in 1..(line - 1) /\ k \in 1..M
            BY <1>10, <2>2
        <3>2. back[a] = ReadBytes(lines[k])[a - lines[k].address + 1] /\ a \in DOMAIN back
            BY <1>11, <1>14, <3>1
        <3>3. a \notin Place(data, l)
            BY <1>1, <1>2, <2>2, <3>1, LinesApart DEF l
        <3>4. back'[a] = back[a]
            <4>1. CASE IsRead(l)
                <5>1. a \notin A..(A + n - 1)
                    BY <1>3, <3>3
                <5>. QED
                    BY <1>6, <3>2, <4>1, <5>1 DEF IsPut
            <4>2. CASE ~IsRead(l)
                BY <1>1, <4>2
            <4>. QED
                BY <4>1, <4>2
        <3>. QED
            BY <3>2, <3>4
    <2>. QED
        BY <2>1, <2>2
<1>15. BackFits'
    BY <1>1, <1>10, <1>13, <1>14 DEF BackFits
<1>. QED
    BY <1>9, <1>15 DEF WriterInv

\* Before the reading nothing is read.
LEMMA NothingRead ==
    ASSUME line = 1, back = NoPatch
    PROVE  BackFits
<1>1. DOMAIN back = {} /\ \A k \in 1..(line - 1) : FALSE
    BY DEF NoPatch
<1>. QED
    BY <1>1 DEF BackFits

LEMMA NextWriterKeeps ==
    ASSUME WriterInv, [NextWriter]_writerVars
    PROVE  WriterInv'
<1>1. CASE TakeHunk \/ JoinNext \/ WriteLine
    <2>1. WInv'
        BY <1>1, TakeHunkKeeps, JoinNextKeeps, WriteLineKeeps DEF WriterInv
    <2>2. phase' # "reading"
        BY <1>1 DEF TakeHunk, JoinNext, WriteLine
    <2>. QED
        BY <2>1, <2>2 DEF WriterInv, BackFits
<1>2. CASE ReadLine
    BY <1>2, ReadLineKeeps
<1>3. CASE KeepApart \/ StartWriting \/ HunkWritten
    <2>1. WInv'
        BY <1>3, TurnsKeep DEF WriterInv
    <2>2. phase' # "reading"
        BY <1>3 DEF KeepApart, StartWriting, HunkWritten
    <2>. QED
        BY <2>1, <2>2 DEF WriterInv, BackFits
<1>4. CASE FileWritten
    <2>1. WInv'
        BY <1>4, TurnsKeep DEF WriterInv
    <2>2. line = 1 /\ back = NoPatch
        BY <1>4 DEF FileWritten, WriterInv, WInv, PhasesFit
    <2>3. line' = 1 /\ back' = NoPatch
        BY <1>4, <2>2 DEF FileWritten
    <2>4. DOMAIN back' = {} /\ \A k \in 1..(line' - 1) : FALSE
        BY <2>3 DEF NoPatch
    <2>5. BackFits'
        BY <2>4 DEF BackFits
    <2>. QED
        BY <2>1, <2>5 DEF WriterInv
<1>5. CASE UNCHANGED writerVars
    <2>1. WInv'
        BY <1>5, TurnsKeep DEF WriterInv
    <2>2. BackFits'
        BY <1>5 DEF WriterInv, BackFits, writerVars
    <2>. QED
        BY <2>1, <2>2 DEF WriterInv
<1>. QED
    BY <1>1, <1>2, <1>3, <1>4, <1>5 DEF NextWriter, Done

LEMMA WriterInvGives ==
    ASSUME WriterInv
    PROVE  ReadsBackUnlessUnlucky
<1> USE TopIsNat
<1> DEFINE M == Len(lines)
<1> SUFFICES ASSUME AllRead
             PROVE  back = data <=> \A k \in DOMAIN lines : ~Unlucky(lines[k])
    BY DEF ReadsBackUnlessUnlucky
<1>1. /\ WInv /\ BackFits /\ phase = "reading" /\ line - 1 = M /\ M \in Nat /\ DOMAIN lines = 1..M
      /\ IsPatchVec(data) /\ IsPatchVec(back) /\ next \in Nat
    <2>1. WInv /\ BackFits /\ phase = "reading" /\ line > M /\ M \in Nat /\ DOMAIN lines = 1..M
        BY DEF WriterInv, WInv, LinesFit, AllRead
    <2>2. line \in 1..(M + 1) /\ IsPatchVec(data) /\ IsPatchVec(back) /\ next \in Nat
        BY <2>1 DEF WInv, TypeOKWriter
    <2>3. line - 1 = M
        BY <2>1, <2>2
    <2>. QED
        BY <2>1, <2>2, <2>3
<1>2. \A a : a \in DOMAIN data <=> InLines(a)
    <2>1. pieces = <<>> /\ Remaining(data, next) = {}
        BY <1>1 DEF WInv, PhasesFit
    <2>2. Here = {}
        <3>1. Len(Pending) = 0
            BY <1>1, <2>1, PendingType DEF WInv
        <3>2. base \in Nat
            BY <1>1 DEF WInv, TypeOKWriter, Addresses
        <3>. QED
            BY <3>1, <3>2 DEF Here
    <2>3. \A a \in DOMAIN data : a < next
        <3>1. \A a \in DOMAIN data : a \in Nat /\ ~(a >= next)
            BY <1>1, <2>1 DEF Remaining, IsPatchVec, Addresses
        <3>. QED
            BY <1>1, <3>1
    <2>. QED
        BY <1>1, <2>2, <2>3 DEF WInv, TakenFits
<1>3. /\ \A a : a \in DOMAIN back <=> \E k \in 1..M : IsRead(lines[k]) /\ a \in Place(data, lines[k])
      /\ \A k \in 1..M : IsRead(lines[k]) =>
              \A a \in Place(data, lines[k]) :
                  back[a] = ReadBytes(lines[k])[a - lines[k].address + 1]
    BY <1>1 DEF BackFits
<1>4. ASSUME NEW k \in 1..M
      PROVE  /\ IsRead(lines[k]) => ReadBytes(lines[k]) \in Seq(Bytes)
                                    /\ Len(ReadBytes(lines[k])) = Len(Said(data, lines[k]))
             /\ ~Unlucky(lines[k]) <=> IsRead(lines[k]) /\ ReadBytes(lines[k]) = Said(data, lines[k])
    <2>1. lines[k] \in LineSet /\ Says(data, lines[k], Said(data, lines[k]))
        BY <1>1, LineIs
    <2>. QED
        BY <2>1, LineReads DEF Unlucky
<1>5. ASSUME NEW k \in 1..M, NEW a \in Place(data, lines[k])
      PROVE  data[a] = Said(data, lines[k])[a - lines[k].address + 1]
    <2> DEFINE A == lines[k].address
               s == Said(data, lines[k])
               i == a - A + 1
    <2>1. A \in Nat /\ Place(data, lines[k]) = A..(A + Len(s) - 1) /\ Says(data, lines[k], s)
          /\ Len(s) \in Nat
        BY <1>1, LineIs
    <2>2. i \in 1..Len(s) /\ A + i - 1 = a
        BY <2>1
    <2> HIDE DEF i, s
    <2>3. data[A + i - 1] = s[i]
        BY <2>1, <2>2 DEF Says
    <2>. QED
        BY <2>2, <2>3 DEF i, s
<1>6. ASSUME \A k \in 1..M : ~Unlucky(lines[k]) PROVE back = data
    <2>1. \A k \in 1..M : IsRead(lines[k]) /\ ReadBytes(lines[k]) = Said(data, lines[k])
        BY <1>4, <1>6
    <2>2. DOMAIN back = DOMAIN data
        BY <1>2, <1>3, <2>1 DEF InLines
    <2>3. ASSUME NEW a \in DOMAIN data PROVE back[a] = data[a]
        <3>1. PICK k \in 1..M : a \in Place(data, lines[k])
            BY <1>2 DEF InLines
        <3>. QED
            BY <1>3, <1>5, <2>1, <3>1
    <2>. QED
        BY <1>1, <2>2, <2>3 DEF IsPatchVec
<1>7. ASSUME NEW k \in 1..M, Unlucky(lines[k]), back = data PROVE FALSE
    <2> DEFINE A == lines[k].address
               s == Said(data, lines[k])
               r == ReadBytes(lines[k])
    <2>1. A \in Nat /\ Place(data, lines[k]) = A..(A + Len(s) - 1) /\ Len(s) \in Nat /\ Len(s) # 0
          /\ s \in Seq(Bytes)
        BY <1>1, LineIs
    <2>2. CASE ~IsRead(lines[k])
        <3>1. A \in Place(data, lines[k])
            BY <2>1
        <3>2. A \in DOMAIN back
            BY <1>2, <1>7, <3>1 DEF InLines
        <3>3. PICK j \in 1..M : IsRead(lines[j]) /\ A \in Place(data, lines[j])
            BY <1>3, <3>2
        <3>4. j # k
            BY <2>2, <3>3
        <3>. QED
            BY <1>1, <3>1, <3>3, <3>4, LinesApart
    <2>3. CASE IsRead(lines[k])
        <3>1. r \in Seq(Bytes) /\ Len(r) = Len(s) /\ r # s
            BY <1>4, <1>7, <2>3
        <3> HIDE DEF r, s
        <3>2. ASSUME NEW i \in 1..Len(s) PROVE r[i] = s[i]
            <4>1. A + i - 1 \in Place(data, lines[k]) /\ (A + i - 1) - A + 1 = i
                BY <2>1
            <4>2. back[A + i - 1] = r[(A + i - 1) - A + 1]
                BY <1>3, <2>3, <4>1 DEF r
            <4>3. data[A + i - 1] = s[(A + i - 1) - A + 1]
                BY <1>5, <4>1 DEF s
            <4>. QED
                BY <1>7, <4>1, <4>2, <4>3
        <3>3. r = s
            BY <2>1, <3>1, <3>2, SameSequence
        <3>. QED
            BY <3>1, <3>3
    <2>. QED
        BY <2>2, <2>3
<1>. QED
    BY <1>1, <1>6, <1>7

-----------------------------------------------------------------------------
\* The writer and the reader keep their invariant (generate_pchtxt, pchtxt_to_patches).
THEOREM WriterInvariance == SpecWriter => []WriterInv
<1>1. ASSUME InitWriter PROVE WriterInv
    <2>1. WInv
        BY <1>1, InitWriterIs
    <2>2. BackFits
        BY <1>1 DEF InitWriter, BackFits
    <2>. QED
        BY <2>1, <2>2 DEF WriterInv
<1>2. ASSUME WriterInv, [NextWriter]_writerVars PROVE WriterInv'
    BY <1>2, NextWriterKeeps
<1>. QED
    BY <1>1, <1>2, PTL DEF SpecWriter

(* For every patch the writer is given, the length kept with each piece of *)
(* a hunk is the one hunk_len_as_string would compute for its bytes, after *)
(* every cut and every join (output.rs:163).                               *)
THEOREM CachedLengthIsRightAlways == SpecWriter => []CachedLengthIsRight
<1>1. WriterInv => CachedLengthIsRight
    BY WInvGives DEF WriterInv
<1>. QED
    BY <1>1, WriterInvariance, PTL

(* generate_pchtxt writes each byte of the patch once, at its address.     *)
THEOREM WriterDropsNothing == SpecWriter => []NothingDropped
<1>1. WriterInv => NothingDropped
    BY WInvGives DEF WriterInv
<1>. QED
    BY <1>1, WriterInvariance, PTL

(* What pchtxt_to_patches reads of the file generate_pchtxt wrote is the   *)
(* patch, if and only if no string of it is one of the three unlucky kinds. *)
THEOREM ReadsBackUnlessUnluckyAlways == SpecWriter => []ReadsBackUnlessUnlucky
<1>1. WriterInv => ReadsBackUnlessUnlucky
    BY WriterInvGives
<1>. QED
    BY <1>1, WriterInvariance, PTL
=============================================================================
