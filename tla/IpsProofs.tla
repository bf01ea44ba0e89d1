----------------------------- MODULE IpsProofs -----------------------------
(***************************************************************************)
(* Proofs about Ips, for every patch and any thresholds Thresholds allows. *)
(* The invariant follows one number, Pos: every byte of the patch before   *)
(* it is in the file, the rest of the hunk lies from it on, and after that *)
(* the byte the hunk gave up.                                              *)
(***************************************************************************)
EXTENDS Ips, PatchVecProofs, SequenceTheorems

-----------------------------------------------------------------------------
(* A list of records, of any patch d.                                      *)

\* A record with a length that is allowed, which sets bytes of the patch only.
Fitting(d, r) ==
    /\ r \in Records /\ Good(r)
    /\ \A a \in Covered(r) : a \in DOMAIN d /\ ByteAt(r, a) = d[a]

Ordered(o) == \A i \in 1..(Len(o) - 1) : o[i].offset + Size(o[i]) <= o[i + 1].offset

Avoids(d, o) ==
    \A i \in 1..Len(o) :
        o[i].offset = UnsafeOffset =>
            RunMeetsOthersAt(d, UnsafeOffset) /\ (o[i].rle \/ (i > 1 /\ o[i - 1].rle))

Sound(d, o) ==
    /\ o \in Seq(Records)
    /\ \A i \in 1..Len(o) : Fitting(d, o[i])
    /\ Ordered(o)
    /\ Avoids(d, o)

\* The records set every byte before p, and no other.
Reaches(d, o, p) == UNION {Covered(o[i]) : i \in 1..Len(o)} = {a \in DOMAIN d : a < p}

EndsInRun(o) == Len(o) > 0 /\ o[Len(o)].rle

\* Record r sets the n bytes from p on.
Fits(d, r, p, n) ==
    /\ r \in Records /\ Size(r) = n /\ r.offset = p
    /\ \A a \in p..(p + n - 1) : a \in DOMAIN d /\ ByteAt(r, a) = d[a]

-----------------------------------------------------------------------------
(* The inductive invariant.                                                *)

Running == phase \in {"start", "hunks", "whole", "middle", "extra"}

Held == (IF extra # NoByte THEN 1 ELSE 0) + (IF safety # NoByte THEN 1 ELSE 0)

Pos == from - Held - Len(hunk)

\* What each phase has left to write.
Phases ==
    /\ phase \in {"start", "hunks"} => extra = NoByte
    /\ phase \in {"start", "hunks", "extra"} => hunk = <<>>
    /\ phase = "whole" => hunk # <<>>
    /\ phase # "middle" => finishing = 0
    /\ phase = "start" => from = 0 /\ safety = NoByte /\ out = <<>>

HunkIsThePatch ==
    /\ Pos \in 0..(Top + 1)
    /\ phase \in {"whole", "middle", "extra"} => addr = IF Pos = Top + 1 THEN 0 ELSE Pos
    /\ \A i \in 1..Len(hunk) : Pos + i - 1 \in DOMAIN data /\ hunk[i] = data[Pos + i - 1]
    /\ extra # NoByte => from - 1 \in DOMAIN data /\ extra = data[from - 1] /\ from - 1 > UnsafeOffset

\* The safety byte is held exactly while the next hunk starts at the unsafe offset.
SafetyIsHeld ==
    /\ safety # NoByte <=> from = UnsafeOffset /\ UnsafeOffset \in DOMAIN data
    /\ safety # NoByte => UnsafeOffset - 1 \in DOMAIN data /\ safety = data[UnsafeOffset - 1]
    /\ phase # "start" => ~HasHunkStartingAt(data, UnsafeOffset)

\* A run ends where the rest of the hunk starts, and that starts with another byte.
BehindARun ==
    /\ Pos >= Edge /\ RunOf(data, Edge, Pos - Edge)
    /\ hunk # <<>> => data[Pos - 1] # data[Pos]

\* Hunks start beside the unsafe offset; inside a hunk only a run comes before it.
StartsAreSafe ==
    /\ phase = "whole" => Pos # UnsafeOffset
    /\ phase = "middle" => Pos # UnsafeOffset \/ (EndsInRun(out) /\ BehindARun)

\* All equal, long enough for a record, and not to be had longer.
EndsWithRun(s, f) ==
    /\ f = 0 \/ f >= Edge
    /\ \A i \in (Len(s) - f + 1)..Len(s) : s[i] = s[Len(s)]
    /\ f > 0 /\ f < Len(s) => s[Len(s) - f] # s[Len(s)]

\* The run set aside ends the hunk; a run has just been written, or the hunk starts without one.
RunsAreMarked ==
    phase = "middle" =>
        /\ EndsWithRun(hunk, finishing)
        /\ (Len(hunk) >= Edge /\ ~AllEqual(SubSeq(hunk, 1, Edge))) \/ BehindARun

IInv ==
    /\ TypeOK
    /\ Sound(data, out)
    /\ Running => /\ Phases /\ HunkIsThePatch /\ SafetyIsHeld /\ StartsAreSafe /\ RunsAreMarked
                  /\ Reaches(data, out, Pos)
    /\ AssertionsHold
    /\ FileIsThePatch

-----------------------------------------------------------------------------
(* The operators on bytes.                                                 *)

LEMMA Sizes ==
    /\ Short \in Nat /\ Short > 0 /\ Standard \in Nat /\ Standard > 0
    /\ Edge \in Nat /\ Edge > 0 /\ Edge <= Standard + 1
    /\ Inner \in Nat /\ Inner > 0 /\ Edge <= Inner
    /\ MaxHunk \in Nat /\ MaxHunk > 1
    /\ Top \in Nat /\ UnsafeOffset \in Nat /\ UnsafeOffset > 0 /\ UnsafeOffset <= Top
  BY Thresholds, TopIsNat

LEMMA SliceIs ==
    ASSUME NEW s \in Seq(Bytes), NEW m \in 1..(Len(s) + 1), NEW n \in (m - 1)..Len(s)
    PROVE  /\ SubSeq(s, m, n) \in Seq(Bytes)
           /\ Len(SubSeq(s, m, n)) = n - m + 1
           /\ \A i \in 1..(n - m + 1) : SubSeq(s, m, n)[i] = s[m + i - 1]
<1>1. \A i \in m..n : s[i] \in Bytes
    OBVIOUS
<1>. QED
    BY <1>1, SubSeqProperties

LEMMA FromIs ==
    ASSUME NEW s \in Seq(Bytes), NEW n \in 0..Len(s)
    PROVE  /\ From(s, n) \in Seq(Bytes)
           /\ Len(From(s, n)) = Len(s) - n
           /\ \A i \in 1..(Len(s) - n) : From(s, n)[i] = s[n + i]
<1>1. n + 1 \in 1..(Len(s) + 1) /\ Len(s) \in ((n + 1) - 1)..Len(s)
    OBVIOUS
<1>2. /\ SubSeq(s, n + 1, Len(s)) \in Seq(Bytes)
      /\ Len(SubSeq(s, n + 1, Len(s))) = Len(s) - (n + 1) + 1
      /\ \A i \in 1..(Len(s) - (n + 1) + 1) : SubSeq(s, n + 1, Len(s))[i] = s[(n + 1) + i - 1]
    BY <1>1, SliceIs
<1>. QED
    BY <1>2 DEF From

LEMMA FrontIs ==
    ASSUME NEW s \in Seq(Bytes), Len(s) > 0
    PROVE  /\ Front(s) \in Seq(Bytes) /\ Len(Front(s)) = Len(s) - 1
           /\ \A i \in 1..(Len(s) - 1) : Front(s)[i] = s[i]
<1>1. 1 \in 1..(Len(s) + 1) /\ Len(s) - 1 \in (1 - 1)..Len(s)
    OBVIOUS
<1>2. /\ SubSeq(s, 1, Len(s) - 1) \in Seq(Bytes)
      /\ Len(SubSeq(s, 1, Len(s) - 1)) = (Len(s) - 1) - 1 + 1
      /\ \A i \in 1..((Len(s) - 1) - 1 + 1) : SubSeq(s, 1, Len(s) - 1)[i] = s[1 + i - 1]
    BY <1>1, SliceIs
<1>. QED
    BY <1>2 DEF Front

\* A run that is known to be some bytes long is as long as it can be.
LEMMA RunLengthIs ==
    ASSUME NEW s \in Seq(Bytes), NEW known \in 1..Len(s), \A i \in 1..known : s[i] = s[1],
           NEW n, n = RunLength(s, known)
    PROVE  /\ n \in known..Len(s)
           /\ \A i \in 1..n : s[i] = s[1]
           /\ n = Len(s) \/ s[n + 1] # s[1]
<1> DEFINE S == {k \in known..Len(s) : k = Len(s) \/ s[k + 1] # s[1]}
<1>1. S \in SUBSET Nat /\ Len(s) \in S
    OBVIOUS
<1>. HIDE DEF S
<1>2. PICK m \in S : \A k \in S : m <= k
    BY <1>1, LeastOf
<1>3. m \in known..Len(s) /\ (m = Len(s) \/ s[m + 1] # s[1])
    BY DEF S
<1>4. \A i \in (known + 1)..m : s[i] = s[1]
    <2>1. TAKE i \in (known + 1)..m
    <2>2. i - 1 \in known..Len(s) /\ i - 1 < m /\ i - 1 # Len(s)
        BY <1>3
    <2>3. i - 1 \notin S
        BY <1>1, <1>2, <2>2
    <2>4. s[(i - 1) + 1] = s[1]
        BY <2>2, <2>3 DEF S
    <2>. QED
        BY <2>4, <1>3
<1>5. /\ n \in known..Len(s)
      /\ \A i \in (known + 1)..n : s[i] = s[1]
      /\ n = Len(s) \/ s[n + 1] # s[1]
    BY <1>3, <1>4 DEF RunLength
<1>. QED
    BY <1>5

LEMMA FinishingRunIs ==
    ASSUME NEW s \in Seq(Bytes), NEW f, f = FinishingRun(s)
    PROVE  f \in 0..Len(s) /\ EndsWithRun(s, f)
<1>. USE Sizes
<1>1. CASE Len(s) < Edge \/ ~AllEqual(From(s, Len(s) - Edge))
    BY <1>1 DEF FinishingRun, EndsWithRun
<1>2. CASE ~(Len(s) < Edge) /\ AllEqual(From(s, Len(s) - Edge))
    <2> DEFINE S == {k \in Edge..Len(s) : k = Len(s) \/ s[Len(s) - k] # Last(s)}
    <2>1. S \in SUBSET Nat /\ Len(s) \in S
        BY <1>2
    <2>2. PICK m \in S : \A k \in S : m <= k
        BY <2>1, LeastOf
    <2>3. \A i \in (Len(s) - m + 1)..Len(s) : s[i] = Last(s)
        <3>1. TAKE i \in (Len(s) - m + 1)..Len(s)
        <3>2. CASE i <= Len(s) - Edge
            <4>1. Len(s) - i \in Edge..Len(s) /\ Len(s) - i < m
                BY <3>2
            <4>2. Len(s) - i \notin S
                BY <2>2, <4>1
            <4>. QED
                BY <4>1, <4>2
        <3>3. CASE i > Len(s) - Edge
            <4>1. Len(s) - Edge \in 0..Len(s)
                BY <1>2
            <4>2. /\ Len(From(s, Len(s) - Edge)) = Edge
                  /\ From(s, Len(s) - Edge) \in Seq(Bytes)
                  /\ \A j \in 1..Edge : From(s, Len(s) - Edge)[j] = s[Len(s) - Edge + j]
                <5> DEFINE k == Len(s) - Edge
                <5>1. k \in 0..Len(s) /\ Len(s) - k = Edge
                    BY <1>2
                <5> HIDE DEF k
                <5>2. /\ From(s, k) \in Seq(Bytes) /\ Len(From(s, k)) = Len(s) - k
                      /\ \A j \in 1..(Len(s) - k) : From(s, k)[j] = s[k + j]
                    BY <5>1, FromIs
                <5>. QED
                    BY <5>1, <5>2 DEF k
            <4>3. DOMAIN From(s, Len(s) - Edge) = 1..Edge
                BY <4>2
            <4>4. i - (Len(s) - Edge) \in 1..Edge /\ Edge \in 1..Edge
                BY <3>3
            <4>5. From(s, Len(s) - Edge)[i - (Len(s) - Edge)] = From(s, Len(s) - Edge)[Edge]
                BY <1>2, <4>3, <4>4 DEF AllEqual
            <4>6. From(s, Len(s) - Edge)[i - (Len(s) - Edge)] = s[i] /\ From(s, Len(s) - Edge)[Edge] = s[Len(s)]
                <5>1. (Len(s) - Edge) + (i - (Len(s) - Edge)) = i /\ (Len(s) - Edge) + Edge = Len(s)
                    OBVIOUS
                <5>. QED
                    BY <4>2, <4>4, <5>1
            <4>. QED
                BY <4>5, <4>6 DEF Last
        <3>. QED
            BY <3>2, <3>3
    <2>4. f = CHOOSE n \in Edge..Len(s) :
            /\ \A i \in (Len(s) - n + 1)..Len(s) : s[i] = Last(s)
            /\ n = Len(s) \/ s[Len(s) - n] # Last(s)
        BY <1>2 DEF FinishingRun
    <2>5. /\ f \in Edge..Len(s) /\ \A i \in (Len(s) - f + 1)..Len(s) : s[i] = Last(s)
          /\ f = Len(s) \/ s[Len(s) - f] # Last(s)
        BY <2>2, <2>3, <2>4
    <2>. QED
        BY <2>5 DEF Last, EndsWithRun
<1>. QED
    BY <1>1, <1>2

LEMMA FirstRunIs ==
    ASSUME NEW s \in Seq(Bytes), RunStarts(s) # {}, NEW p, p = FirstRun(s)
    PROVE  /\ p \in 0..(Len(s) - Inner)
           /\ \A i \in 1..Inner : s[p + i] = s[p + 1]
           /\ p > 0 => s[p] # s[p + 1]
<1>. USE Sizes
<1>1. RunStarts(s) \in SUBSET Nat
    BY DEF RunStarts
<1>2. p \in RunStarts(s) /\ \A q \in RunStarts(s) : p <= q
    BY <1>1, LeastOf DEF FirstRun
<1>3. p \in 0..(Len(s) - Inner) /\ AllEqual(SubSeq(s, p + 1, p + Inner))
    BY <1>2 DEF RunStarts
<1>4. p + 1 \in 1..(Len(s) + 1) /\ p + Inner \in ((p + 1) - 1)..Len(s)
    BY <1>3
<1> DEFINE t == SubSeq(s, p + 1, p + Inner)
<1>5. Len(t) = Inner /\ t \in Seq(Bytes) /\ \A i \in 1..Inner : t[i] = s[p + i]
    <2>1. /\ t \in Seq(Bytes) /\ Len(t) = (p + Inner) - (p + 1) + 1
          /\ \A i \in 1..((p + Inner) - (p + 1) + 1) : t[i] = s[(p + 1) + i - 1]
        BY <1>4, SliceIs
    <2>2. (p + Inner) - (p + 1) + 1 = Inner /\ \A i \in 1..Inner : (p + 1) + i - 1 = p + i
        BY <1>3
    <2>. HIDE DEF t
    <2>. QED
        BY <2>1, <2>2
<1>6. AllEqual(t)
    BY <1>3
<1>. HIDE DEF t
<1>7. DOMAIN t = 1..Inner /\ 1 \in 1..Inner
    BY <1>5
<1>8. \A i \in 1..Inner : t[i] = t[1]
    BY <1>6, <1>7 DEF AllEqual
<1>9. \A i \in 1..Inner : s[p + i] = s[p + 1]
    BY <1>5, <1>7, <1>8
<1>10. ASSUME p > 0, s[p] = s[p + 1] PROVE FALSE
    <2> DEFINE u == SubSeq(s, p, (p - 1) + Inner)
    <2>1. p \in 1..(Len(s) + 1) /\ (p - 1) + Inner \in (p - 1)..Len(s)
        BY <1>3, <1>10
    <2>2. /\ u \in Seq(Bytes) /\ Len(u) = ((p - 1) + Inner) - p + 1
          /\ \A i \in 1..(((p - 1) + Inner) - p + 1) : u[i] = s[p + i - 1]
        BY <2>1, SliceIs
    <2>3. ((p - 1) + Inner) - p + 1 = Inner
        BY <1>3
    <2>. HIDE DEF u
    <2>4. \A i \in 1..Inner : u[i] = s[p]
        <3>1. TAKE i \in 1..Inner
        <3>2. CASE i = 1
            <4>1. p + 1 - 1 = p
                BY <1>3
            <4>. QED
                BY <2>2, <2>3, <3>2, <4>1
        <3>3. CASE i # 1
            <4>1. i - 1 \in 1..Inner /\ p + (i - 1) = p + i - 1
                BY <1>3, <3>3
            <4>2. u[i] = s[p + i - 1] /\ s[p + (i - 1)] = s[p + 1]
                BY <1>9, <2>2, <2>3, <4>1
            <4>. QED
                BY <1>10, <4>1, <4>2
        <3>. QED
            BY <3>2, <3>3
    <2>5. DOMAIN u = 1..Inner
        BY <2>2, <2>3
    <2>6. AllEqual(u)
        BY <2>4, <2>5 DEF AllEqual
    <2>7. (p - 1) + 1 = p /\ p - 1 \in 0..(Len(s) - Inner) /\ ~(p <= p - 1)
        BY <1>3, <1>10
    <2>8. p - 1 \in RunStarts(s)
        BY <2>6, <2>7 DEF RunStarts, u
    <2>. QED
        BY <1>2, <2>7, <2>8
<1>. QED
    BY <1>3, <1>9, <1>10

-----------------------------------------------------------------------------
(* Writing records.                                                        *)

LEMMA RecordIs ==
    ASSUME NEW r \in Records
    PROVE  /\ r.offset \in Nat /\ Size(r) \in Nat
           /\ \A a : a \in Covered(r) <=> a \in Int /\ r.offset <= a /\ a < r.offset + Size(r)
<1>. USE Sizes
<1>2. CASE r \in [offset : Addresses, rle : {FALSE}, bytes : Seq(Bytes)]
    <2>. r.offset \in Nat
        BY <1>2 DEF Addresses
    <2>1. r.rle = FALSE /\ r.bytes \in Seq(Bytes)
        BY <1>2
    <2>2. Size(r) = Len(r.bytes) /\ Len(r.bytes) \in Nat
        BY <2>1 DEF Size
    <2>. QED
        BY <2>2 DEF Covered
<1>3. CASE r \in [offset : Addresses, rle : {TRUE}, byte : Bytes, count : Nat]
    <2>. r.offset \in Nat
        BY <1>3 DEF Addresses
    <2>1. Size(r) = r.count /\ r.count \in Nat
        BY <1>3 DEF Size
    <2>. QED
        BY <2>1 DEF Covered
<1>. QED
    BY <1>2, <1>3 DEF Records

\* A record that continues where the file has got to.
LEMMA AppendRecord ==
    ASSUME NEW d, NEW o, NEW r, NEW p \in Nat, NEW n \in 1..MaxHunk,
           IsPatchVec(d), Sound(d, o), Reaches(d, o, p), Fits(d, r, p, n),
           p = UnsafeOffset => RunMeetsOthersAt(d, UnsafeOffset) /\ (r.rle \/ EndsInRun(o))
    PROVE  /\ Sound(d, Append(o, r))
           /\ Reaches(d, Append(o, r), p + n)
           /\ EndsInRun(Append(o, r)) <=> r.rle
<1>. USE Sizes
<1> DEFINE q == Append(o, r)
<1>1. o \in Seq(Records) /\ r \in Records /\ Size(r) = n /\ r.offset = p
    BY DEF Sound, Fits
<1>2. /\ q \in Seq(Records) /\ Len(q) = Len(o) + 1 /\ q[Len(o) + 1] = r
      /\ \A i \in 1..Len(o) : q[i] = o[i]
    BY <1>1
<1>3. \A i \in 1..Len(o) : o[i] \in Records
    BY <1>1
<1>. HIDE DEF q
<1>4. \A a : a \in Covered(r) <=> a \in p..(p + n - 1)
    BY <1>1, RecordIs
<1>5. Fitting(d, r)
    BY <1>1, <1>4 DEF Fitting, Fits, Good
<1>6. \A i \in 1..Len(q) : Fitting(d, q[i])
    <2>1. TAKE i \in 1..Len(q)
    <2>2. CASE i = Len(o) + 1
        BY <1>2, <1>5, <2>2
    <2>3. CASE i # Len(o) + 1
        BY <1>1, <1>2, <2>3 DEF Sound
    <2>. QED
        BY <2>2, <2>3
<1>7. Ordered(q)
    <2>1. SUFFICES ASSUME NEW i \in 1..Len(o)
                   PROVE  q[i].offset + Size(q[i]) <= q[i + 1].offset
        BY <1>1, <1>2 DEF Ordered
    <2>2. CASE i < Len(o)
        <3>1. i \in 1..(Len(o) - 1) /\ i + 1 \in 1..Len(o)
            BY <1>1, <2>2
        <3>. QED
            BY <1>2, <3>1 DEF Sound, Ordered
    <2>3. CASE i = Len(o)
        <3>1. o[i].offset \in Nat /\ Size(o[i]) \in Nat /\ Size(o[i]) > 0
            BY <1>3, RecordIs DEF Sound, Fitting, Good
        <3>2. o[i].offset + Size(o[i]) - 1 \in Covered(o[i])
            BY <3>1 DEF Covered
        <3>3. o[i].offset + Size(o[i]) - 1 < p
            BY <3>2 DEF Reaches
        <3>. QED
            BY <1>1, <1>2, <2>3, <3>1, <3>3
    <2>. QED
        BY <1>1, <2>2, <2>3
<1>8. Avoids(d, q)
    <2>1. SUFFICES ASSUME NEW i \in 1..Len(q), q[i].offset = UnsafeOffset
                   PROVE  /\ RunMeetsOthersAt(d, UnsafeOffset)
                          /\ q[i].rle \/ (i > 1 /\ q[i - 1].rle)
        BY DEF Avoids
    <2>2. CASE i = Len(o) + 1
        <3>1. RunMeetsOthersAt(d, UnsafeOffset) /\ (r.rle \/ EndsInRun(o))
            BY <1>1, <1>2, <2>1, <2>2
        <3>. QED
            BY <1>1, <1>2, <2>2, <3>1 DEF EndsInRun
    <2>3. CASE i # Len(o) + 1
        <3>1. i \in 1..Len(o) /\ (i > 1 => i - 1 \in 1..Len(o))
            BY <1>1, <1>2, <2>3
        <3>. QED
            BY <1>2, <2>1, <3>1 DEF Sound, Avoids
    <2>. QED
        BY <2>2, <2>3
<1>9. Reaches(d, q, p + n)
    <2>1. \A a : (\E i \in 1..Len(q) : a \in Covered(q[i])) <=>
                 (\E i \in 1..Len(o) : a \in Covered(o[i])) \/ a \in Covered(r)
        <3>1. 1..Len(q) = 1..Len(o) \cup {Len(o) + 1}
            BY <1>1, <1>2
        <3>. QED
            BY <1>2, <3>1, Zenon
    <2>2. \A a : (\E i \in 1..Len(o) : a \in Covered(o[i])) <=> a \in DOMAIN d /\ a < p
        BY DEF Reaches
    <2>3. \A a : a \in Covered(r) <=> a \in DOMAIN d /\ a \in p..(p + n - 1)
        BY <1>1, <1>4 DEF Fits
    <2>4. \A a : (\E i \in 1..Len(q) : a \in Covered(q[i])) <=>
                 a \in DOMAIN d /\ (a < p \/ a \in p..(p + n - 1))
        BY <2>1, <2>2, <2>3, Zenon
    <2>5. \A a \in DOMAIN d : a \in Nat
        BY DEF IsPatchVec, Addresses
    <2>6. \A a : (\E i \in 1..Len(q) : a \in Covered(q[i])) <=> a \in DOMAIN d /\ a < p + n
        BY <2>4, <2>5
    <2>. QED
        BY <2>6, Zenon DEF Reaches
<1>10. EndsInRun(q) <=> r.rle
    BY <1>1, <1>2 DEF EndsInRun
<1>. QED
    BY <1>2, <1>6, <1>7, <1>8, <1>9, <1>10 DEF Sound, q

LEMMA WriteNone ==
    ASSUME NEW next, out \in Seq(Records), Write(<<>>, next)
    PROVE  out' = out /\ phase' = next
  BY DEF Write

LEMMA WriteAll ==
    ASSUME NEW records, NEW next, \A i \in DOMAIN records : Good(records[i]), Write(records, next)
    PROVE  out' = out \o records /\ phase' = next
  BY DEF Write

LEMMA AppendTwice ==
    ASSUME NEW o \in Seq(Records), NEW r1 \in Records, NEW r2 \in Records
    PROVE  o \o <<r1, r2>> = Append(Append(o, r1), r2)
  OBVIOUS

LEMMA PairIs ==
    ASSUME NEW r1 \in Records, NEW r2 \in Records
    PROVE  <<r1>> \o <<r2>> = <<r1, r2>>
<1> DEFINE s == <<r1>> \o <<r2>>
<1> DEFINE t == <<r1, r2>>
<1>1. s \in Seq(Records) /\ Len(s) = 2 /\ s[1] = r1 /\ s[2] = r2
    OBVIOUS
<1>2. t \in Seq(Records) /\ Len(t) = 2 /\ t[1] = r1 /\ t[2] = r2
    OBVIOUS
<1>. HIDE DEF s, t
<1>3. \A i \in 1..Len(s) : s[i] = t[i]
    <2>1. 1..Len(s) = {1, 2}
        BY <1>1
    <2>. QED
        BY <1>1, <1>2, <2>1
<1>4. s = t
    BY <1>1, <1>2, <1>3, SeqEqual
<1>. QED
    BY <1>4 DEF s, t

\* One record, of the n bytes from p on.
LEMMA WriteOne ==
    ASSUME NEW next, NEW r, NEW p \in Nat, NEW n \in 1..MaxHunk,
           IsPatchVec(data), Sound(data, out), Reaches(data, out, p), Fits(data, r, p, n),
           p = UnsafeOffset => RunMeetsOthersAt(data, UnsafeOffset) /\ (r.rle \/ EndsInRun(out)),
           Write(<<r>>, next)
    PROVE  /\ Sound(data, out') /\ Reaches(data, out', p + n)
           /\ EndsInRun(out') <=> r.rle
           /\ phase' = next
<1>1. out \in Seq(Records) /\ Good(r)
    BY DEF Sound, Fits, Good
<1>2. \A i \in DOMAIN <<r>> : Good(<<r>>[i])
    BY <1>1
<1>3. out' = out \o <<r>> /\ phase' = next
    BY <1>2, WriteAll
<1>4. out \o <<r>> = Append(out, r)
    BY <1>1 DEF Fits
<1>5. out' = Append(out, r)
    BY <1>3, <1>4
<1>. QED
    BY <1>3, <1>5, AppendRecord

\* Two records, the second of them a run.
LEMMA WriteTwo ==
    ASSUME NEW next, NEW r1, NEW r2, NEW p \in Nat, NEW n \in 1..MaxHunk, NEW m \in 1..MaxHunk,
           IsPatchVec(data), Sound(data, out), Reaches(data, out, p),
           Fits(data, r1, p, n), Fits(data, r2, p + n, m), r2.rle,
           p = UnsafeOffset => RunMeetsOthersAt(data, UnsafeOffset) /\ (r1.rle \/ EndsInRun(out)),
           p + n = UnsafeOffset => RunMeetsOthersAt(data, UnsafeOffset),
           Write(<<r1, r2>>, next)
    PROVE  /\ Sound(data, out') /\ Reaches(data, out', p + n + m)
           /\ EndsInRun(out')
           /\ phase' = next
<1>1. out \in Seq(Records) /\ r1 \in Records /\ Good(r1) /\ r2 \in Records /\ Good(r2)
    BY DEF Sound, Fits, Good
<1>2. out' = out \o <<r1, r2>> /\ phase' = next
    <2>1. \A i \in DOMAIN <<r1, r2>> : Good(<<r1, r2>>[i])
        BY <1>1
    <2>. QED
        BY <2>1, WriteAll
<1>3. out' = Append(Append(out, r1), r2)
    BY <1>1, <1>2, AppendTwice
<1>4. Sound(data, Append(out, r1)) /\ Reaches(data, Append(out, r1), p + n)
    BY AppendRecord
<1>5. p + n \in Nat
    BY Sizes
<1>. QED
    BY <1>2, <1>3, <1>4, <1>5, AppendRecord

\* The empty record is refused, before anything is written.
LEMMA WriteRefused ==
    ASSUME NEW next, NEW r1, NEW r2, out \in Seq(Records), Size(r1) = 0,
           Write(<<r1, r2>>, next)
    PROVE  out' = out /\ phase' = "bad length"
<1> DEFINE s == <<r1, r2>>
<1>1. Len(s) = 2 /\ 1 \in DOMAIN s /\ ~Good(s[1]) /\ SubSeq(s, 1, 0) = <<>>
    BY DEF Good
<1>2. Write(s, next)
    OBVIOUS
<1>. HIDE DEF s
<1> DEFINE k == CHOOSE k \in 0..(Len(s) - 1) : ~Good(s[k + 1]) /\ \A i \in 1..k : Good(s[i])
<1>3. phase' = "bad length" /\ out' = out \o SubSeq(s, 1, k)
    BY <1>1, <1>2 DEF Write
<1>4. k = 0
    BY <1>1
<1>. HIDE DEF k
<1>5. out' = out \o <<>>
    BY <1>1, <1>3, <1>4
<1>6. out \o <<>> = out
    OBVIOUS
<1>. QED
    BY <1>3, <1>5, <1>6

LEMMA StandardFits ==
    ASSUME NEW d, NEW p \in Addresses, NEW s \in Seq(Bytes),
           \A i \in 1..Len(s) : p + i - 1 \in DOMAIN d /\ s[i] = d[p + i - 1]
    PROVE  Fits(d, StandardRecord(p, s), p, Len(s))
<1> DEFINE r == StandardRecord(p, s)
<1>1. r \in Records /\ r.rle = FALSE /\ r.offset = p /\ r.bytes = s
    BY DEF StandardRecord, Records
<1>. HIDE DEF r
<1>2. p \in Nat /\ Len(s) \in Nat
    BY Sizes DEF Addresses
<1>3. \A a \in p..(p + Len(s) - 1) : a \in DOMAIN d /\ s[a - p + 1] = d[a]
    <2>1. TAKE a \in p..(p + Len(s) - 1)
    <2>2. a - p + 1 \in 1..Len(s) /\ p + (a - p + 1) - 1 = a
        BY <1>2
    <2>. QED
        BY <2>2
<1>. QED
    BY <1>1, <1>3 DEF Fits, Size, ByteAt, r

LEMMA RunFits ==
    ASSUME NEW d, NEW p \in Addresses, NEW b \in Bytes, NEW n \in Nat,
           \A i \in 1..n : p + i - 1 \in DOMAIN d /\ d[p + i - 1] = b
    PROVE  Fits(d, RleRecord(p, b, n), p, n) /\ RleRecord(p, b, n).rle
<1> DEFINE r == RleRecord(p, b, n)
<1>1. r \in Records /\ r.rle = TRUE /\ r.offset = p /\ r.byte = b /\ r.count = n
    BY DEF RleRecord, Records
<1>. HIDE DEF r
<1>2. p \in Nat
    BY Sizes DEF Addresses
<1>3. \A a \in p..(p + n - 1) : a \in DOMAIN d /\ d[a] = b
    <2>1. TAKE a \in p..(p + n - 1)
    <2>2. a - p + 1 \in 1..n /\ p + (a - p + 1) - 1 = a
        BY <1>2
    <2>. QED
        BY <2>2
<1>. QED
    BY <1>1, <1>3 DEF Fits, Size, ByteAt, r

-----------------------------------------------------------------------------
(* The place in the patch.                                                 *)

\* What every action but the first and the last finds.
LEMMA PlaceIs ==
    ASSUME IInv, Running
    PROVE  /\ IsPatchVec(data) /\ \A a \in DOMAIN data : a \in Nat /\ a <= Top /\ data[a] \in Bytes
           /\ hunk \in Seq(Bytes) /\ Len(hunk) \in 0..MaxHunk
           /\ from \in 0..(Top + 1) /\ Held \in 0..2
           /\ Pos \in 0..(Top + 1) /\ Pos + Len(hunk) + Held = from
           /\ \A i \in 1..Len(hunk) : Pos + i - 1 \in DOMAIN data /\ hunk[i] = data[Pos + i - 1]
           /\ Pos + Len(hunk) <= Top + 1
           /\ Len(hunk) > 0 => Pos \in Addresses
           /\ Len(hunk) > 0 /\ phase \in {"whole", "middle", "extra"} => addr = Pos
<1>. USE Sizes
<1>1. /\ IsPatchVec(data) /\ hunk \in Seq(Bytes) /\ Len(hunk) \in 0..MaxHunk
      /\ from \in 0..(Top + 1)
    BY DEF IInv, TypeOK
<1>2. \A a \in DOMAIN data : a \in Nat /\ a <= Top /\ data[a] \in Bytes
    BY <1>1 DEF IsPatchVec, Addresses
<1>3. Held \in 0..2
    BY DEF Held
<1>4. /\ Pos \in 0..(Top + 1) /\ Pos = from - Held - Len(hunk)
      /\ phase \in {"whole", "middle", "extra"} => addr = IF Pos = Top + 1 THEN 0 ELSE Pos
      /\ \A i \in 1..Len(hunk) : Pos + i - 1 \in DOMAIN data /\ hunk[i] = data[Pos + i - 1]
    BY DEF IInv, HunkIsThePatch, Pos
<1>5. Pos + Len(hunk) <= Top + 1
    BY <1>1, <1>3, <1>4
<1>6. Len(hunk) > 0 => Pos \in Addresses /\ Pos # Top + 1
    <2>1. Len(hunk) > 0 => Pos + 1 - 1 \in DOMAIN data
        BY <1>1, <1>4
    <2>. QED
        BY <1>2, <1>4, <2>1 DEF Addresses
<1>. QED
    BY <1>1, <1>2, <1>3, <1>4, <1>5, <1>6

\* The first n bytes of the hunk are written.
LEMMA Consume ==
    ASSUME IInv, phase \in {"whole", "middle"}, NEW n \in 0..Len(hunk),
           addr' = Plus(addr, n), hunk' = From(hunk, n), UNCHANGED <<data, from, safety, extra>>
    PROVE  /\ Pos' = Pos + n
           /\ hunk' \in Seq(Bytes) /\ Len(hunk') = Len(hunk) - n
           /\ \A i \in 1..(Len(hunk) - n) : hunk'[i] = hunk[n + i]
           /\ addr' \in Addresses
           /\ HunkIsThePatch' /\ SafetyIsHeld'
<1>. USE Sizes
<1>1. Running
    BY DEF Running
<1>2. /\ IsPatchVec(data)
      /\ hunk \in Seq(Bytes) /\ Len(hunk) \in 0..MaxHunk /\ n \in Nat
      /\ from \in 0..(Top + 1) /\ Held \in 0..2
      /\ Pos \in 0..(Top + 1) /\ Pos + Len(hunk) + Held = from
      /\ \A i \in 1..Len(hunk) : Pos + i - 1 \in DOMAIN data /\ hunk[i] = data[Pos + i - 1]
      /\ Pos + Len(hunk) <= Top + 1
    BY <1>1, PlaceIs
<1>3. /\ hunk' \in Seq(Bytes) /\ Len(hunk') = Len(hunk) - n
      /\ \A i \in 1..(Len(hunk) - n) : hunk'[i] = hunk[n + i]
    BY <1>2, FromIs
<1>4. Held' = Held
    BY DEF Held
<1>5. Pos' = Pos + n
    <2>1. Pos = from - Held - Len(hunk) /\ Pos' = from - Held - Len(hunk')
        BY <1>4 DEF Pos
    <2>. QED
        BY <1>2, <1>3, <2>1
<1>6. addr' = IF Pos' = Top + 1 THEN 0 ELSE Pos'
    <2>1. addr = IF Pos = Top + 1 THEN 0 ELSE Pos
        BY <1>1 DEF IInv, HunkIsThePatch
    <2>2. CASE Pos = Top + 1
        <3>1. n = 0 /\ addr = 0
            BY <1>2, <2>1, <2>2
        <3>. QED
            BY <1>2, <1>5, <2>2, <3>1, PlusIs
    <2>3. CASE Pos # Top + 1
        <3>1. addr = Pos /\ Pos \in Nat /\ Pos + n <= Top + 1
            BY <1>2, <2>1, <2>3
        <3>. QED
            BY <1>2, <1>5, <3>1, PlusIs
    <2>. QED
        BY <2>2, <2>3
<1>7. \A i \in 1..Len(hunk') : Pos' + i - 1 \in DOMAIN data /\ hunk'[i] = data[Pos' + i - 1]
    <2>1. TAKE i \in 1..Len(hunk')
    <2>2. n + i \in 1..Len(hunk) /\ Pos + (n + i) - 1 = Pos' + i - 1 /\ hunk'[i] = hunk[n + i]
        BY <1>2, <1>3, <1>5
    <2>. QED
        BY <1>2, <2>2
<1>8. HunkIsThePatch'
    <2>1. Pos' \in 0..(Top + 1)
        BY <1>2, <1>5
    <2>2. extra' # NoByte => from' - 1 \in DOMAIN data' /\ extra' = data'[from' - 1] /\ from' - 1 > UnsafeOffset
        BY <1>1 DEF IInv, HunkIsThePatch
    <2>. QED
        BY <1>6, <1>7, <2>1, <2>2 DEF HunkIsThePatch
<1>9. SafetyIsHeld'
    BY <1>1 DEF IInv, SafetyIsHeld
<1>. QED
    BY <1>2, <1>3, <1>5, <1>6, <1>8, <1>9 DEF Addresses

-----------------------------------------------------------------------------
(* The actions: each keeps the invariant.                                  *)

LEMMA StillRunning ==
    ASSUME IsPatchVec(data), data' = data, Sound(data, out'),
           from' \in 0..(Top + 1), addr' \in Addresses,
           hunk' \in Seq(Bytes), Len(hunk') <= MaxHunk, finishing' \in 0..Len(hunk'),
           safety' \in Bytes \cup {NoByte}, extra' \in Bytes \cup {NoByte},
           phase' \in {"start", "hunks", "whole", "middle", "extra"}
    PROVE  TypeOK' /\ Sound(data, out)' /\ AssertionsHold' /\ FileIsThePatch'
<1>1. out' \in Seq(Records) /\ \A i \in DOMAIN out' : Good(out'[i])
    BY DEF Sound, Fitting
<1>2. TypeOK'
    BY <1>1 DEF TypeOK
<1>3. AssertionsHold' /\ FileIsThePatch'
    BY DEF AssertionsHold, SafetyByteIsThere, OnlyAdjoiningRunsStop, FileIsThePatch
<1>. QED
    BY <1>2, <1>3

LEMMA InitIsSound ==
    ASSUME Init
    PROVE  IInv
<1>1. IsPatchVec(data) /\ \A a \in DOMAIN data : a \in Nat
    BY ContentsArePatches, Sizes DEF Init, IsPatchVec, Addresses
<1>2. TypeOK
    BY <1>1, Sizes DEF Init, TypeOK, Addresses
<1>3. Sound(data, out)
    BY DEF Init, Sound, Ordered, Avoids
<1>4. Held = 0 /\ Pos = 0
    <2>1. Held = 0 /\ Len(hunk) = 0 /\ from = 0
        BY DEF Init, Held
    <2>. QED
        BY <2>1 DEF Pos
<1>5. Phases /\ HunkIsThePatch /\ SafetyIsHeld /\ StartsAreSafe /\ RunsAreMarked
    BY <1>4, Sizes DEF Init, Phases, HunkIsThePatch, SafetyIsHeld, StartsAreSafe, RunsAreMarked
<1>6. Reaches(data, out, Pos)
    BY <1>1, <1>4 DEF Init, Reaches
<1>7. AssertionsHold /\ FileIsThePatch
    BY DEF Init, AssertionsHold, SafetyByteIsThere, OnlyAdjoiningRunsStop, FileIsThePatch
<1>. QED
    BY <1>2, <1>3, <1>5, <1>6, <1>7 DEF IInv

LEMMA StartKeeps ==
    ASSUME IInv, Start
    PROVE  IInv'
<1>. USE DEF Start
<1>1. TypeOK' /\ Sound(data, out)'
    BY DEF IInv, TypeOK, Outcomes
<1>2. AssertionsHold' /\ FileIsThePatch'
    BY DEF AssertionsHold, SafetyByteIsThere, OnlyAdjoiningRunsStop, FileIsThePatch
<1>3. Held' = Held /\ Pos' = Pos
    BY DEF Held, Pos
<1>4. ASSUME Running'
      PROVE  /\ Phases' /\ HunkIsThePatch' /\ SafetyIsHeld' /\ StartsAreSafe' /\ RunsAreMarked'
             /\ Reaches(data, out, Pos)'
    <2>1. phase' = "hunks" /\ ~HasHunkStartingAt(data, UnsafeOffset) /\ Running
        BY <1>4 DEF Running
    <2>2. Phases' /\ StartsAreSafe' /\ RunsAreMarked'
        BY <2>1 DEF IInv, Phases, StartsAreSafe, RunsAreMarked
    <2>3. HunkIsThePatch' /\ SafetyIsHeld'
        BY <1>3, <2>1 DEF IInv, HunkIsThePatch, SafetyIsHeld
    <2>4. Reaches(data, out, Pos)'
        BY <1>3, <2>1 DEF IInv
    <2>. QED
        BY <2>2, <2>3, <2>4
<1>. QED
    BY <1>1, <1>2, <1>4 DEF IInv

\* What the hunk iterator gives.
LEMMA TakenIs ==
    ASSUME IInv, Iterating
    PROVE  /\ extra = NoByte /\ hunk = <<>> /\ finishing = 0 /\ ~HasHunkStartingAt(data, UnsafeOffset)
           /\ Base \in DOMAIN data /\ Base >= from
           /\ \A a \in DOMAIN data : a >= from => Base <= a
           /\ Taken \in Seq(Bytes) /\ Len(Taken) \in 1..MaxHunk /\ Base + Len(Taken) <= Top + 1
           /\ \A i \in 1..Len(Taken) : Base + i - 1 \in DOMAIN data /\ Taken[i] = data[Base + i - 1]
           /\ Len(Taken) = MaxHunk \/ Base + Len(Taken) \notin DOMAIN data
           /\ End = IF Base + Len(Taken) = Top + 1 THEN 0 ELSE Base + Len(Taken)
           /\ safety # NoByte => Base = UnsafeOffset
<1>1. phase = "hunks" /\ Running /\ Remaining(data, from) # {}
    BY DEF Iterating, Running
<1>2. extra = NoByte /\ hunk = <<>> /\ finishing = 0 /\ ~HasHunkStartingAt(data, UnsafeOffset)
    BY <1>1 DEF IInv, Phases, SafetyIsHeld
<1>3. IsPatchVec(data) /\ from \in Nat /\ \A a \in DOMAIN data : a \in Nat
    BY <1>1, PlaceIs
<1>4. /\ Base \in DOMAIN data /\ Base >= from
      /\ \A a \in DOMAIN data : a >= from => Base <= a
    BY <1>1, <1>3, NextBaseIs DEF Base, IsPatchVec
<1>5. /\ Taken \in Seq(Bytes) /\ Len(Taken) \in 1..MaxHunk /\ Base + Len(Taken) <= Top + 1
      /\ \A i \in 1..Len(Taken) : Base + i - 1 \in DOMAIN data /\ Taken[i] = data[Base + i - 1]
      /\ Len(Taken) = MaxHunk \/ Base + Len(Taken) \notin DOMAIN data
    <2>1. Taken = Hunk(data, Base, MaxHunk) /\ MaxHunk \in Nat /\ MaxHunk > 0
        BY Sizes DEF Taken
    <2>2. IsPatchVec(data) /\ Base \in DOMAIN data
        BY <1>3, <1>4
    <2>3. IsHunkOf(data, Base, MaxHunk, Taken)
        BY <2>1, <2>2, HunkIs
    <2>. QED
        BY <2>3 DEF IsHunkOf
<1>6. End = IF Base + Len(Taken) = Top + 1 THEN 0 ELSE Base + Len(Taken)
    <2>1. Base \in Nat /\ Len(Taken) \in Nat /\ Base + Len(Taken) <= Top + 1
        BY <1>3, <1>4, <1>5
    <2>. QED
        BY <2>1, PlusIs DEF End
<1>7. safety # NoByte => Base = UnsafeOffset
    <2>1. safety # NoByte => from = UnsafeOffset /\ UnsafeOffset \in DOMAIN data
        BY <1>1 DEF IInv, SafetyIsHeld
    <2>. QED
        BY <1>3, <1>4, <2>1
<1>. QED
    BY <1>2, <1>4, <1>5, <1>6, <1>7

LEMMA PlainHunkKeeps ==
    ASSUME IInv, PlainHunk
    PROVE  IInv'
<1>. USE Sizes
<1>1. /\ Iterating /\ phase = "hunks" /\ Running /\ phase' = "whole"
      /\ Guarded => End # UnsafeOffset /\ Base # UnsafeOffset
      /\ from' = Base + Len(Taken) /\ addr' = Base /\ hunk' = Taken /\ extra' = NoByte
      /\ data' = data /\ safety' = safety /\ finishing' = finishing /\ out' = out
    BY DEF PlainHunk, Iterating, Running
<1>2. /\ IsPatchVec(data) /\ \A a \in DOMAIN data : a \in Nat /\ a <= Top
      /\ Pos + Len(hunk) + Held = from /\ from \in 0..(Top + 1)
    BY <1>1, PlaceIs
<1>3. /\ extra = NoByte /\ hunk = <<>> /\ finishing = 0 /\ ~HasHunkStartingAt(data, UnsafeOffset)
      /\ Base \in DOMAIN data /\ Base >= from
      /\ \A a \in DOMAIN data : a >= from => Base <= a
      /\ Taken \in Seq(Bytes) /\ Len(Taken) \in 1..MaxHunk /\ Base + Len(Taken) <= Top + 1
      /\ \A i \in 1..Len(Taken) : Base + i - 1 \in DOMAIN data /\ Taken[i] = data[Base + i - 1]
      /\ End = IF Base + Len(Taken) = Top + 1 THEN 0 ELSE Base + Len(Taken)
      /\ safety # NoByte => Base = UnsafeOffset
    BY <1>1, TakenIs
<1>4. safety = NoByte /\ Base # UnsafeOffset
    BY <1>1, <1>3 DEF Guarded, HasEditAt
<1>5. Held = 0 /\ Held' = 0 /\ Pos = from /\ Pos' = Base
    <2>1. Held = 0 /\ Held' = 0
        BY <1>1, <1>3, <1>4 DEF Held
    <2>2. Pos' = from' - Held' - Len(hunk') /\ Pos = from - Held - Len(hunk) /\ Len(hunk) = 0
        BY <1>3 DEF Pos
    <2>. QED
        BY <1>1, <1>2, <1>3, <2>1, <2>2
<1>6. TypeOK' /\ Sound(data, out)' /\ AssertionsHold' /\ FileIsThePatch'
    <2>1. Sound(data, out') /\ from' \in 0..(Top + 1) /\ addr' \in Addresses /\ finishing' \in 0..Len(hunk')
        BY <1>1, <1>2, <1>3 DEF IInv, Addresses
    <2>2. safety' \in Bytes \cup {NoByte} /\ extra' \in Bytes \cup {NoByte}
        BY <1>1, <1>4
    <2>. QED
        BY <1>1, <1>2, <1>3, <2>1, <2>2, StillRunning
<1>7. Phases' /\ StartsAreSafe' /\ RunsAreMarked'
    <2>1. hunk' # <<>>
        BY <1>1, <1>3
    <2>. QED
        BY <1>1, <1>3, <1>4, <1>5, <2>1 DEF Phases, StartsAreSafe, RunsAreMarked
<1>8. HunkIsThePatch'
    BY <1>1, <1>2, <1>3, <1>5 DEF HunkIsThePatch
<1>9. SafetyIsHeld'
    <2>1. ~(from' = UnsafeOffset /\ UnsafeOffset \in DOMAIN data)
        BY <1>1, <1>3 DEF Guarded, HasEditAt
    <2>. QED
        BY <1>1, <1>3, <1>4, <2>1 DEF SafetyIsHeld
<1>10. Reaches(data, out, Pos)'
    <2>1. Reaches(data, out, from)
        BY <1>1, <1>5 DEF IInv
    <2>2. {a \in DOMAIN data : a < from} = {a \in DOMAIN data : a < Base}
        BY <1>2, <1>3
    <2>. QED
        BY <1>1, <1>5, <2>1, <2>2 DEF Reaches
<1>. QED
    BY <1>6, <1>7, <1>8, <1>9, <1>10 DEF IInv

LEMMA HunkBeforeUnsafeKeeps ==
    ASSUME IInv, HunkBeforeUnsafe
    PROVE  IInv'
<1>. USE Sizes
<1>1. /\ Iterating /\ phase = "hunks" /\ Running
      /\ Guarded /\ End = UnsafeOffset
      /\ from' = Base + Len(Taken) /\ addr' = Base /\ extra' = NoByte
      /\ data' = data /\ finishing' = finishing /\ out' = out
    BY DEF HunkBeforeUnsafe, Iterating, Running
<1>2. /\ IsPatchVec(data) /\ \A a \in DOMAIN data : a \in Nat /\ a <= Top /\ data[a] \in Bytes
      /\ Pos + Len(hunk) + Held = from /\ from \in 0..(Top + 1)
    BY <1>1, PlaceIs
<1>3. /\ extra = NoByte /\ hunk = <<>> /\ finishing = 0 /\ ~HasHunkStartingAt(data, UnsafeOffset)
      /\ Base \in DOMAIN data /\ Base >= from
      /\ \A a \in DOMAIN data : a >= from => Base <= a
      /\ Taken \in Seq(Bytes) /\ Len(Taken) \in 1..MaxHunk /\ Base + Len(Taken) <= Top + 1
      /\ \A i \in 1..Len(Taken) : Base + i - 1 \in DOMAIN data /\ Taken[i] = data[Base + i - 1]
      /\ Len(Taken) = MaxHunk \/ Base + Len(Taken) \notin DOMAIN data
      /\ End = IF Base + Len(Taken) = Top + 1 THEN 0 ELSE Base + Len(Taken)
      /\ safety # NoByte => Base = UnsafeOffset
    BY <1>1, TakenIs
<1>4. Base + Len(Taken) = UnsafeOffset /\ UnsafeOffset \in DOMAIN data
    BY <1>1, <1>3 DEF Guarded, HasEditAt
<1>5. safety = NoByte /\ Len(Taken) = MaxHunk
    BY <1>2, <1>3, <1>4
<1>6. phase' = "whole" /\ hunk' = Front(Taken) /\ safety' = Last(Taken)
    BY <1>5 DEF HunkBeforeUnsafe
<1>7. /\ hunk' \in Seq(Bytes) /\ Len(hunk') = MaxHunk - 1
      /\ \A i \in 1..(MaxHunk - 1) : hunk'[i] = Taken[i]
    <2>1. /\ Front(Taken) \in Seq(Bytes) /\ Len(Front(Taken)) = Len(Taken) - 1
          /\ \A i \in 1..(Len(Taken) - 1) : Front(Taken)[i] = Taken[i]
        BY <1>3, FrontIs
    <2>. QED
        BY <1>5, <1>6, <2>1
<1>8. safety' = data[UnsafeOffset - 1] /\ UnsafeOffset - 1 \in DOMAIN data /\ safety' \in Bytes
    BY <1>2, <1>3, <1>4, <1>5, <1>6 DEF Last
<1>9. Held = 0 /\ Held' = 1 /\ Pos = from /\ Pos' = Base
    <2>1. Held = 0 /\ Held' = 1
        BY <1>1, <1>3, <1>5, <1>8, Thresholds DEF Held
    <2>2. Pos' = from' - Held' - Len(hunk') /\ Pos = from - Held - Len(hunk) /\ Len(hunk) = 0
        BY <1>3 DEF Pos
    <2>3. Base \in Nat /\ from' = Base + MaxHunk /\ Len(hunk') = MaxHunk - 1 /\ from \in Nat
        BY <1>1, <1>2, <1>3, <1>5, <1>7
    <2>. QED
        BY <2>1, <2>2, <2>3
<1>10. TypeOK' /\ Sound(data, out)' /\ AssertionsHold' /\ FileIsThePatch'
    <2>1. Sound(data, out') /\ from' \in 0..(Top + 1) /\ addr' \in Addresses /\ finishing' \in 0..Len(hunk')
        BY <1>1, <1>2, <1>3, <1>7 DEF IInv, Addresses
    <2>. QED
        BY <1>1, <1>2, <1>6, <1>7, <1>8, <2>1, StillRunning
<1>11. Phases' /\ StartsAreSafe' /\ RunsAreMarked'
    <2>1. hunk' # <<>>
        BY <1>7
    <2>2. Base # UnsafeOffset
        BY <1>2, <1>3, <1>4
    <2>. QED
        BY <1>1, <1>3, <1>6, <1>9, <2>1, <2>2 DEF Phases, StartsAreSafe, RunsAreMarked
<1>12. HunkIsThePatch'
    <2>1. \A i \in 1..Len(hunk') : Base + i - 1 \in DOMAIN data /\ hunk'[i] = data[Base + i - 1]
        <3>1. TAKE i \in 1..Len(hunk')
        <3>2. i \in 1..(MaxHunk - 1) /\ i \in 1..Len(Taken)
            BY <1>5, <1>7
        <3>. QED
            BY <1>3, <1>7, <3>2
    <2>. QED
        BY <1>1, <1>2, <1>3, <1>9, <2>1 DEF HunkIsThePatch
<1>13. SafetyIsHeld'
    BY <1>1, <1>3, <1>4, <1>8, Thresholds DEF SafetyIsHeld
<1>14. Reaches(data, out, Pos)'
    <2>1. Reaches(data, out, from)
        BY <1>1, <1>9 DEF IInv
    <2>2. {a \in DOMAIN data : a < from} = {a \in DOMAIN data : a < Base}
        BY <1>2, <1>3
    <2>. QED
        BY <1>1, <1>9, <2>1, <2>2 DEF Reaches
<1>. QED
    BY <1>10, <1>11, <1>12, <1>13, <1>14 DEF IInv

LEMMA InFrontIs ==
    ASSUME NEW b \in Bytes, NEW s \in Seq(Bytes)
    PROVE  /\ <<b>> \o s \in Seq(Bytes) /\ Len(<<b>> \o s) = Len(s) + 1
           /\ (<<b>> \o s)[1] = b /\ \A i \in 1..Len(s) : (<<b>> \o s)[i + 1] = s[i]
  OBVIOUS

LEMMA HunkAtUnsafeKeeps ==
    ASSUME IInv, HunkAtUnsafe
    PROVE  IInv'
<1>. USE Sizes
<1>1. /\ Iterating /\ phase = "hunks" /\ Running
      /\ Guarded /\ End # UnsafeOffset /\ Base = UnsafeOffset
      /\ from' = Base + Len(Taken) /\ extra' = IF Len(Taken) = MaxHunk THEN Last(Taken) ELSE NoByte
      /\ data' = data /\ finishing' = finishing /\ out' = out
    BY DEF HunkAtUnsafe, Iterating, Running
<1>2. /\ IsPatchVec(data) /\ \A a \in DOMAIN data : a \in Nat /\ a <= Top /\ data[a] \in Bytes
      /\ Pos + Len(hunk) + Held = from /\ from \in 0..(Top + 1)
    BY <1>1, PlaceIs
<1>3. /\ extra = NoByte /\ hunk = <<>> /\ finishing = 0 /\ ~HasHunkStartingAt(data, UnsafeOffset)
      /\ Base \in DOMAIN data /\ Base >= from
      /\ \A a \in DOMAIN data : a >= from => Base <= a
      /\ Taken \in Seq(Bytes) /\ Len(Taken) \in 1..MaxHunk /\ Base + Len(Taken) <= Top + 1
      /\ \A i \in 1..Len(Taken) : Base + i - 1 \in DOMAIN data /\ Taken[i] = data[Base + i - 1]
    BY <1>1, TakenIs
<1>4. from = UnsafeOffset
    <2>1. UnsafeOffset \in DOMAIN data /\ UnsafeOffset - 1 \in DOMAIN data
        BY <1>1, <1>3 DEF HasHunkStartingAt
    <2>2. ~(UnsafeOffset - 1 >= from)
        BY <1>1, <1>3, <2>1
    <2>. QED
        BY <1>1, <1>2, <1>3, <2>2
<1>5. /\ safety # NoByte /\ UnsafeOffset \in DOMAIN data
      /\ UnsafeOffset - 1 \in DOMAIN data /\ safety = data[UnsafeOffset - 1] /\ safety \in Bytes
    <2>1. SafetyIsHeld
        BY <1>1 DEF IInv
    <2>2. UnsafeOffset \in DOMAIN data
        BY <1>1, <1>3
    <2>. QED
        BY <1>2, <1>4, <2>1, <2>2 DEF SafetyIsHeld
<1> DEFINE t == IF Len(Taken) = MaxHunk THEN Front(Taken) ELSE Taken
<1>6. phase' = "whole" /\ addr' = Base - 1 /\ hunk' = <<safety>> \o t /\ safety' = NoByte
    BY <1>5 DEF HunkAtUnsafe, WithSafetyByte
<1>7. /\ t \in Seq(Bytes) /\ Len(t) = IF Len(Taken) = MaxHunk THEN Len(Taken) - 1 ELSE Len(Taken)
      /\ \A i \in 1..Len(t) : t[i] = Taken[i]
    <2>1. CASE Len(Taken) = MaxHunk
        <3>2. /\ Front(Taken) \in Seq(Bytes) /\ Len(Front(Taken)) = Len(Taken) - 1
              /\ \A i \in 1..(Len(Taken) - 1) : Front(Taken)[i] = Taken[i]
            BY <1>3, FrontIs
        <3>. QED
            BY <2>1, <3>2
    <2>2. CASE Len(Taken) # MaxHunk
        BY <1>3, <2>2
    <2>. QED
        BY <2>1, <2>2
<1>. HIDE DEF t
<1>8. /\ hunk' \in Seq(Bytes) /\ Len(hunk') = Len(t) + 1
      /\ hunk'[1] = safety /\ \A i \in 1..Len(t) : hunk'[i + 1] = t[i]
    BY <1>5, <1>6, <1>7, InFrontIs
<1>9. extra' # NoByte => /\ from' - 1 \in DOMAIN data /\ extra' = data[from' - 1]
                        /\ from' - 1 > UnsafeOffset
    <2>1. extra' # NoByte => Len(Taken) = MaxHunk /\ extra' = Taken[MaxHunk]
        BY <1>1 DEF Last
    <2>. QED
        BY <1>1, <1>3, <2>1
<1>10. extra' # NoByte <=> Len(Taken) = MaxHunk
    <2>1. Taken[Len(Taken)] \in Bytes
        BY <1>3
    <2>. QED
        BY <1>1, <2>1, Thresholds DEF Last
<1>11. Pos = UnsafeOffset - 1 /\ Pos' = UnsafeOffset - 1
    <2>1. Held = 1 /\ Held' = IF Len(Taken) = MaxHunk THEN 1 ELSE 0
        BY <1>3, <1>5, <1>6, <1>10 DEF Held
    <2>2. Pos' = from' - Held' - Len(hunk') /\ Pos = from - Held - Len(hunk) /\ Len(hunk) = 0
        BY <1>3 DEF Pos
    <2>3. from' = UnsafeOffset + Len(Taken) /\ Len(Taken) \in Nat
        BY <1>1, <1>3
    <2>. QED
        BY <1>4, <1>7, <1>8, <2>1, <2>2, <2>3
<1>12. TypeOK' /\ Sound(data, out)' /\ AssertionsHold' /\ FileIsThePatch'
    <2>1. Sound(data, out') /\ from' \in 0..(Top + 1) /\ addr' \in Addresses
        <3>1. Sound(data, out')
            BY <1>1 DEF IInv
        <3>2. from' \in 0..(Top + 1)
            BY <1>1, <1>2, <1>3
        <3>3. Base - 1 \in 0..Top
            BY <1>1, <1>2, <1>3, <1>5
        <3>. QED
            BY <1>6, <3>1, <3>2, <3>3 DEF Addresses
    <2>2. Len(hunk') <= MaxHunk /\ finishing' \in 0..Len(hunk')
        BY <1>1, <1>3, <1>7, <1>8
    <2>3. extra' \in Bytes \cup {NoByte}
        BY <1>2, <1>9
    <2>. QED
        BY <1>1, <1>2, <1>6, <1>8, <2>1, <2>2, <2>3, StillRunning
<1>13. Phases' /\ StartsAreSafe' /\ RunsAreMarked'
    <2>1. hunk' # <<>>
        BY <1>7, <1>8
    <2>. QED
        BY <1>1, <1>3, <1>6, <1>11, <2>1 DEF Phases, StartsAreSafe, RunsAreMarked
<1>14. HunkIsThePatch'
    <2> DEFINE p == UnsafeOffset - 1
    <2>1. \A i \in 1..Len(hunk') : p + i - 1 \in DOMAIN data /\ hunk'[i] = data[p + i - 1]
        <3>1. TAKE i \in 1..Len(hunk')
        <3>2. CASE i = 1
            BY <1>5, <1>8, <3>2
        <3>3. CASE i # 1
            <4>1. i - 1 \in 1..Len(t) /\ i - 1 \in 1..Len(Taken) /\ Base + (i - 1) - 1 = p + i - 1
                BY <1>1, <1>3, <1>7, <1>8, <3>3
            <4>3. hunk'[(i - 1) + 1] = t[i - 1] /\ t[i - 1] = Taken[i - 1]
                BY <1>7, <1>8, <4>1
            <4>4. (i - 1) + 1 = i
                OBVIOUS
            <4>2. hunk'[i] = Taken[i - 1]
                BY <4>3, <4>4
            <4>. QED
                BY <1>3, <4>1, <4>2
        <3>. QED
            BY <3>2, <3>3
    <2>2. p \in 0..(Top + 1) /\ p # Top + 1
        OBVIOUS
    <2>. QED
        BY <1>1, <1>6, <1>9, <1>11, <2>1, <2>2 DEF HunkIsThePatch
<1>15. SafetyIsHeld'
    <2>1. from' # UnsafeOffset
        BY <1>1, <1>3
    <2>. QED
        BY <1>1, <1>3, <1>6, <2>1 DEF SafetyIsHeld
<1>16. Reaches(data, out, Pos)'
    BY <1>1, <1>11 DEF IInv
<1>. QED
    BY <1>12, <1>13, <1>14, <1>15, <1>16 DEF IInv

LEMMA ExtraByteKeeps ==
    ASSUME IInv, ExtraByte
    PROVE  IInv'
<1>. USE Sizes
<1>1. /\ phase = "extra" /\ Running /\ extra' = NoByte
      /\ data' = data /\ from' = from /\ addr' = addr /\ hunk' = hunk
      /\ safety' = safety /\ finishing' = finishing
    BY DEF ExtraByte, Running
<1>2. /\ IsPatchVec(data) /\ \A a \in DOMAIN data : a \in Nat /\ a <= Top /\ data[a] \in Bytes
      /\ Pos + Len(hunk) + Held = from /\ from \in 0..(Top + 1) /\ Pos \in 0..(Top + 1)
    BY <1>1, PlaceIs
<1>3. /\ TypeOK /\ Sound(data, out) /\ Reaches(data, out, Pos)
      /\ hunk = <<>> /\ finishing = 0 /\ HunkIsThePatch /\ SafetyIsHeld
    BY <1>1 DEF IInv, Phases
<1>4. out \in Seq(Records) /\ Len(hunk) = 0
    BY <1>3 DEF Sound
<1>5. /\ Pos' = from - (IF safety # NoByte THEN 1 ELSE 0)
      /\ Sound(data, out') /\ Reaches(data, out', Pos') /\ phase' = "hunks"
    <2>1. Pos = from - Held /\ Pos' = from - Held'
        <3>1. Held \in 0..2 /\ Held' \in 0..2
            BY DEF Held
        <3>2. Pos = from - Held - Len(hunk) /\ Pos' = from - Held' - Len(hunk)
            BY <1>1 DEF Pos
        <3>. QED
            BY <1>2, <1>4, <3>1, <3>2
    <2>2. Held' = IF safety # NoByte THEN 1 ELSE 0
        BY <1>1 DEF Held
    <2>3. CASE extra = NoByte
        <3>1. Held' = Held /\ Pos' = Pos
            BY <1>1, <2>1, <2>3 DEF Held
        <3>2. Write(<<>>, "hunks")
            BY <2>3 DEF ExtraByte
        <3>3. out' = out /\ phase' = "hunks"
            BY <1>4, <3>2, WriteNone
        <3>. QED
            BY <1>2, <1>3, <2>1, <2>2, <3>1, <3>3
    <2>4. CASE extra # NoByte
        <3>1. from - 1 \in DOMAIN data /\ extra = data[from - 1] /\ from - 1 > UnsafeOffset
            BY <1>3, <2>4 DEF HunkIsThePatch
        <3>2. safety = NoByte
            BY <1>2, <1>3, <3>1 DEF SafetyIsHeld
        <3>3. Held = 1 /\ Held' = 0
            BY <1>1, <2>4, <3>2 DEF Held
        <3>4. Pos = from - 1 /\ Pos' = Pos + 1 /\ Pos \in Addresses /\ Pos # UnsafeOffset
            BY <1>2, <2>1, <3>1, <3>3 DEF Addresses
        <3>5. addr = Pos
            BY <1>1, <1>3, <3>4 DEF HunkIsThePatch, Addresses
        <3> DEFINE s == <<extra>>
        <3>6. s \in Seq(Bytes) /\ Len(s) = 1 /\ s[1] = data[Pos]
            BY <1>2, <3>1, <3>4
        <3>7. Write(<<StandardRecord(Pos, s)>>, "hunks")
            BY <2>4, <3>5 DEF ExtraByte
        <3>. HIDE DEF s
        <3>8. Fits(data, StandardRecord(Pos, s), Pos, 1)
            <4>1. \A i \in 1..Len(s) : Pos + i - 1 \in DOMAIN data /\ s[i] = data[Pos + i - 1]
                BY <1>2, <3>1, <3>4, <3>6
            <4>. QED
                BY <3>4, <3>6, <4>1, StandardFits
        <3>9. Sound(data, out') /\ Reaches(data, out', Pos + 1) /\ phase' = "hunks"
            BY <1>2, <1>3, <3>4, <3>7, <3>8, WriteOne DEF Addresses
        <3>. QED
            BY <2>1, <2>2, <3>4, <3>9
    <2>. QED
        BY <2>3, <2>4
<1>6. TypeOK' /\ Sound(data, out)' /\ AssertionsHold' /\ FileIsThePatch'
    BY <1>1, <1>3, <1>5, StillRunning DEF TypeOK
<1>7. Phases' /\ StartsAreSafe' /\ RunsAreMarked'
    BY <1>1, <1>3, <1>5 DEF Phases, StartsAreSafe, RunsAreMarked
<1>8. HunkIsThePatch'
    <2>1. Pos' \in 0..(Top + 1)
        <3>1. safety # NoByte => from = UnsafeOffset
            BY <1>3 DEF SafetyIsHeld
        <3>. QED
            BY <1>2, <1>5, <3>1
    <2>. QED
        BY <1>1, <1>4, <1>5, <2>1 DEF HunkIsThePatch
<1>9. SafetyIsHeld'
    BY <1>1, <1>3 DEF SafetyIsHeld
<1>. QED
    BY <1>1, <1>5, <1>6, <1>7, <1>8, <1>9 DEF IInv

\* The first n bytes of the hunk are written as records, and nothing stops the writer.
LEMMA WrittenOn ==
    ASSUME IInv, phase \in {"whole", "middle"}, NEW n \in 0..Len(hunk),
           addr' = Plus(addr, n), hunk' = From(hunk, n), UNCHANGED <<data, from, safety, extra>>,
           finishing' \in 0..(Len(hunk) - n),
           Sound(data, out'), Reaches(data, out', Pos + n), phase' \in {"middle", "extra"},
           phase' = "extra" => hunk' = <<>> /\ finishing' = 0,
           phase' = "middle" => Pos' # UnsafeOffset \/ (EndsInRun(out') /\ BehindARun'),
           RunsAreMarked'
    PROVE  IInv'
<1>1. Running
    BY DEF Running
<1>2. /\ Pos' = Pos + n
      /\ hunk' \in Seq(Bytes) /\ Len(hunk') = Len(hunk) - n
      /\ addr' \in Addresses /\ HunkIsThePatch' /\ SafetyIsHeld'
    BY Consume
<1>3. /\ IsPatchVec(data) /\ from \in 0..(Top + 1) /\ Len(hunk) \in Nat /\ Len(hunk) <= MaxHunk
      /\ safety \in Bytes \cup {NoByte} /\ extra \in Bytes \cup {NoByte}
    BY DEF IInv, TypeOK
<1>4. TypeOK' /\ Sound(data, out)' /\ AssertionsHold' /\ FileIsThePatch'
    <2>1. Len(hunk') <= MaxHunk
        BY <1>2, <1>3, Sizes
    <2>. QED
        BY <1>2, <1>3, <2>1, StillRunning
<1>5. Phases' /\ StartsAreSafe'
    BY DEF Phases, StartsAreSafe
<1>6. Reaches(data, out, Pos)'
    BY <1>2
<1>. QED
    BY <1>2, <1>4, <1>5, <1>6 DEF IInv

\* The whole hunk is written.
LEMMA HunkWritten ==
    ASSUME IInv, phase \in {"whole", "middle"},
           addr' = Plus(addr, Len(hunk)), hunk' = <<>>, UNCHANGED <<data, from, safety, extra>>,
           finishing' = 0, phase' = "extra",
           Sound(data, out'), Reaches(data, out', Pos + Len(hunk))
    PROVE  IInv'
<1> DEFINE n == Len(hunk)
<1>1. hunk \in Seq(Bytes)
    BY DEF IInv, TypeOK
<1>2. n \in 0..Len(hunk)
    BY <1>1
<1>3. From(hunk, n) = <<>>
    <2>1. From(hunk, n) \in Seq(Bytes) /\ Len(From(hunk, n)) = Len(hunk) - n
        BY <1>1, <1>2, FromIs
    <2>2. Len(From(hunk, n)) = 0
        BY <1>2, <2>1
    <2>. QED
        BY <2>1, <2>2
<1>4. RunsAreMarked'
    BY DEF RunsAreMarked
<1>5. finishing' \in 0..(Len(hunk) - n)
    BY <1>2
<1>. HIDE DEF n
<1>6. addr' = Plus(addr, n) /\ Reaches(data, out', Pos + n)
    BY DEF n
<1>. QED
    BY <1>2, <1>3, <1>4, <1>5, <1>6, WrittenOn

LEMMA WholeHunkKeeps ==
    ASSUME IInv, WholeHunk
    PROVE  IInv'
<1>. USE Sizes
<1>1. /\ phase = "whole" /\ Running
      /\ addr' = Plus(addr, Len(hunk)) /\ hunk' = <<>> /\ finishing' = finishing
      /\ UNCHANGED <<data, from, safety, extra>>
    BY DEF WholeHunk, Running, Past
<1>2. /\ IsPatchVec(data) /\ \A a \in DOMAIN data : a \in Nat /\ a <= Top
      /\ hunk \in Seq(Bytes) /\ Len(hunk) \in 0..MaxHunk
      /\ \A i \in 1..Len(hunk) : Pos + i - 1 \in DOMAIN data /\ hunk[i] = data[Pos + i - 1]
      /\ Len(hunk) > 0 => Pos \in Addresses /\ addr = Pos
    BY <1>1, PlaceIs
<1>3. Sound(data, out) /\ Reaches(data, out, Pos) /\ hunk # <<>> /\ finishing = 0 /\ Pos # UnsafeOffset
    BY <1>1 DEF IInv, Phases, StartsAreSafe
<1>4. Len(hunk) \in 1..MaxHunk /\ Pos \in Addresses /\ addr = Pos /\ Pos \in Nat
    BY <1>2, <1>3 DEF Addresses
<1> DEFINE r == IF Len(hunk) > Short /\ AllEqual(hunk)
                THEN RleRecord(addr, hunk[1], Len(hunk)) ELSE StandardRecord(addr, hunk)
<1>5. Write(<<r>>, "extra")
    BY DEF WholeHunk
<1>6. Fits(data, r, Pos, Len(hunk))
    <2>1. CASE Len(hunk) > Short /\ AllEqual(hunk)
        <3>1. hunk[1] \in Bytes /\ \A i \in 1..Len(hunk) : hunk[i] = hunk[1]
            BY <1>2, <1>4, <2>1 DEF AllEqual
        <3>2. \A i \in 1..Len(hunk) : Pos + i - 1 \in DOMAIN data /\ data[Pos + i - 1] = hunk[1]
            BY <1>2, <3>1
        <3>3. Len(hunk) \in Nat
            BY <1>4
        <3>4. Fits(data, RleRecord(Pos, hunk[1], Len(hunk)), Pos, Len(hunk))
            BY <1>4, <3>1, <3>2, <3>3, RunFits
        <3>. QED
            BY <1>4, <2>1, <3>4
    <2>2. CASE ~(Len(hunk) > Short /\ AllEqual(hunk))
        <3>1. Fits(data, StandardRecord(Pos, hunk), Pos, Len(hunk))
            BY <1>2, <1>4, StandardFits
        <3>2. r = StandardRecord(Pos, hunk)
            BY <1>4, <2>2
        <3>. QED
            BY <3>1, <3>2
    <2>. QED
        BY <2>1, <2>2
<1>. HIDE DEF r
<1>7. Sound(data, out') /\ Reaches(data, out', Pos + Len(hunk)) /\ phase' = "extra"
    BY <1>2, <1>3, <1>4, <1>5, <1>6, WriteOne
<1>. QED
    BY <1>1, <1>3, <1>7, HunkWritten

LEMMA SplitHunkKeeps ==
    ASSUME IInv, SplitHunk
    PROVE  IInv'
<1>. USE Sizes
<1> DEFINE n == IF AllEqual(SubSeq(hunk, 1, Edge)) THEN RunLength(hunk, Edge) ELSE 0
<1>1. /\ phase = "whole" /\ Running /\ Len(hunk) > Standard /\ ~AllEqual(hunk)
      /\ Write(IF n = 0 THEN <<>> ELSE <<RleRecord(addr, hunk[1], n)>>, "middle")
      /\ addr' = Plus(addr, n) /\ hunk' = From(hunk, n) /\ finishing' = FinishingRun(From(hunk, n))
      /\ UNCHANGED <<data, from, safety, extra>>
    BY DEF SplitHunk, Running, Past
<1>2. /\ IsPatchVec(data) /\ hunk \in Seq(Bytes) /\ Len(hunk) \in 0..MaxHunk
      /\ Pos \in 0..(Top + 1)
      /\ \A i \in 1..Len(hunk) : Pos + i - 1 \in DOMAIN data /\ hunk[i] = data[Pos + i - 1]
      /\ Len(hunk) > 0 => Pos \in Addresses /\ addr = Pos
    BY <1>1, PlaceIs
<1>3. Sound(data, out) /\ Reaches(data, out, Pos) /\ Pos # UnsafeOffset
    BY <1>1 DEF IInv, StartsAreSafe
<1>4. Len(hunk) >= Edge /\ Len(hunk) \in Nat /\ Pos \in Addresses /\ addr = Pos /\ Pos \in Nat
    BY <1>1, <1>2
<1>5. /\ n \in 0..(Len(hunk) - 1) /\ (n = 0 \/ n >= Edge)
      /\ \A i \in 1..n : hunk[i] = hunk[1]
      /\ n > 0 => hunk[n + 1] # hunk[1]
      /\ n = 0 => ~AllEqual(SubSeq(hunk, 1, Edge))
    <2>1. CASE AllEqual(SubSeq(hunk, 1, Edge))
        <3> DEFINE t == SubSeq(hunk, 1, Edge)
        <3>1. /\ t \in Seq(Bytes) /\ Len(t) = Edge /\ \A i \in 1..Edge : t[i] = hunk[i]
            <4>1. 1 \in 1..(Len(hunk) + 1) /\ Edge \in (1 - 1)..Len(hunk)
                BY <1>4
            <4>2. /\ t \in Seq(Bytes) /\ Len(t) = Edge - 1 + 1
                  /\ \A i \in 1..(Edge - 1 + 1) : t[i] = hunk[1 + i - 1]
                BY <1>2, <4>1, SliceIs
            <4>. QED
                BY <4>2
        <3>2. AllEqual(t)
            BY <2>1
        <3>. HIDE DEF t
        <3>3. \A i \in 1..Edge : hunk[i] = hunk[1]
            <4>1. DOMAIN t = 1..Edge /\ 1 \in 1..Edge
                BY <3>1
            <4>2. \A i \in 1..Edge : t[i] = t[1]
                BY <3>2, <4>1 DEF AllEqual
            <4>. QED
                BY <3>1, <4>1, <4>2
        <3>4. n = RunLength(hunk, Edge) /\ Edge \in 1..Len(hunk)
            BY <1>4, <2>1
        <3>. HIDE DEF n
        <3>5. /\ n \in Edge..Len(hunk) /\ \A i \in 1..n : hunk[i] = hunk[1]
              /\ n = Len(hunk) \/ hunk[n + 1] # hunk[1]
            BY <1>2, <3>3, <3>4, RunLengthIs
        <3>6. n # Len(hunk)
            <4>1. SUFFICES ASSUME n = Len(hunk) PROVE AllEqual(hunk)
                BY <1>1
            <4>2. DOMAIN hunk = 1..n
                BY <1>2, <4>1
            <4>. QED
                BY <3>5, <4>2 DEF AllEqual
        <3>. QED
            BY <1>4, <3>5, <3>6
    <2>2. CASE ~AllEqual(SubSeq(hunk, 1, Edge))
        BY <1>4, <2>2
    <2>. QED
        BY <2>1, <2>2
<1>. HIDE DEF n
<1>6. n \in 0..Len(hunk)
    BY <1>4, <1>5
<1>7. /\ Pos' = Pos + n /\ hunk' \in Seq(Bytes) /\ Len(hunk') = Len(hunk) - n
      /\ \A i \in 1..(Len(hunk) - n) : hunk'[i] = hunk[n + i]
    BY <1>1, <1>6, Consume
<1>8. finishing' \in 0..(Len(hunk) - n) /\ EndsWithRun(hunk', finishing')
    BY <1>1, <1>7, FinishingRunIs
<1>9. CASE n = 0
    <2>1. Write(<<>>, "middle")
        BY <1>1, <1>9
    <2>2. out' = out /\ phase' = "middle"
        BY <1>3, <2>1, WriteNone DEF Sound
    <2>3. Pos' = Pos /\ Pos + n = Pos /\ Len(hunk') >= Edge
        BY <1>4, <1>7, <1>9
    <2>4. hunk' = hunk
        BY <1>2, <1>7, <1>9
    <2>5. RunsAreMarked'
        BY <1>5, <1>8, <1>9, <2>3, <2>4 DEF RunsAreMarked
    <2>. QED
        BY <1>1, <1>3, <1>6, <1>8, <2>2, <2>3, <2>5, WrittenOn
<1>10. CASE n # 0
    <2>1. n \in 1..MaxHunk /\ n \in Nat /\ n >= Edge
        BY <1>2, <1>4, <1>5, <1>10
    <2>2. Write(<<RleRecord(Pos, hunk[1], n)>>, "middle")
        BY <1>1, <1>4, <1>10
    <2>3. Fits(data, RleRecord(Pos, hunk[1], n), Pos, n) /\ RleRecord(Pos, hunk[1], n).rle
        <3>1. hunk[1] \in Bytes
            BY <1>2, <1>4
        <3>2. \A i \in 1..n : Pos + i - 1 \in DOMAIN data /\ data[Pos + i - 1] = hunk[1]
            <4>1. TAKE i \in 1..n
            <4>2. i \in 1..Len(hunk)
                BY <1>4, <1>6
            <4>. QED
                BY <1>2, <1>5, <4>2
        <3>. QED
            BY <1>4, <2>1, <3>1, <3>2, RunFits
    <2>4. Sound(data, out') /\ Reaches(data, out', Pos + n) /\ EndsInRun(out') /\ phase' = "middle"
        BY <1>2, <1>3, <1>4, <2>1, <2>2, <2>3, WriteOne
    <2>5. RunOf(data, Edge, Pos - Edge)'
        <3>1. SUFFICES ASSUME NEW k \in 0..(Edge - 1)
                       PROVE  /\ Pos' - Edge + k \in DOMAIN data
                              /\ data[Pos' - Edge + k] = data[Pos' - Edge]
            BY <1>1 DEF RunOf
        <3>2. /\ n - Edge + k + 1 \in 1..n /\ n - Edge + 1 \in 1..n
              /\ Pos + (n - Edge + k + 1) - 1 = Pos' - Edge + k
              /\ Pos + (n - Edge + 1) - 1 = Pos' - Edge
            BY <1>4, <1>7, <2>1
        <3>3. n - Edge + k + 1 \in 1..Len(hunk) /\ n - Edge + 1 \in 1..Len(hunk)
            BY <1>4, <1>6, <3>2
        <3>. QED
            BY <1>2, <1>5, <3>2, <3>3
    <2>6. Pos' >= Edge /\ data'[Pos' - 1] # data'[Pos']
        <3>1. n \in 1..Len(hunk) /\ n + 1 \in 1..Len(hunk) /\ Pos + n - 1 = Pos' - 1 /\ Pos + (n + 1) - 1 = Pos'
            <4>1. Len(hunk) \in Nat /\ n \in Nat /\ n >= 1 /\ n <= Len(hunk) - 1 /\ Pos \in Nat /\ Pos' = Pos + n
                BY <1>4, <1>5, <1>7, <2>1
            <4>. QED
                BY <4>1
        <3>2. data[Pos' - 1] = hunk[n] /\ data[Pos'] = hunk[n + 1] /\ hunk[n] = hunk[1]
            BY <1>2, <1>5, <2>1, <3>1
        <3>. QED
            BY <1>1, <1>4, <1>5, <1>7, <2>1, <3>2
    <2>7. BehindARun'
        BY <2>5, <2>6 DEF BehindARun
    <2>8. RunsAreMarked'
        BY <1>8, <2>7 DEF RunsAreMarked
    <2>. QED
        BY <1>1, <1>6, <1>8, <2>4, <2>7, <2>8, WrittenOn
<1>. QED
    BY <1>9, <1>10

\* The part of the hunk before the run set aside.
LEMMA MiddleIs ==
    ASSUME IInv, phase = "middle"
    PROVE  /\ finishing \in 0..Len(hunk)
           /\ Middle \in Seq(Bytes) /\ Len(Middle) = Len(hunk) - finishing
           /\ \A i \in 1..(Len(hunk) - finishing) : Middle[i] = hunk[i]
<1>1. hunk \in Seq(Bytes) /\ finishing \in 0..Len(hunk)
    BY DEF IInv, TypeOK
<1>2. 1 \in 1..(Len(hunk) + 1) /\ Len(hunk) - finishing \in (1 - 1)..Len(hunk)
    BY <1>1
<1>3. /\ Middle \in Seq(Bytes) /\ Len(Middle) = (Len(hunk) - finishing) - 1 + 1
      /\ \A i \in 1..((Len(hunk) - finishing) - 1 + 1) : Middle[i] = hunk[1 + i - 1]
    BY <1>1, <1>2, SliceIs DEF Middle
<1>. QED
    BY <1>1, <1>3

\* A record behind a run starts where that run meets other bytes.
LEMMA BehindARunMeets ==
    ASSUME IInv, Running, BehindARun, hunk # <<>>, Pos = UnsafeOffset
    PROVE  RunMeetsOthersAt(data, UnsafeOffset)
<1>. USE Sizes
<1>1. /\ hunk \in Seq(Bytes) /\ Pos \in Nat
      /\ \A i \in 1..Len(hunk) : Pos + i - 1 \in DOMAIN data
    BY PlaceIs
<1>2. Pos \in DOMAIN data
    <2>1. 1 \in 1..Len(hunk) /\ Pos + 1 - 1 = Pos
        BY <1>1
    <2>. QED
        BY <1>1, <2>1
<1>3. Pos >= Edge /\ RunOf(data, Edge, Pos - Edge) /\ data[Pos - 1] # data[Pos]
    BY DEF BehindARun
<1>4. Pos - 1 \in DOMAIN data
    <2>1. Edge - 1 \in 0..(Edge - 1) /\ (Pos - Edge) + (Edge - 1) = Pos - 1
        BY <1>1
    <2>. QED
        BY <1>3, <2>1 DEF RunOf
<1>. QED
    BY <1>2, <1>3, <1>4 DEF RunMeetsOthersAt

\* A run in the hunk, n bytes from its p-th on, with another byte before it.
LEMMA RunInHunkMeets ==
    ASSUME IInv, Running, NEW p \in 1..Len(hunk), NEW n \in Nat, n >= Edge, p + n <= Len(hunk),
           \A i \in 1..n : hunk[p + i] = hunk[p + 1], hunk[p] # hunk[p + 1],
           Pos + p = UnsafeOffset
    PROVE  RunMeetsOthersAt(data, UnsafeOffset)
<1>. USE Sizes
<1>1. /\ hunk \in Seq(Bytes) /\ Len(hunk) \in Nat /\ Pos \in Nat
      /\ \A i \in 1..Len(hunk) : Pos + i - 1 \in DOMAIN data /\ hunk[i] = data[Pos + i - 1]
    BY PlaceIs
<1>2. \A i \in 1..n : Pos + p + i - 1 \in DOMAIN data /\ data[Pos + p + i - 1] = hunk[p + 1]
    <2>1. TAKE i \in 1..n
    <2>2. p + i \in 1..Len(hunk) /\ Pos + (p + i) - 1 = Pos + p + i - 1
        BY <1>1
    <2>. QED
        BY <1>1, <2>2
<1>3. UnsafeOffset \in DOMAIN data /\ data[UnsafeOffset] = hunk[p + 1]
    <2>1. 1 \in 1..n /\ Pos + p + 1 - 1 = UnsafeOffset
        BY <1>1
    <2>. QED
        BY <1>2, <2>1
<1>4. UnsafeOffset - 1 \in DOMAIN data /\ data[UnsafeOffset - 1] = hunk[p]
    BY <1>1
<1>5. RunOf(data, Edge, UnsafeOffset)
    <2>1. SUFFICES ASSUME NEW k \in 0..(Edge - 1)
                   PROVE  UnsafeOffset + k \in DOMAIN data /\ data[UnsafeOffset + k] = data[UnsafeOffset]
        BY DEF RunOf
    <2>2. k + 1 \in 1..n /\ Pos + p + (k + 1) - 1 = UnsafeOffset + k
        BY <1>1
    <2>. QED
        BY <1>2, <1>3, <2>2
<1>. QED
    BY <1>3, <1>4, <1>5 DEF RunMeetsOthersAt

LEMMA MiddleRunKeeps ==
    ASSUME IInv, MiddleRun
    PROVE  IInv'
<1>. USE Sizes
<1> DEFINE p == FirstRun(Middle)
<1> DEFINE n == RunLength(From(Middle, p), Inner)
<1> DEFINE r1 == StandardRecord(addr, SubSeq(Middle, 1, p))
<1> DEFINE r2 == RleRecord(Plus(addr, p), Middle[p + 1], n)
<1>1. /\ phase = "middle" /\ Running /\ RunStarts(Middle) # {}
      /\ Write(<<r1, r2>>, "middle")
      /\ addr' = Plus(addr, p + n) /\ hunk' = From(hunk, p + n) /\ finishing' = finishing
      /\ UNCHANGED <<data, from, safety, extra>>
    BY DEF MiddleRun, Running, Past
<1>2. /\ IsPatchVec(data) /\ hunk \in Seq(Bytes) /\ Len(hunk) \in 0..MaxHunk
      /\ Pos \in 0..(Top + 1)
      /\ \A i \in 1..Len(hunk) : Pos + i - 1 \in DOMAIN data /\ hunk[i] = data[Pos + i - 1]
      /\ Len(hunk) > 0 => Pos \in Addresses /\ addr = Pos
      /\ \A a \in DOMAIN data : a \in Nat /\ a <= Top
    BY <1>1, PlaceIs
<1>3. /\ Sound(data, out) /\ Reaches(data, out, Pos) /\ RunsAreMarked /\ TypeOK
      /\ Pos # UnsafeOffset \/ (EndsInRun(out) /\ BehindARun)
    BY <1>1 DEF IInv, StartsAreSafe
<1>4. /\ finishing \in 0..Len(hunk)
      /\ Middle \in Seq(Bytes) /\ Len(Middle) = Len(hunk) - finishing
      /\ \A i \in 1..(Len(hunk) - finishing) : Middle[i] = hunk[i]
    BY <1>1, MiddleIs
<1>5. /\ p \in 0..(Len(Middle) - Inner) /\ \A i \in 1..Inner : Middle[p + i] = Middle[p + 1]
      /\ p > 0 => Middle[p] # Middle[p + 1]
    BY <1>1, <1>4, FirstRunIs
<1> DEFINE s == SubSeq(Middle, 1, p)
<1>6. s \in Seq(Bytes) /\ Len(s) = p /\ \A i \in 1..p : s[i] = Middle[i]
    <2>1. 1 \in 1..(Len(Middle) + 1) /\ p \in (1 - 1)..Len(Middle)
        BY <1>4, <1>5
    <2>2. /\ s \in Seq(Bytes) /\ Len(s) = p - 1 + 1
          /\ \A i \in 1..(p - 1 + 1) : s[i] = Middle[1 + i - 1]
        BY <1>4, <2>1, SliceIs
    <2>. QED
        BY <1>5, <2>2
<1> DEFINE m == From(Middle, p)
<1>7. /\ m \in Seq(Bytes) /\ Len(m) = Len(Middle) - p /\ Inner \in 1..Len(m)
      /\ \A i \in 1..Len(m) : m[i] = Middle[p + i]
    <2>1. p \in 0..Len(Middle) /\ Len(Middle) \in Nat
        BY <1>4, <1>5
    <2>2. /\ m \in Seq(Bytes) /\ Len(m) = Len(Middle) - p
          /\ \A i \in 1..(Len(Middle) - p) : m[i] = Middle[p + i]
        BY <1>4, <2>1, FromIs
    <2>. QED
        BY <1>5, <2>1, <2>2
<1>8. n = RunLength(m, Inner) /\ r1 = StandardRecord(addr, s)
    OBVIOUS
<1>. HIDE DEF m, n, p, s
<1>9. n \in Inner..Len(m) /\ (\A i \in 1..n : m[i] = m[1]) /\ (n = Len(m) \/ m[n + 1] # m[1])
    <2>1. \A i \in 1..Inner : m[i] = m[1]
        <3>1. TAKE i \in 1..Inner
        <3>2. i \in 1..Len(m) /\ 1 \in 1..Len(m)
            BY <1>7
        <3>. QED
            BY <1>5, <1>7, <3>2
    <2>. QED
        BY <1>7, <1>8, <2>1, RunLengthIs
<1>10. /\ p \in Nat /\ n \in Nat /\ n >= Inner /\ n >= 1 /\ Len(hunk) \in Nat /\ Pos \in Nat
       /\ p + n <= Len(hunk) - finishing /\ finishing \in Nat
       /\ Len(m) = Len(hunk) - finishing - p
    BY <1>2, <1>4, <1>5, <1>7, <1>9
<1>11. Pos \in Addresses /\ addr = Pos /\ Len(hunk) > 0
    BY <1>2, <1>10
<1>12. \A i \in 1..n : hunk[p + i] = Middle[p + 1] /\ hunk[p + i] = data[Pos + p + i - 1]
                       /\ Pos + p + i - 1 \in DOMAIN data
    <2>1. TAKE i \in 1..n
    <2>2. /\ i \in 1..Len(m) /\ 1 \in 1..n /\ 1 \in 1..Len(m)
          /\ p + i \in 1..(Len(hunk) - finishing) /\ p + i \in 1..Len(hunk)
          /\ Pos + (p + i) - 1 = Pos + p + i - 1
        BY <1>10
    <2>3. Middle[p + i] = Middle[p + 1]
        BY <1>7, <1>9, <2>2
    <2>. QED
        BY <1>2, <1>4, <2>2, <2>3
<1>13. n < Len(m) => hunk[p + n + 1] # hunk[p + n]
    <2>1. SUFFICES ASSUME n < Len(m) PROVE hunk[p + n + 1] # hunk[p + n]
        OBVIOUS
    <2>2. /\ n + 1 \in 1..Len(m) /\ n \in 1..Len(m) /\ n \in 1..n /\ p + (n + 1) = p + n + 1
          /\ p + n + 1 \in 1..(Len(hunk) - finishing) /\ p + n \in 1..(Len(hunk) - finishing)
        BY <1>10, <2>1
    <2>3. m[n + 1] # m[n] /\ m[n + 1] = Middle[p + n + 1] /\ m[n] = Middle[p + n]
        BY <1>7, <1>9, <2>1, <2>2
    <2>. QED
        BY <1>4, <2>2, <2>3
<1>14. CASE p = 0
    <2>1. Size(r1) = 0
        BY <1>6, <1>8, <1>14 DEF StandardRecord, Size
    <2>. HIDE DEF r1, r2
    <2>2. out' = out /\ phase' = "bad length"
        BY <1>1, <1>3, <2>1, WriteRefused DEF Sound
    <2>3. \A i \in 1..n : hunk[i] = hunk[1] /\ hunk[i] = data[Pos + i - 1] /\ Pos + i - 1 \in DOMAIN data
        <3>1. TAKE i \in 1..n
        <3>2. p + i = i /\ p + 1 = 1 /\ 1 \in 1..n /\ Pos + p + i - 1 = Pos + i - 1
            BY <1>10, <1>14
        <3>. QED
            BY <1>12, <3>2
    <2>4. ~(Len(hunk) >= Edge /\ ~AllEqual(SubSeq(hunk, 1, Edge)))
        <3>1. SUFFICES ASSUME Len(hunk) >= Edge PROVE AllEqual(SubSeq(hunk, 1, Edge))
            OBVIOUS
        <3>2. 1 \in 1..(Len(hunk) + 1) /\ Edge \in (1 - 1)..Len(hunk)
            BY <1>10, <3>1
        <3> DEFINE t == SubSeq(hunk, 1, Edge)
        <3>3. t \in Seq(Bytes) /\ Len(t) = Edge - 1 + 1 /\ \A i \in 1..(Edge - 1 + 1) : t[i] = hunk[1 + i - 1]
            BY <1>2, <3>2, SliceIs
        <3>. HIDE DEF t
        <3>4. DOMAIN t = 1..Edge /\ \A i \in 1..Edge : t[i] = hunk[i]
            BY <3>3
        <3>5. \A i \in 1..Edge : i \in 1..n
            BY <1>10
        <3>6. \A i \in 1..Edge : t[i] = hunk[1]
            BY <2>3, <3>4, <3>5
        <3>. QED
            BY <3>4, <3>6 DEF AllEqual, t
    <2>5. Pos >= Edge /\ RunOf(data, Edge, Pos - Edge) /\ data[Pos - 1] # data[Pos]
        <3>1. hunk # <<>>
            BY <1>10
        <3>. QED
            BY <1>1, <1>3, <2>4, <3>1 DEF RunsAreMarked, BehindARun
    <2>6. Pos \in DOMAIN data /\ RunOf(data, Inner, Pos)
        <3>1. 1 \in 1..n /\ Pos + 1 - 1 = Pos
            BY <1>10
        <3>2. Pos \in DOMAIN data /\ data[Pos] = hunk[1]
            BY <2>3, <3>1
        <3>3. ASSUME NEW k \in 0..(Inner - 1)
              PROVE  Pos + k \in DOMAIN data /\ data[Pos + k] = data[Pos]
            <4>1. k + 1 \in 1..n /\ Pos + (k + 1) - 1 = Pos + k
                BY <1>10
            <4>. QED
                BY <2>3, <3>2, <4>1
        <3>. QED
            BY <3>2, <3>3 DEF RunOf
    <2>7. AssertionsHold' /\ FileIsThePatch' /\ ~Running'
        <3>2. \E a \in DOMAIN data : a >= Edge /\ RunOf(data, Edge, a - Edge) /\ RunOf(data, Inner, a) /\ data[a - 1] # data[a]
            BY <2>5, <2>6
        <3>3. OnlyAdjoiningRunsStop'
            BY <1>1, <3>2 DEF OnlyAdjoiningRunsStop, RunOf
        <3>. QED
            BY <2>2, <3>3 DEF AssertionsHold, SafetyByteIsThere, FileIsThePatch, Running
    <2>8. TypeOK' /\ Sound(data, out)'
        <3>1. p + n \in 0..Len(hunk)
            BY <1>10
        <3>2. hunk' \in Seq(Bytes) /\ Len(hunk') = Len(hunk) - (p + n) /\ addr' \in Addresses
            BY <1>1, <3>1, Consume
        <3>3. Len(hunk') <= MaxHunk /\ finishing' \in 0..Len(hunk')
            BY <1>1, <1>2, <1>10, <3>2
        <3>. QED
            BY <1>1, <1>3, <2>2, <3>2, <3>3 DEF TypeOK, Outcomes
    <2>. QED
        BY <2>7, <2>8 DEF IInv
<1>15. CASE p # 0
    <2>1. p \in 1..MaxHunk /\ n \in 1..MaxHunk /\ p + n \in 0..Len(hunk) /\ Pos + p \in Nat
        <3>1. Len(hunk) <= MaxHunk /\ MaxHunk \in Nat
            BY <1>2
        <3>2. p >= 1 /\ p + n <= Len(hunk)
            BY <1>10, <1>15
        <3>. QED
            BY <1>10, <3>1, <3>2
    <2>2. Pos + p \in Addresses /\ Plus(addr, p) = Pos + p
        <3>1. p + 1 \in 1..Len(hunk) /\ Pos + (p + 1) - 1 = Pos + p
            BY <1>10
        <3>2. Pos + p \in DOMAIN data /\ Pos + p <= Top
            BY <1>2, <3>1
        <3>. QED
            BY <1>10, <1>11, <2>1, <3>2, PlusIs DEF Addresses
    <2>3. Fits(data, r1, Pos, p)
        <3>1. \A i \in 1..Len(s) : Pos + i - 1 \in DOMAIN data /\ s[i] = data[Pos + i - 1]
            <4>1. TAKE i \in 1..Len(s)
            <4>2. i \in 1..p /\ i \in 1..(Len(hunk) - finishing) /\ i \in 1..Len(hunk)
                BY <1>6, <1>10
            <4>. QED
                BY <1>2, <1>4, <1>6, <4>2
        <3>. QED
            BY <1>6, <1>8, <1>11, <3>1, StandardFits
    <2>4. Fits(data, r2, Pos + p, n) /\ r2.rle
        <3>1. Middle[p + 1] \in Bytes
            BY <1>4, <1>10
        <3>2. \A i \in 1..n : (Pos + p) + i - 1 \in DOMAIN data /\ data[(Pos + p) + i - 1] = Middle[p + 1]
            BY <1>12
        <3>. QED
            BY <1>10, <2>2, <3>1, <3>2, RunFits
    <2>. HIDE DEF r1, r2
    <2>4a. Pos = UnsafeOffset => RunMeetsOthersAt(data, UnsafeOffset) /\ EndsInRun(out)
        <3>1. hunk # <<>>
            BY <1>11
        <3>. QED
            BY <1>1, <1>3, <3>1, BehindARunMeets
    <2>4b. Pos + p = UnsafeOffset => RunMeetsOthersAt(data, UnsafeOffset)
        <3>1. /\ p \in 1..Len(hunk) /\ n >= Edge /\ p + n <= Len(hunk) /\ n \in Nat /\ 1 \in 1..n
              /\ p \in 1..(Len(hunk) - finishing)
            BY <1>10, <1>15
        <3>2. /\ \A i \in 1..n : hunk[p + i] = hunk[p + 1]
              /\ hunk[p] # hunk[p + 1]
            <4>1. hunk[p] = Middle[p] /\ p > 0
                BY <1>4, <3>1
            <4>2. hunk[p + 1] = Middle[p + 1]
                BY <1>12, <3>1
            <4>3. hunk[p] = Middle[p] /\ hunk[p + 1] = Middle[p + 1] /\ p > 0
                BY <4>1, <4>2
            <4>. QED
                BY <1>5, <1>12, <3>1, <4>3
        <3>. QED
            BY <1>1, <3>1, <3>2, RunInHunkMeets
    <2>5. Sound(data, out') /\ Reaches(data, out', Pos + p + n) /\ EndsInRun(out') /\ phase' = "middle"
        BY <1>1, <1>2, <1>3, <1>10, <2>1, <2>3, <2>4, <2>4a, <2>4b, WriteTwo
    <2>6. Pos + p + n = Pos + (p + n)
        BY <1>10
    <2>7. /\ Pos' = Pos + (p + n) /\ hunk' \in Seq(Bytes) /\ Len(hunk') = Len(hunk) - (p + n)
          /\ \A i \in 1..(Len(hunk) - (p + n)) : hunk'[i] = hunk[(p + n) + i]
        BY <1>1, <2>1, Consume
    <2>7a. Pos' = Pos + p + n /\ Len(hunk') = Len(hunk) - (p + n) /\ Len(hunk') \in Nat /\ Pos' \in Nat
        BY <1>10, <2>6, <2>7
    <2>7b. EndsWithRun(hunk, finishing) /\ finishing' = finishing
        BY <1>1, <1>3 DEF RunsAreMarked
    <2>8. EndsWithRun(hunk', finishing')
        <3>1. \A i \in (Len(hunk') - finishing + 1)..Len(hunk') : hunk'[i] = hunk'[Len(hunk')]
            <4>1. TAKE i \in (Len(hunk') - finishing + 1)..Len(hunk')
            <4>2. /\ i \in 1..(Len(hunk) - (p + n)) /\ Len(hunk') \in 1..(Len(hunk) - (p + n))
                  /\ (p + n) + i \in (Len(hunk) - finishing + 1)..Len(hunk)
                  /\ (p + n) + Len(hunk') = Len(hunk)
                BY <1>10, <2>7a
            <4>3. hunk[(p + n) + i] = hunk[Len(hunk)]
                BY <2>7b, <4>2 DEF EndsWithRun
            <4>. QED
                BY <2>7, <4>2, <4>3
        <3>2. ASSUME finishing > 0, finishing < Len(hunk')
              PROVE  hunk'[Len(hunk') - finishing] # hunk'[Len(hunk')]
            <4>1. /\ Len(hunk') - finishing \in 1..(Len(hunk) - (p + n))
                  /\ Len(hunk') \in 1..(Len(hunk) - (p + n))
                  /\ (p + n) + (Len(hunk') - finishing) = Len(hunk) - finishing
                  /\ (p + n) + Len(hunk') = Len(hunk) /\ finishing < Len(hunk)
                BY <1>10, <2>7a, <3>2
            <4>2. hunk[Len(hunk) - finishing] # hunk[Len(hunk)]
                BY <2>7b, <3>2, <4>1 DEF EndsWithRun
            <4>. QED
                BY <2>7, <4>1, <4>2
        <3>. QED
            BY <2>7b, <3>1, <3>2 DEF EndsWithRun
    <2>9. RunOf(data, Edge, Pos - Edge)' /\ Pos' >= Edge
        <3>1. SUFFICES ASSUME NEW k \in 0..(Edge - 1)
                       PROVE  /\ Pos' - Edge + k \in DOMAIN data
                              /\ data[Pos' - Edge + k] = data[Pos' - Edge]
            BY <1>1, <1>10, <2>7 DEF RunOf
        <3>2. /\ n - Edge + k + 1 \in 1..n /\ n - Edge + 1 \in 1..n
              /\ Pos + p + (n - Edge + k + 1) - 1 = Pos' - Edge + k
              /\ Pos + p + (n - Edge + 1) - 1 = Pos' - Edge
            BY <1>10, <2>7a
        <3>. QED
            BY <1>12, <3>2
    <2>10. hunk' # <<>> => data'[Pos' - 1] # data'[Pos']
        <3>1. SUFFICES ASSUME hunk' # <<>> PROVE data[Pos' - 1] # data[Pos']
            BY <1>1
        <3>2. Len(hunk') > 0
            BY <2>7, <3>1
        <3>3. /\ p + n \in 1..Len(hunk) /\ p + n + 1 \in 1..Len(hunk)
              /\ Pos + (p + n) - 1 = Pos' - 1 /\ Pos + (p + n + 1) - 1 = Pos'
            BY <1>10, <2>7a, <3>2
        <3>4. hunk[p + n] = data[Pos' - 1] /\ hunk[p + n + 1] = data[Pos']
            BY <1>2, <3>3
        <3>5. CASE n < Len(m)
            BY <1>13, <3>4, <3>5
        <3>6. CASE ~(n < Len(m))
            <4>1. n = Len(m)
                <5>1. Len(m) \in Nat /\ n <= Len(m)
                    BY <1>7, <1>9
                <5>. QED
                    BY <1>10, <3>6, <5>1
            <4>2. Len(hunk') = Len(hunk) - (p + n) /\ Len(m) = Len(hunk) - finishing - p
                BY <1>10, <2>7a
            <4> HIDE DEF m
            <4>3. /\ p + n = Len(hunk) - finishing /\ finishing > 0 /\ finishing < Len(hunk)
                  /\ p + n + 1 \in (Len(hunk) - finishing + 1)..Len(hunk)
                BY <1>10, <3>2, <4>1, <4>2
            <4>4. hunk[p + n] # hunk[Len(hunk)] /\ hunk[p + n + 1] = hunk[Len(hunk)]
                BY <2>7b, <4>3 DEF EndsWithRun
            <4>. QED
                BY <3>4, <4>4
        <3>. QED
            BY <3>5, <3>6
    <2>10a. BehindARun'
        BY <2>9, <2>10 DEF BehindARun
    <2>11. RunsAreMarked'
        BY <2>8, <2>10a DEF RunsAreMarked
    <2>12. finishing' \in 0..(Len(hunk) - (p + n))
        BY <1>1, <1>10
    <2>. QED
        BY <1>1, <2>1, <2>5, <2>6, <2>10a, <2>11, <2>12, WrittenOn
<1>. QED
    BY <1>14, <1>15

LEMMA LastOfHunkKeeps ==
    ASSUME IInv, LastOfHunk
    PROVE  IInv'
<1>. USE Sizes
<1> DEFINE n == Len(Middle)
<1> DEFINE r1 == StandardRecord(addr, Middle)
<1> DEFINE r2 == RleRecord(Plus(addr, n), Last(hunk), finishing)
<1> DEFINE records == (IF Middle = <<>> THEN <<>> ELSE <<r1>>) \o (IF finishing = 0 THEN <<>> ELSE <<r2>>)
<1>1. /\ phase = "middle" /\ Running
      /\ addr' = Plus(addr, Len(hunk)) /\ hunk' = <<>> /\ finishing' = 0
      /\ UNCHANGED <<data, from, safety, extra>>
    BY DEF LastOfHunk, Running, Past
<1>2. Write(records, "extra")
    BY DEF LastOfHunk, Past
<1>3. /\ IsPatchVec(data) /\ hunk \in Seq(Bytes) /\ Len(hunk) \in 0..MaxHunk
      /\ Pos \in 0..(Top + 1)
      /\ \A i \in 1..Len(hunk) : Pos + i - 1 \in DOMAIN data /\ hunk[i] = data[Pos + i - 1]
      /\ Len(hunk) > 0 => Pos \in Addresses /\ addr = Pos
      /\ \A a \in DOMAIN data : a \in Nat /\ a <= Top
    BY <1>1, PlaceIs
<1>4. /\ Sound(data, out) /\ Reaches(data, out, Pos) /\ RunsAreMarked
      /\ Pos # UnsafeOffset \/ (EndsInRun(out) /\ BehindARun)
      /\ out \in Seq(Records)
    BY <1>1 DEF IInv, StartsAreSafe, Sound
<1>5. /\ finishing \in 0..Len(hunk)
      /\ Middle \in Seq(Bytes) /\ n = Len(hunk) - finishing
      /\ \A i \in 1..n : Middle[i] = hunk[i]
    BY <1>1, MiddleIs
<1>6. Middle = <<>> <=> n = 0
    BY <1>5
<1>7. n \in Nat /\ finishing \in Nat /\ n + finishing = Len(hunk) /\ Pos \in Nat /\ Len(hunk) <= MaxHunk
    BY <1>3, <1>5
<1>8. ASSUME n > 0
      PROVE  Fits(data, r1, Pos, n) /\ n \in 1..MaxHunk
    <2>1. Pos \in Addresses /\ addr = Pos
        BY <1>3, <1>7, <1>8
    <2>2. \A i \in 1..n : Pos + i - 1 \in DOMAIN data /\ Middle[i] = data[Pos + i - 1]
        <3>1. TAKE i \in 1..n
        <3>2. i \in 1..Len(hunk)
            BY <1>7
        <3>. QED
            BY <1>3, <1>5, <3>2
    <2> DEFINE m == Middle
    <2>3. m \in Seq(Bytes) /\ Len(m) = n
        BY <1>5
    <2>4. \A i \in 1..Len(m) : Pos + i - 1 \in DOMAIN data /\ m[i] = data[Pos + i - 1]
        BY <2>2, <2>3
    <2>5. r1 = StandardRecord(Pos, m)
        BY <2>1
    <2> HIDE DEF m, r1
    <2>6. Fits(data, StandardRecord(Pos, m), Pos, Len(m))
        BY <2>1, <2>3, <2>4, StandardFits
    <2>. QED
        BY <1>7, <1>8, <2>3, <2>5, <2>6
<1>9. ASSUME finishing > 0
      PROVE  Fits(data, r2, Pos + n, finishing) /\ r2.rle /\ finishing \in 1..MaxHunk
    <2>1. Pos \in Addresses /\ addr = Pos /\ Len(hunk) > 0
        BY <1>3, <1>7, <1>9
    <2>2. \A i \in 1..finishing : (Pos + n) + i - 1 \in DOMAIN data /\ data[(Pos + n) + i - 1] = Last(hunk)
        <3>1. TAKE i \in 1..finishing
        <3>2. n + i \in 1..Len(hunk) /\ n + i \in (Len(hunk) - finishing + 1)..Len(hunk)
              /\ Pos + (n + i) - 1 = (Pos + n) + i - 1
            BY <1>7
        <3>3. hunk[n + i] = hunk[Len(hunk)]
            BY <1>1, <1>4, <3>2 DEF RunsAreMarked, EndsWithRun
        <3>. QED
            BY <1>3, <3>2, <3>3 DEF Last
    <2>3. Pos + n \in Addresses /\ Plus(addr, n) = Pos + n
        <3>1. 1 \in 1..finishing /\ (Pos + n) + 1 - 1 = Pos + n
            BY <1>7, <1>9
        <3>2. Pos + n \in DOMAIN data
            BY <2>2, <3>1
        <3>3. Pos + n \in Nat /\ Pos + n <= Top
            BY <1>3, <3>2
        <3>. QED
            BY <1>7, <2>1, <3>3, PlusIs DEF Addresses
    <2>4. Last(hunk) \in Bytes
        BY <1>3, <2>1 DEF Last
    <2>5. Fits(data, RleRecord(Pos + n, Last(hunk), finishing), Pos + n, finishing)
          /\ RleRecord(Pos + n, Last(hunk), finishing).rle
        BY <1>7, <2>2, <2>3, <2>4, RunFits
    <2>. QED
        BY <1>7, <1>9, <2>3, <2>5
<1>. HIDE DEF n, r1, r2
<1>9a. ASSUME Len(hunk) > 0, Pos = UnsafeOffset
       PROVE  RunMeetsOthersAt(data, UnsafeOffset) /\ EndsInRun(out)
    <2>1. hunk # <<>>
        BY <1>9a
    <2>. QED
        BY <1>1, <1>4, <1>9a, <2>1, BehindARunMeets
<1>9b. ASSUME n > 0, finishing > 0, Pos + n = UnsafeOffset
       PROVE  RunMeetsOthersAt(data, UnsafeOffset)
    <2>1. EndsWithRun(hunk, finishing)
        BY <1>1, <1>4 DEF RunsAreMarked
    <2>2. /\ n \in 1..Len(hunk) /\ finishing >= Edge /\ n + finishing <= Len(hunk)
          /\ n = Len(hunk) - finishing /\ finishing < Len(hunk) /\ 1 \in 1..finishing
          /\ \A i \in 1..finishing : n + i \in (Len(hunk) - finishing + 1)..Len(hunk)
        BY <1>7, <1>9b, <2>1 DEF EndsWithRun
    <2>3. \A i \in 1..finishing : hunk[n + i] = hunk[Len(hunk)]
        BY <2>1, <2>2 DEF EndsWithRun
    <2>4. hunk[n] # hunk[n + 1]
        BY <1>9b, <2>1, <2>2, <2>3 DEF EndsWithRun
    <2>5. \A i \in 1..finishing : hunk[n + i] = hunk[n + 1]
        BY <2>2, <2>3
    <2>. QED
        BY <1>1, <1>7, <1>9b, <2>2, <2>4, <2>5, RunInHunkMeets
<1>10. CASE n = 0 /\ finishing = 0
    <2>1. Write(<<>>, "extra")
        BY <1>2, <1>6, <1>10
    <2>2. out' = out /\ phase' = "extra" /\ Pos + Len(hunk) = Pos
        BY <1>4, <1>7, <1>10, <2>1, WriteNone
    <2>. QED
        BY <1>1, <1>4, <2>2, HunkWritten
<1>11. CASE n = 0 /\ finishing > 0
    <2>1. Write(<<r2>>, "extra")
        BY <1>2, <1>6, <1>11
    <2>2. Pos + n = Pos /\ Pos + finishing = Pos + Len(hunk)
        BY <1>7, <1>11
    <2>3. Sound(data, out') /\ Reaches(data, out', Pos + finishing) /\ phase' = "extra"
        BY <1>3, <1>4, <1>7, <1>9, <1>9a, <1>11, <2>1, <2>2, WriteOne
    <2>. QED
        BY <1>1, <2>2, <2>3, HunkWritten
<1>12. CASE n > 0 /\ finishing = 0
    <2>1. Write(<<r1>>, "extra")
        BY <1>2, <1>6, <1>12
    <2>2. Pos + n = Pos + Len(hunk)
        BY <1>7, <1>12
    <2>3. Sound(data, out') /\ Reaches(data, out', Pos + n) /\ phase' = "extra"
        BY <1>3, <1>4, <1>7, <1>8, <1>9a, <1>12, <2>1, WriteOne
    <2>. QED
        BY <1>1, <2>2, <2>3, HunkWritten
<1>13. CASE n > 0 /\ finishing > 0
    <2>1. Write(<<r1, r2>>, "extra")
        <3>1. <<r1>> \o <<r2>> = <<r1, r2>>
            BY <1>8, <1>9, <1>13, PairIs DEF Fits
        <3>2. records = <<r1>> \o <<r2>>
            BY <1>6, <1>13
        <3>. QED
            BY <1>2, <3>1, <3>2
    <2>2. Pos + n + finishing = Pos + Len(hunk)
        BY <1>7
    <2>3. Sound(data, out') /\ Reaches(data, out', Pos + n + finishing) /\ phase' = "extra"
        BY <1>3, <1>4, <1>7, <1>8, <1>9, <1>9a, <1>9b, <1>13, <2>1, WriteTwo
    <2>. QED
        BY <1>1, <2>2, <2>3, HunkWritten
<1>. QED
    BY <1>7, <1>10, <1>11, <1>12, <1>13

LEMMA EndOfPatchKeeps ==
    ASSUME IInv, EndOfPatch
    PROVE  IInv'
<1>. USE Sizes
<1>1. /\ phase = "hunks" /\ Running /\ Remaining(data, from) = {} /\ phase' = "written"
      /\ UNCHANGED <<data, from, addr, hunk, safety, extra, finishing, out>>
    BY DEF EndOfPatch, Running
<1>2. /\ TypeOK /\ Sound(data, out) /\ Reaches(data, out, Pos)
      /\ hunk = <<>> /\ extra = NoByte /\ SafetyIsHeld
    BY <1>1 DEF IInv, Phases
<1>3. \A a \in DOMAIN data : a < from /\ a \in Nat
    <2>1. \A a \in DOMAIN data : a \in Nat /\ ~(a >= from) /\ from \in Nat
        BY <1>1, PlaceIs DEF Remaining
    <2>. QED
        BY <2>1
<1>4. safety = NoByte
    BY <1>2, <1>3 DEF SafetyIsHeld
<1>5. Pos = from
    <2>1. Held = 0 /\ Len(hunk) = 0 /\ from \in Nat
        BY <1>2, <1>4 DEF Held, TypeOK
    <2>2. Pos = from - Held - Len(hunk)
        BY DEF Pos
    <2>. QED
        BY <2>1, <2>2
<1>6. FileIsThePatch'
    <2>1. DOMAIN out = 1..Len(out) /\ Len(out) \in Nat
        BY <1>2 DEF Sound
    <2>2. CASE \E j \in 1..Len(out) : out[j].offset = UnsafeOffset
        <3>1. RunMeetsOthersAt(data, UnsafeOffset)
            BY <1>2, <2>2 DEF Sound, Avoids
        <3>. QED
            BY <1>1, <3>1 DEF FileIsThePatch
    <2>3. CASE ~\E j \in 1..Len(out) : out[j].offset = UnsafeOffset
        <3>1. Seen = 1..Len(out)
            BY <2>1, <2>3 DEF Seen
        <3>2. \A a : (\E i \in 1..Len(out) : a \in Covered(out[i])) <=> a \in DOMAIN data
            <4>1. {a \in DOMAIN data : a < from} = DOMAIN data
                BY <1>3
            <4>. QED
                BY <1>2, <1>5, <4>1 DEF Reaches
        <3>3. \A i \in 1..Len(out) : \A a \in Covered(out[i]) : ByteAt(out[i], a) = data[a]
            BY <1>2 DEF Sound, Fitting
        <3>4. \A x : x \in ReadBack <=>
                     \E i \in 1..Len(out) : \E a \in Covered(out[i]) : x = <<a, ByteAt(out[i], a)>>
            BY <3>1 DEF ReadBack
        <3>5. \A x : x \in ReadBack <=> x \in {<<a, data[a]>> : a \in DOMAIN data}
            BY <3>2, <3>3, <3>4
        <3>6. ReadBack = {<<a, data[a]>> : a \in DOMAIN data}
            BY <3>5
        <3>7. ReadBack' = ReadBack /\ data' = data
            BY <1>1 DEF ReadBack, Seen
        <3>. QED
            BY <3>6, <3>7 DEF FileIsThePatch
    <2>. QED
        BY <2>2, <2>3
<1>7. TypeOK' /\ Sound(data, out)' /\ AssertionsHold' /\ ~Running'
    BY <1>1, <1>2 DEF TypeOK, Outcomes, AssertionsHold, SafetyByteIsThere, OnlyAdjoiningRunsStop, Running
<1>. QED
    BY <1>6, <1>7 DEF IInv

LEMMA WriteFailsKeeps ==
    ASSUME IInv, WriteFails
    PROVE  IInv'
<1>1. phase' = "failed" /\ UNCHANGED <<data, from, addr, hunk, safety, extra, finishing, out>>
    BY DEF WriteFails
<1>2. TypeOK' /\ Sound(data, out)'
    BY <1>1 DEF IInv, TypeOK, Outcomes
<1>3. AssertionsHold' /\ FileIsThePatch' /\ ~Running'
    BY <1>1 DEF AssertionsHold, SafetyByteIsThere, OnlyAdjoiningRunsStop, FileIsThePatch, Running
<1>. QED
    BY <1>2, <1>3 DEF IInv

LEMMA StutterKeeps ==
    ASSUME IInv, UNCHANGED vars
    PROVE  IInv'
<1>. USE DEF vars
<1>1. TypeOK' /\ Sound(data, out)'
    BY DEF IInv, TypeOK
<1>2. AssertionsHold' /\ FileIsThePatch'
    <2>1. AssertionsHold'
        BY DEF IInv, AssertionsHold, SafetyByteIsThere, OnlyAdjoiningRunsStop, RunOf
    <2>2. ReadBack' = ReadBack
        BY DEF ReadBack, Seen
    <2>3. RunMeetsOthersAt(data, UnsafeOffset)' = RunMeetsOthersAt(data, UnsafeOffset)
        BY DEF RunMeetsOthersAt, RunOf
    <2>4. FileIsThePatch'
        BY <2>2, <2>3 DEF IInv, FileIsThePatch
    <2>. QED
        BY <2>1, <2>4
<1>3. Held' = Held /\ Pos' = Pos /\ Running' = Running /\ BehindARun' = BehindARun
    BY DEF Held, Pos, Running, BehindARun
<1>4. ASSUME Running
      PROVE  /\ Phases' /\ HunkIsThePatch' /\ SafetyIsHeld' /\ StartsAreSafe' /\ RunsAreMarked'
             /\ Reaches(data, out, Pos)'
    <2>1. /\ Phases /\ HunkIsThePatch /\ SafetyIsHeld /\ StartsAreSafe /\ RunsAreMarked
          /\ Reaches(data, out, Pos)
        BY <1>4 DEF IInv
    <2>2. Phases' /\ StartsAreSafe' /\ SafetyIsHeld'
        BY <1>3, <2>1 DEF Phases, StartsAreSafe, SafetyIsHeld
    <2>3. HunkIsThePatch'
        BY <1>3, <2>1 DEF HunkIsThePatch
    <2>4. RunsAreMarked'
        BY <1>3, <2>1 DEF RunsAreMarked, RunOf
    <2>5. Reaches(data, out, Pos)'
        BY <1>3, <2>1
    <2>. QED
        BY <2>2, <2>3, <2>4, <2>5
<1>. QED
    BY <1>1, <1>2, <1>3, <1>4 DEF IInv

-----------------------------------------------------------------------------
(* The theorems.                                                           *)

THEOREM Invariance == Spec => []IInv
<1>1. Init => IInv
    BY InitIsSound
<1>2. IInv /\ [Next]_vars => IInv'
    <2>1. SUFFICES ASSUME IInv, [Next]_vars PROVE IInv'
        OBVIOUS
    <2>2. CASE Start
        BY <2>1, <2>2, StartKeeps
    <2>3. CASE PlainHunk
        BY <2>1, <2>3, PlainHunkKeeps
    <2>4. CASE HunkBeforeUnsafe
        BY <2>1, <2>4, HunkBeforeUnsafeKeeps
    <2>5. CASE HunkAtUnsafe
        BY <2>1, <2>5, HunkAtUnsafeKeeps
    <2>6. CASE WholeHunk
        BY <2>1, <2>6, WholeHunkKeeps
    <2>7. CASE SplitHunk
        BY <2>1, <2>7, SplitHunkKeeps
    <2>8. CASE MiddleRun
        BY <2>1, <2>8, MiddleRunKeeps
    <2>9. CASE LastOfHunk
        BY <2>1, <2>9, LastOfHunkKeeps
    <2>10. CASE ExtraByte
        BY <2>1, <2>10, ExtraByteKeeps
    <2>11. CASE EndOfPatch
        BY <2>1, <2>11, EndOfPatchKeeps
    <2>12. CASE WriteFails
        BY <2>1, <2>12, WriteFailsKeeps
    <2>13. CASE UNCHANGED vars
        BY <2>1, <2>13, StutterKeeps
    <2>. QED
        BY <2>1, <2>2, <2>3, <2>4, <2>5, <2>6, <2>7, <2>8, <2>9, <2>10, <2>11, <2>12, <2>13 DEF Next, Done
<1>. QED
    BY <1>1, <1>2, PTL DEF Spec

\* Who reads a file that was written to its end gets the patch, or a run meets
\* other bytes right at the unsafe offset.
THEOREM FileIsThePatchAlways == Spec => []FileIsThePatch
<1>1. IInv => FileIsThePatch
    BY DEF IInv
<1>. QED
    BY <1>1, Invariance, PTL

\* At every moment what the file sets are bytes of the patch, each once and in order.
THEOREM EveryPrefixIsSoundAlways == Spec => []EveryPrefixIsSound
<1>1. IInv => EveryPrefixIsSound
    <2>1. SUFFICES ASSUME IInv PROVE EveryPrefixIsSound
        OBVIOUS
    <2>2. TypeOK /\ Sound(data, out)
        BY <2>1 DEF IInv
    <2>3. DOMAIN out = 1..Len(out)
        BY <2>2 DEF Sound
    <2>. QED
        BY <2>2, <2>3 DEF EveryPrefixIsSound, Sound, Fitting, Ordered
<1>. QED
    BY <1>1, Invariance, PTL

\* Only a run, or what follows one, is ever written at the unsafe offset, and
\* only where that run meets other bytes.
THEOREM HunksAvoidUnsafeAlways == Spec => []HunksAvoidUnsafe
<1>1. IInv => HunksAvoidUnsafe
    <2>1. SUFFICES ASSUME IInv PROVE HunksAvoidUnsafe
        OBVIOUS
    <2>2. Sound(data, out)
        BY <2>1 DEF IInv
    <2>3. DOMAIN out = 1..Len(out)
        BY <2>2 DEF Sound
    <2>. QED
        BY <2>2, <2>3 DEF HunksAvoidUnsafe, Sound, Avoids
<1>. QED
    BY <1>1, Invariance, PTL

\* The safety byte is there when it is asked for, and the length of a record is
\* refused only between two runs that adjoin.
THEOREM AssertionsHoldAlways == Spec => []AssertionsHold
<1>1. IInv => AssertionsHold
    BY DEF IInv
<1>. QED
    BY <1>1, Invariance, PTL
=============================================================================
