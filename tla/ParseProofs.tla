---------------------------- MODULE ParseProofs ----------------------------
(***************************************************************************)
(* Theorems about Parse, for every source and command line.  The promise   *)
(* is about the end of the parse and about whole builds; what makes it     *)
(* true is what holds of every sub-state on the way: it is one of the      *)
(* worlds, read up to its position (Sound), and no world that was asked    *)
(* for is left out of what the waiting sub-states can still become         *)
(* (Complete).                                                             *)
(***************************************************************************)
EXTENDS Parse, SequenceTheorems, FiniteSetTheorems, WellFoundedInduction, TLAPS

End == Len(Statements)

Fields == {"pos", "defines", "activity", "target", "named", "versioned", "build", "buildAt",
           "settings", "format", "formatAt", "code", "said"}

\* What EXCEPT needs to know of a sub-state.
IsSub(s) == DOMAIN s = Fields /\ IsList(s.settings)

\* Nothing the command line says rules this build out so far.
AgreesOn(settings) ==
    \A i \in 1..Len(settings) :
        i <= Len(setup.forced.options) => settings[i] = setup.forced.options[i]

Agrees(s) ==
    /\ setup.forced.build = NoBuild \/ s.build \in {NoBuild, setup.forced.build}
    /\ AgreesOn(s.settings)

\* The worlds after the first k statements, and those a sub-state can become.
Stage(k) == Read(setup, FirstWorlds(setup), 0)[k]

Future(s, D) ==
    Read(setup, {[state |-> s, alive |-> TRUE, said |-> D]}, s.pos - 1)[End - (s.pos - 1)]

-----------------------------------------------------------------------------
(* The sub-states that have statements to read, and the results there are. *)

Waiting == todo \cup ({running} \ {0})

Pends(i) == IF i \in Waiting THEN {active[i]} ELSE ToSet(forks[i])

Pending == UNION {Pends(i) : i \in 1..Len(active)}

Results == ToSet(finished) \cup UNION {ToSet(results[i]) : i \in 1..Len(active)}

\* Two builds that some choice tells apart, for good.
Apart(s, t) ==
    \/ s.target # t.target
    \/ s.build # NoBuild /\ t.build # NoBuild /\ s.build # t.build
    \/ \E i \in 1..Len(s.settings) : i <= Len(t.settings) /\ s.settings[i] # t.settings[i]

ApartList(l) == \A i, j \in 1..Len(l) : i # j => Apart(l[i], l[j])

\* What sub-state i of the round stands for now; 0 stands for the rounds before.
Stands(i) ==
    IF i = 0 THEN finished
    ELSE IF i \in Waiting THEN <<active[i]>>
    ELSE IF forks[i] # <<>> THEN forks[i]
    ELSE results[i]

-----------------------------------------------------------------------------
(* The inductive invariant.                                                *)

Types ==
    /\ setup \in Setups
    /\ phase \in {"start", "rounds", "parsed", "ok", "no output", "failed"}
    /\ phase # "rounds" => active = <<>>
    /\ phase = "start" => finished = <<>>
    /\ IsList(active) /\ IsList(forks) /\ IsList(results) /\ IsList(finished)
    /\ Len(forks) = Len(active) /\ Len(results) = Len(active)
    /\ todo \subseteq 1..Len(active)
    /\ running \in {0} \cup ((1..Len(active)) \ todo)
    /\ \A i \in 1..Len(active) :
          /\ active[i].pos \in 1..(End + 1)
          /\ IsList(forks[i]) /\ IsList(results[i])
          /\ i \in Waiting => forks[i] = <<>> /\ results[i] = <<>>
          /\ forks[i] = <<>> \/ results[i] = <<>>
          /\ Len(results[i]) <= 1
    /\ diags \subseteq recorded

\* A sub-state that waits is one of the worlds so far.
IsWorldSoFar(s) ==
    /\ IsSub(s) /\ s.said = {} /\ s.pos \in 1..(End + 1) /\ Agrees(s)
    /\ \E w \in Stage(s.pos - 1) : w.alive /\ w.state = s

IsWanted(r) == \E w \in Worlds : Asked(w) /\ r \in ToSet(Finish(w.state))

IsReported(d) == \E w \in Worlds : d \in Reports(w)

Sound ==
    /\ \A s \in Pending : IsWorldSoFar(s)
    /\ \A r \in Results : IsWanted(r)
    /\ \A d \in recorded : IsReported(d)

Accounted(w) == Reports(w) \subseteq recorded /\ ToSet(Finish(w.state)) \subseteq Results

\* w is still to come.
Expected(w) == \E s \in Pending : \E D \in SUBSET recorded : w \in Future(s, D)

Complete ==
    phase # "start" => \A w \in Worlds : Asked(w) => Accounted(w) \/ Expected(w)

EachOnce ==
    ChoicesDiffer =>
        /\ \A i \in 0..Len(active) : ApartList(Stands(i))
        /\ \A i, j \in 0..Len(active) : i # j =>
              \A s \in ToSet(Stands(i)), t \in ToSet(Stands(j)) : Apart(s, t)

\* The set has d, or one it takes for d.
Represented(d, D) == \E e \in D : Labels(e) = Labels(d)

DiagnosticsAreKept ==
    /\ \A d \in recorded : Represented(d, diags)
    /\ ErrorsFailTheBuild

IInv == Types /\ Sound /\ Complete /\ EachOnce /\ DiagnosticsAreKept

-----------------------------------------------------------------------------
(* Recursive functions are what their definitions say: there is one with   *)
(* 0..n for its domain, since the least n without one would follow an n    *)
(* that has one.                                                           *)

LEMMA LeastOf ==
    ASSUME NEW S \in SUBSET Nat, S # {}
    PROVE  \E m \in S : \A k \in S : m <= k
<1>1. IsWellFoundedOn(OpToRel(<, Nat), Nat)
    BY NatLessThanWellFounded
<1>2. PICK m \in S : \A k \in S : ~(<<k, m>> \in OpToRel(<, Nat))
    BY <1>1, WFMin
<1>3. \A k \in S : ~(k < m)
    BY <1>2 DEF OpToRel
<1>. QED
    BY <1>3

\* The worlds after a statement more.
Steps(ws, line) == UNION {StepWorld(setup, w, line) : w \in ws}

LEMMA ReadIs ==
    ASSUME NEW ws, NEW k, End \in Nat
    PROVE  Read(setup, ws, k) = [n \in 0..End |-> IF n = 0 THEN ws ELSE Steps(Read(setup, ws, k)[n - 1], k + n)]
<1> DEFINE Step(x, n) == Steps(x, k + n)
<1> DEFINE Part(g, n) == g = [m \in 0..n |-> IF m = 0 THEN ws ELSE Step(g[m - 1], m)]
<1>1. \A n \in Nat : \E g : Part(g, n)
    <2> HIDE DEF Step
    <2> DEFINE Bad == {n \in Nat : ~\E g : Part(g, n)}
    <2>1. SUFFICES ASSUME Bad # {} PROVE FALSE
        OBVIOUS
    <2>2. PICK n \in Bad : \A m \in Bad : n <= m
        BY <2>1, LeastOf
    <2>3. n # 0
        <3>1. Part([m \in 0..0 |-> ws], 0)
            OBVIOUS
        <3>. QED
            BY <3>1
    <2>4. n - 1 \in Nat /\ n - 1 \notin Bad
        <3>1. n \in Nat
            OBVIOUS
        <3> HIDE DEF Bad, Part
        <3>. QED
            BY <3>1, <2>2, <2>3
    <2>5. PICK g : Part(g, n - 1)
        BY <2>4
    <2> DEFINE h == [m \in 0..n |-> IF m < n THEN g[m] ELSE Step(g[n - 1], n)]
    <2>6. Part(h, n)
        <3>1. \A m \in 0..(n - 1) : h[m] = g[m]
            OBVIOUS
        <3>2. \A m \in 0..n : h[m] = IF m = 0 THEN ws ELSE Step(h[m - 1], m)
            <4> SUFFICES ASSUME NEW m \in 0..n
                         PROVE  h[m] = IF m = 0 THEN ws ELSE Step(h[m - 1], m)
                OBVIOUS
            <4>1. CASE m = n
                <5>1. n - 1 \in 0..(n - 1)
                    BY <2>4
                <5>. QED
                    BY <4>1, <3>1, <5>1, <2>3
            <4>2. CASE m # n
                <5>1. m \in 0..(n - 1) /\ (m # 0 => m - 1 \in 0..(n - 1))
                    BY <4>2
                <5>2. g[m] = IF m = 0 THEN ws ELSE Step(g[m - 1], m)
                    BY <2>5, <5>1
                <5>. QED
                    BY <5>1, <5>2, <3>1
            <4>. QED
                BY <4>1, <4>2
        <3>. QED
            BY <3>2
    <2>. QED
        BY <2>2, <2>6
<1>2. PICK g : Part(g, End)
    BY <1>1
<1>. QED
    BY <1>2 DEF Read, End, Steps, Statements

\* The ways after a row more.
RowBranches(kind, ways, row, line) == UNION {Branch(kind, y, row, line) : y \in ways}

BranchesOut(after, kind, rows, line) ==
    \A n \in 1..Len(rows) : after[n] = RowBranches(kind, after[n - 1], rows[n], line)

LEMMA BranchedIs ==
    ASSUME NEW kind, NEW s, NEW rows, NEW line, Len(rows) \in Nat
    PROVE  /\ Branched(kind, s, rows, line)[0] = {Way(s, TRUE)}
           /\ BranchesOut(Branched(kind, s, rows, line), kind, rows, line)
<1> DEFINE Step(x, n) == RowBranches(kind, x, rows[n], line)
<1> DEFINE Part(g, n) == g = [m \in 0..n |-> IF m = 0 THEN {Way(s, TRUE)} ELSE Step(g[m - 1], m)]
<1>1. \A n \in Nat : \E g : Part(g, n)
    <2> HIDE DEF Step
    <2> DEFINE Bad == {n \in Nat : ~\E g : Part(g, n)}
    <2>1. SUFFICES ASSUME Bad # {} PROVE FALSE
        OBVIOUS
    <2>2. PICK n \in Bad : \A m \in Bad : n <= m
        BY <2>1, LeastOf
    <2>3. n # 0
        <3>1. Part([m \in 0..0 |-> {Way(s, TRUE)}], 0)
            OBVIOUS
        <3>. QED
            BY <3>1
    <2>4. n - 1 \in Nat /\ n - 1 \notin Bad
        <3>1. n \in Nat
            OBVIOUS
        <3> HIDE DEF Bad, Part
        <3>. QED
            BY <3>1, <2>2, <2>3
    <2>5. PICK g : Part(g, n - 1)
        BY <2>4
    <2> DEFINE h == [m \in 0..n |-> IF m < n THEN g[m] ELSE Step(g[n - 1], n)]
    <2>6. Part(h, n)
        <3>1. \A m \in 0..(n - 1) : h[m] = g[m]
            OBVIOUS
        <3>2. \A m \in 0..n : h[m] = IF m = 0 THEN {Way(s, TRUE)} ELSE Step(h[m - 1], m)
            <4> SUFFICES ASSUME NEW m \in 0..n
                         PROVE  h[m] = IF m = 0 THEN {Way(s, TRUE)} ELSE Step(h[m - 1], m)
                OBVIOUS
            <4>1. CASE m = n
                <5>1. n - 1 \in 0..(n - 1)
                    BY <2>4
                <5>. QED
                    BY <4>1, <3>1, <5>1, <2>3
            <4>2. CASE m # n
                <5>1. m \in 0..(n - 1) /\ (m # 0 => m - 1 \in 0..(n - 1))
                    BY <4>2
                <5>2. g[m] = IF m = 0 THEN {Way(s, TRUE)} ELSE Step(g[m - 1], m)
                    BY <2>5, <5>1
                <5>. QED
                    BY <5>1, <5>2, <3>1
            <4>. QED
                BY <4>1, <4>2
        <3>. QED
            BY <3>2
    <2>. QED
        BY <2>2, <2>6
<1>2. PICK g : Part(g, Len(rows))
    BY <1>1
<1> DEFINE f == Branched(kind, s, rows, line)
<1>3. f = [m \in 0..Len(rows) |-> IF m = 0 THEN {Way(s, TRUE)} ELSE Step(f[m - 1], m)]
    BY <1>2 DEF Branched, RowBranches
<1> HIDE DEF f
<1>4. f[0] = {Way(s, TRUE)}
    BY <1>3
<1>5. \A n \in 1..Len(rows) : n \in 0..Len(rows) /\ n # 0
    OBVIOUS
<1> HIDE DEF Step
<1>6. \A n \in 1..Len(rows) : f[n] = Step(f[n - 1], n)
    BY <1>3, <1>5
<1>. QED
    BY <1>4, <1>6 DEF f, Step, BranchesOut

LEMMA ForkedByIs ==
    ASSUME NEW kind, NEW s, NEW rows, NEW line, Len(rows) \in Nat
    PROVE  ForkedBy(kind, s, rows, line) =
               [n \in 0..Len(rows) |->
                   IF n = 0 THEN Continue(s)
                   ELSE IF ForkedBy(kind, s, rows, line)[n - 1].more
                        THEN ForkRow(kind, ForkedBy(kind, s, rows, line)[n - 1], rows[n], line)
                        ELSE ForkedBy(kind, s, rows, line)[n - 1]]
<1> DEFINE Step(x, n) == IF x.more THEN ForkRow(kind, x, rows[n], line) ELSE x
<1> DEFINE Part(g, n) == g = [m \in 0..n |-> IF m = 0 THEN Continue(s) ELSE Step(g[m - 1], m)]
<1>1. \A n \in Nat : \E g : Part(g, n)
    <2> HIDE DEF Step
    <2> DEFINE Bad == {n \in Nat : ~\E g : Part(g, n)}
    <2>1. SUFFICES ASSUME Bad # {} PROVE FALSE
        OBVIOUS
    <2>2. PICK n \in Bad : \A m \in Bad : n <= m
        BY <2>1, LeastOf
    <2>3. n # 0
        <3>1. Part([m \in 0..0 |-> Continue(s)], 0)
            OBVIOUS
        <3>. QED
            BY <3>1
    <2>4. n - 1 \in Nat /\ n - 1 \notin Bad
        <3>1. n \in Nat
            OBVIOUS
        <3> HIDE DEF Bad, Part
        <3>. QED
            BY <3>1, <2>2, <2>3
    <2>5. PICK g : Part(g, n - 1)
        BY <2>4
    <2> DEFINE h == [m \in 0..n |-> IF m < n THEN g[m] ELSE Step(g[n - 1], n)]
    <2>6. Part(h, n)
        <3>1. \A m \in 0..(n - 1) : h[m] = g[m]
            OBVIOUS
        <3>2. \A m \in 0..n : h[m] = IF m = 0 THEN Continue(s) ELSE Step(h[m - 1], m)
            <4> SUFFICES ASSUME NEW m \in 0..n
                         PROVE  h[m] = IF m = 0 THEN Continue(s) ELSE Step(h[m - 1], m)
                OBVIOUS
            <4>1. CASE m = n
                <5>1. n - 1 \in 0..(n - 1)
                    BY <2>4
                <5>. QED
                    BY <4>1, <3>1, <5>1, <2>3
            <4>2. CASE m # n
                <5>1. m \in 0..(n - 1) /\ (m # 0 => m - 1 \in 0..(n - 1))
                    BY <4>2
                <5>2. g[m] = IF m = 0 THEN Continue(s) ELSE Step(g[m - 1], m)
                    BY <2>5, <5>1
                <5>. QED
                    BY <5>1, <5>2, <3>1
            <4>. QED
                BY <4>1, <4>2
        <3>. QED
            BY <3>2
    <2>. QED
        BY <2>2, <2>6
<1>2. PICK g : Part(g, Len(rows))
    BY <1>1
<1>. QED
    BY <1>2 DEF ForkedBy

-----------------------------------------------------------------------------
(* Sequences of anything: IsList says no more than that s is one.          *)

LEMMA ListIs ==
    ASSUME NEW s, IsList(s)
    PROVE  /\ Len(s) \in Nat
           /\ DOMAIN s = 1..Len(s)
           /\ s = [i \in 1..Len(s) |-> s[i]]
           /\ \A i \in 1..Len(s) : s[i] \in ToSet(s)
           /\ \A x \in ToSet(s) : \E i \in 1..Len(s) : s[i] = x
           /\ s = <<>> <=> Len(s) = 0
<1>1. s \in Seq(ToSet(s))
    BY DEF IsList
<1>2. Len(s) \in Nat /\ DOMAIN s = 1..Len(s)
    BY <1>1, LenProperties
<1>3. s = [i \in 1..Len(s) |-> s[i]]
    BY <1>1, LenProperties
<1>4. \A x : x \in ToSet(s) <=> \E i \in 1..Len(s) : s[i] = x
    BY <1>2 DEF ToSet
<1>5. s = <<>> <=> Len(s) = 0
    BY <1>1, EmptySeq
<1>. QED
    BY <1>2, <1>3, <1>4, <1>5

LEMMA FirstIsThere ==
    ASSUME NEW s, IsList(s), s # <<>>
    PROVE  1 \in 1..Len(s) /\ s[1] \in ToSet(s)
<1>1. Len(s) \in Nat /\ Len(s) # 0
    BY ListIs
<1>2. 1 \in 1..Len(s)
    BY <1>1
<1>. QED
    BY <1>2, ListIs

LEMMA ListOfSeq ==
    ASSUME NEW S, NEW s \in Seq(S)
    PROVE  IsList(s) /\ ToSet(s) \subseteq S
<1>1. Len(s) \in Nat /\ DOMAIN s = 1..Len(s) /\ s \in [1..Len(s) -> S]
    BY LenProperties
<1>2. ToSet(s) \subseteq S
    BY <1>1 DEF ToSet
<1>3. s \in [1..Len(s) -> ToSet(s)]
    BY <1>1 DEF ToSet
<1>4. s \in Seq(ToSet(s))
    BY <1>1, <1>3, SeqDef
<1>. QED
    BY <1>2, <1>4 DEF IsList

LEMMA ListOfFunction ==
    ASSUME NEW n \in Nat, NEW f, f = [i \in 1..n |-> f[i]]
    PROVE  IsList(f) /\ Len(f) = n
<1> DEFINE S == {f[i] : i \in 1..n}
<1>1. f \in [1..n -> S]
    OBVIOUS
<1>2. f \in Seq(S)
    BY <1>1, SeqDef
<1>3. DOMAIN f = 1..n /\ DOMAIN f = 1..Len(f) /\ Len(f) \in Nat
    BY <1>1, <1>2, LenProperties
<1>4. Len(f) = n
    BY <1>3
<1>. QED
    BY <1>2, <1>4, ListOfSeq

LEMMA ListMonotonic ==
    ASSUME NEW s, IsList(s), NEW S, ToSet(s) \subseteq S
    PROVE  s \in Seq(S)
  BY SeqMonotonic DEF IsList

LEMMA EmptyList == IsList(<<>>) /\ ToSet(<<>>) = {} /\ Len(<<>>) = 0
<1>1. PICK e : e = <<>>
    OBVIOUS
<1>2. e \in Seq({0}) /\ Len(e) = 0
    BY <1>1, EmptySeq
<1>3. IsList(e)
    BY <1>2, ListOfSeq
<1>4. \A x \in ToSet(e) : FALSE
    BY <1>2, <1>3, ListIs
<1>. QED
    BY <1>1, <1>2, <1>3, <1>4

LEMMA SingletonList ==
    ASSUME NEW x
    PROVE  IsList(<<x>>) /\ ToSet(<<x>>) = {x} /\ Len(<<x>>) = 1 /\ <<x>>[1] = x
<1>1. <<x>> \in Seq({x}) /\ Len(<<x>>) = 1 /\ <<x>>[1] = x
    OBVIOUS
<1>2. IsList(<<x>>) /\ ToSet(<<x>>) \subseteq {x}
    BY <1>1, ListOfSeq
<1>3. x \in ToSet(<<x>>)
    BY <1>1, <1>2, ListIs
<1>. QED
    BY <1>1, <1>2, <1>3

LEMMA ConcatList ==
    ASSUME NEW s, NEW t, IsList(s), IsList(t)
    PROVE  /\ IsList(s \o t)
           /\ Len(s \o t) = Len(s) + Len(t)
           /\ \A i \in 1..Len(s) : (s \o t)[i] = s[i]
           /\ \A i \in 1..Len(t) : (s \o t)[Len(s) + i] = t[i]
           /\ ToSet(s \o t) = ToSet(s) \cup ToSet(t)
<1> DEFINE S == ToSet(s) \cup ToSet(t)
<1>1. s \in Seq(S) /\ t \in Seq(S)
    BY ListMonotonic
<1>2. Len(s) \in Nat /\ Len(t) \in Nat
    BY ListIs
<1>3. /\ s \o t \in Seq(S)
      /\ Len(s \o t) = Len(s) + Len(t)
      /\ \A i \in 1..Len(s) + Len(t) :
            (s \o t)[i] = IF i <= Len(s) THEN s[i] ELSE t[i - Len(s)]
    BY <1>1, ConcatProperties
<1>4. \A i \in 1..Len(s) : (s \o t)[i] = s[i]
    BY <1>2, <1>3
<1>5. ASSUME NEW i \in 1..Len(t)
      PROVE  (s \o t)[Len(s) + i] = t[i]
    <2>1. Len(s) + i \in 1..Len(s) + Len(t) /\ ~(Len(s) + i <= Len(s)) /\ (Len(s) + i) - Len(s) = i
        BY <1>2
    <2>. QED
        BY <2>1, <1>3
<1>6. IsList(s \o t) /\ ToSet(s \o t) \subseteq S
    BY <1>3, ListOfSeq
<1>7. ASSUME NEW x \in ToSet(s)
      PROVE  x \in ToSet(s \o t)
    <2>1. PICK i \in 1..Len(s) : s[i] = x
        BY ListIs
    <2>2. i \in 1..Len(s \o t)
        BY <1>2, <1>3
    <2>. QED
        BY <2>1, <2>2, <1>4, <1>6, ListIs
<1>8. ASSUME NEW x \in ToSet(t)
      PROVE  x \in ToSet(s \o t)
    <2>1. PICK i \in 1..Len(t) : t[i] = x
        BY ListIs
    <2>2. Len(s) + i \in 1..Len(s \o t)
        BY <1>2, <1>3
    <2>. QED
        BY <2>1, <2>2, <1>5, <1>6, ListIs
<1>. QED
    BY <1>3, <1>4, <1>5, <1>6, <1>7, <1>8

-----------------------------------------------------------------------------
(* Retain: a part of the sequence, in its order.                           *)

\* r is made of the places `at` of seq, which are among the first n.
IsPartOf(r, seq, S, n, at) ==
    /\ IsList(r)
    /\ at \in [1..Len(r) -> 1..n]
    /\ \A a \in 1..Len(r) : r[a] = seq[at[a]] /\ r[a] \in S
    /\ \A a, b \in 1..Len(r) : at[a] = at[b] => a = b
    /\ \A i \in 1..n : seq[i] \in S => \E a \in 1..Len(r) : at[a] = i

LEMMA RetainStep ==
    ASSUME NEW r, NEW seq, NEW S, NEW n \in Nat, NEW at, IsPartOf(r, seq, S, n, at)
    PROVE  \E more : IsPartOf(IF seq[n + 1] \in S THEN Append(r, seq[n + 1]) ELSE r, seq, S, n + 1, more)
<1>1. IsList(r) /\ Len(r) \in Nat /\ at \in [1..Len(r) -> 1..n]
    BY ListIs DEF IsPartOf
<1>2. CASE seq[n + 1] \in S
    <2> DEFINE t == Append(r, seq[n + 1])
               more == [a \in 1..(Len(r) + 1) |-> IF a <= Len(r) THEN at[a] ELSE n + 1]
    <2>1. /\ IsList(t) /\ Len(t) = Len(r) + 1
          /\ \A a \in 1..Len(r) : t[a] = r[a]
          /\ t[Len(r) + 1] = seq[n + 1]
        <3>1. r \in Seq(ToSet(r) \cup {seq[n + 1]})
            BY <1>1, ListMonotonic
        <3>2. t \in Seq(ToSet(r) \cup {seq[n + 1]})
            BY <3>1
        <3>3. IsList(t)
            BY <3>2, ListOfSeq
        <3>. QED
            BY <3>1, <3>3, <1>1
    <2>2. more \in [1..Len(t) -> 1..(n + 1)]
        BY <1>1, <2>1
    <2>3. \A a \in 1..Len(t) : t[a] = seq[more[a]] /\ t[a] \in S
        BY <1>1, <1>2, <2>1 DEF IsPartOf
    <2>4. \A a, b \in 1..Len(t) : more[a] = more[b] => a = b
        <3>1. \A a \in 1..Len(r) : more[a] = at[a] /\ at[a] \in 1..n
            BY <1>1
        <3>2. more[Len(r) + 1] = n + 1
            BY <1>1
        <3>3. \A a \in 1..Len(t) : a \in 1..Len(r) \/ a = Len(r) + 1
            BY <1>1, <2>1
        <3>. QED
            BY <3>1, <3>2, <3>3 DEF IsPartOf
    <2>5. \A i \in 1..(n + 1) : seq[i] \in S => \E a \in 1..Len(t) : more[a] = i
        <3>1. \A i \in 1..n : seq[i] \in S => \E a \in 1..Len(r) : at[a] = i
            BY DEF IsPartOf
        <3>2. \A a \in 1..Len(r) : more[a] = at[a] /\ a \in 1..Len(t)
            BY <1>1, <2>1
        <3>3. Len(r) + 1 \in 1..Len(t) /\ more[Len(r) + 1] = n + 1
            BY <1>1, <2>1
        <3>4. \A i \in 1..(n + 1) : i \in 1..n \/ i = n + 1
            OBVIOUS
        <3> HIDE DEF more
        <3>. QED
            BY <3>1, <3>2, <3>3, <3>4
    <2> HIDE DEF t, more
    <2>6. IsPartOf(t, seq, S, n + 1, more)
        BY <2>1, <2>2, <2>3, <2>4, <2>5 DEF IsPartOf
    <2>. QED
        BY <1>2, <2>6 DEF t
<1>3. CASE seq[n + 1] \notin S
    <2>1. at \in [1..Len(r) -> 1..(n + 1)]
        BY <1>1
    <2>2. \A i \in 1..(n + 1) : seq[i] \in S => i \in 1..n
        BY <1>3
    <2>3. IsPartOf(r, seq, S, n + 1, at)
        BY <2>1, <2>2 DEF IsPartOf
    <2>. QED
        BY <1>3, <2>3
<1>. QED
    BY <1>2, <1>3

LEMMA RetainIs ==
    ASSUME NEW seq, NEW S, IsList(seq)
    PROVE  \E at : IsPartOf(Retain(seq, S), seq, S, Len(seq), at)
<1> DEFINE Step(x, n) == IF seq[n] \in S THEN Append(x, seq[n]) ELSE x
<1> DEFINE Part(g, n) ==
        /\ g = [m \in 0..n |-> IF m = 0 THEN <<>> ELSE Step(g[m - 1], m)]
        /\ \E at : IsPartOf(g[n], seq, S, n, at)
<1>1. \A n \in Nat : \E g : Part(g, n)
    <2> DEFINE Bad == {n \in Nat : ~\E g : Part(g, n)}
    <2>1. SUFFICES ASSUME Bad # {} PROVE FALSE
        OBVIOUS
    <2>2. PICK n \in Bad : \A m \in Bad : n <= m
        BY <2>1, LeastOf
    <2>3. n # 0
        <3> DEFINE g == [m \in 0..0 |-> <<>>]
        <3>1. IsPartOf(<<>>, seq, S, 0, [a \in 1..0 |-> 0])
            BY EmptyList DEF IsPartOf
        <3>2. g[0] = <<>> /\ g = [m \in 0..0 |-> IF m = 0 THEN <<>> ELSE Step(g[m - 1], m)]
            OBVIOUS
        <3>3. Part(g, 0)
            BY <3>1, <3>2
        <3>. QED
            BY <3>3
    <2>4. n - 1 \in Nat /\ n - 1 \notin Bad
        <3>1. n \in Nat
            OBVIOUS
        <3> HIDE DEF Bad, Part
        <3>. QED
            BY <3>1, <2>2, <2>3
    <2>5. PICK g : Part(g, n - 1)
        BY <2>4
    <2>6. PICK at : IsPartOf(g[n - 1], seq, S, n - 1, at)
        BY <2>5
    <2>7. (n - 1) + 1 = n
        BY <2>4
    <2>8. \E more : IsPartOf(Step(g[n - 1], n), seq, S, n, more)
        BY <2>4, <2>6, <2>7, RetainStep
    <2> HIDE DEF Step
    <2> DEFINE h == [m \in 0..n |-> IF m < n THEN g[m] ELSE Step(g[n - 1], n)]
    <2>9. Part(h, n)
        <3>1. \A m \in 0..(n - 1) : h[m] = g[m]
            OBVIOUS
        <3>2. \A m \in 0..n : h[m] = IF m = 0 THEN <<>> ELSE Step(h[m - 1], m)
            <4> SUFFICES ASSUME NEW m \in 0..n
                         PROVE  h[m] = IF m = 0 THEN <<>> ELSE Step(h[m - 1], m)
                OBVIOUS
            <4>1. CASE m = n
                <5>1. n - 1 \in 0..(n - 1)
                    BY <2>4
                <5>. QED
                    BY <4>1, <3>1, <5>1, <2>3
            <4>2. CASE m # n
                <5>1. m \in 0..(n - 1) /\ (m # 0 => m - 1 \in 0..(n - 1))
                    BY <4>2
                <5>2. g[m] = IF m = 0 THEN <<>> ELSE Step(g[m - 1], m)
                    BY <2>5, <5>1
                <5>. QED
                    BY <5>1, <5>2, <3>1
            <4>. QED
                BY <4>1, <4>2
        <3>3. h = [m \in 0..n |-> IF m = 0 THEN <<>> ELSE Step(h[m - 1], m)]
            BY <3>2
        <3>4. h[n] = Step(g[n - 1], n)
            BY <2>4
        <3> HIDE DEF h
        <3>. QED
            BY <3>3, <3>4, <2>8
    <2>. QED
        BY <2>2, <2>9
<1>2. Len(seq) \in Nat
    BY ListIs
<1>3. PICK g : Part(g, Len(seq))
    BY <1>1, <1>2
<1> DEFINE f == CHOOSE f : f = [n \in 0..Len(seq) |-> IF n = 0 THEN <<>> ELSE Step(f[n - 1], n)]
<1>4. f = [n \in 0..Len(seq) |-> IF n = 0 THEN <<>> ELSE Step(f[n - 1], n)]
    BY <1>3
<1>5. \A n \in 0..Len(seq) : f[n] = g[n]
    <2> HIDE DEF Step, f
    <2> DEFINE Bad == {n \in Nat : n <= Len(seq) /\ f[n] # g[n]}
    <2>1. SUFFICES ASSUME Bad # {} PROVE FALSE
        BY <1>2
    <2>2. PICK n \in Bad : \A m \in Bad : n <= m
        BY <2>1, LeastOf
    <2>3. n \in 0..Len(seq) /\ (n # 0 => n - 1 \in 0..Len(seq) /\ f[n - 1] = g[n - 1])
        BY <2>2, <1>2
    <2>4. f[n] = (IF n = 0 THEN <<>> ELSE Step(f[n - 1], n)) /\ g[n] = IF n = 0 THEN <<>> ELSE Step(g[n - 1], n)
        BY <1>3, <1>4, <2>3
    <2>. QED
        BY <2>2, <2>3, <2>4
<1>6. Retain(seq, S) = f[Len(seq)]
    BY DEF Retain
<1>7. \E at : IsPartOf(g[Len(seq)], seq, S, Len(seq), at)
    BY <1>3
<1>8. f[Len(seq)] = g[Len(seq)]
    <2> HIDE DEF f, Part
    <2>. QED
        BY <1>2, <1>5
<1> HIDE DEF f, Part
<1>. QED
    BY <1>6, <1>7, <1>8

\* What Retain keeps.
LEMMA RetainKeeps ==
    ASSUME NEW seq, NEW S, IsList(seq)
    PROVE  IsList(Retain(seq, S)) /\ ToSet(Retain(seq, S)) = ToSet(seq) \cap S
<1> DEFINE r == Retain(seq, S)
<1>1. PICK at : IsPartOf(r, seq, S, Len(seq), at)
    BY RetainIs
<1> HIDE DEF r
<1>2. IsList(r) /\ Len(seq) \in Nat
    BY <1>1, ListIs DEF IsPartOf
<1>3. ASSUME NEW x \in ToSet(r)
      PROVE  x \in ToSet(seq) /\ x \in S
    <2>1. PICK a \in 1..Len(r) : r[a] = x
        BY <1>2, ListIs
    <2>2. at[a] \in 1..Len(seq) /\ r[a] = seq[at[a]] /\ r[a] \in S
        BY <1>1 DEF IsPartOf
    <2>. QED
        BY <2>1, <2>2, ListIs
<1>4. ASSUME NEW x \in ToSet(seq), x \in S
      PROVE  x \in ToSet(r)
    <2>1. PICK i \in 1..Len(seq) : seq[i] = x
        BY ListIs
    <2>2. PICK a \in 1..Len(r) : at[a] = i
        BY <1>1, <1>4, <2>1 DEF IsPartOf
    <2>3. r[a] = x
        BY <1>1, <2>1, <2>2 DEF IsPartOf
    <2>. QED
        BY <1>2, <2>3, ListIs
<1>. QED
    BY <1>2, <1>3, <1>4 DEF r

-----------------------------------------------------------------------------
(* FlattenSeq: each element of each sequence at a place of its own.        *)

AllLists(ss) == IsList(ss) /\ \A i \in 1..Len(ss) : IsList(ss[i])

\* r is the first n sequences of ss, one after the other: what is at a comes from row[a], col[a].
IsJoined(r, ss, n, row, col) ==
    /\ IsList(r)
    /\ \A a \in 1..Len(r) :
          row[a] \in 1..n /\ col[a] \in 1..Len(ss[row[a]]) /\ r[a] = ss[row[a]][col[a]]
    /\ \A a, b \in 1..Len(r) : row[a] = row[b] /\ col[a] = col[b] => a = b
    /\ \A i \in 1..n : \A j \in 1..Len(ss[i]) : \E a \in 1..Len(r) : row[a] = i /\ col[a] = j

LEMMA JoinFirst ==
    ASSUME NEW ss, AllLists(ss), Len(ss) > 0
    PROVE  \E row, col : IsJoined(ss[1], ss, 1, row, col)
<1>1. Len(ss) \in Nat /\ 1 \in 1..Len(ss)
    BY ListIs DEF AllLists
<1>2. IsList(ss[1]) /\ Len(ss[1]) \in Nat
    BY <1>1, ListIs DEF AllLists
<1> DEFINE row == [a \in 1..Len(ss[1]) |-> 1]
           col == [a \in 1..Len(ss[1]) |-> a]
<1>3. \A a \in 1..Len(ss[1]) : row[a] = 1 /\ col[a] = a
    OBVIOUS
<1> HIDE DEF row, col
<1>4. \A i \in 1..1 : i = 1
    OBVIOUS
<1>5. \A i \in 1..1 : \A j \in 1..Len(ss[i]) : \E a \in 1..Len(ss[1]) : row[a] = i /\ col[a] = j
    BY <1>3, <1>4
<1>6. \A a \in 1..Len(ss[1]) :
          row[a] \in 1..1 /\ col[a] \in 1..Len(ss[row[a]]) /\ ss[1][a] = ss[row[a]][col[a]]
    BY <1>3
<1>7. \A a, b \in 1..Len(ss[1]) : row[a] = row[b] /\ col[a] = col[b] => a = b
    BY <1>3
<1>8. IsJoined(ss[1], ss, 1, row, col)
    BY <1>2, <1>5, <1>6, <1>7 DEF IsJoined
<1>. QED
    BY <1>8

LEMMA JoinNext ==
    ASSUME NEW ss, AllLists(ss), NEW n \in Nat, n < Len(ss), NEW r, NEW row, NEW col,
           IsJoined(r, ss, n, row, col)
    PROVE  \E row2, col2 : IsJoined(r \o ss[n + 1], ss, n + 1, row2, col2)
<1> DEFINE t == ss[n + 1]
           l == Len(r)
<1>1. Len(ss) \in Nat /\ n + 1 \in 1..Len(ss)
    BY ListIs DEF AllLists
<1>2. IsList(t) /\ Len(t) \in Nat /\ IsList(r) /\ l \in Nat
    BY <1>1, ListIs DEF AllLists, IsJoined
<1>3. /\ IsList(r \o t) /\ Len(r \o t) = l + Len(t)
      /\ \A a \in 1..l : (r \o t)[a] = r[a]
      /\ \A a \in 1..Len(t) : (r \o t)[l + a] = t[a]
    BY <1>2, ConcatList
<1> DEFINE row2 == [a \in 1..(l + Len(t)) |-> IF a <= l THEN row[a] ELSE n + 1]
           col2 == [a \in 1..(l + Len(t)) |-> IF a <= l THEN col[a] ELSE a - l]
<1>4. ASSUME NEW a \in 1..(l + Len(t))
      PROVE  \/ a \in 1..l /\ row2[a] = row[a] /\ col2[a] = col[a]
             \/ /\ a - l \in 1..Len(t) /\ a = l + (a - l)
                /\ row2[a] = n + 1 /\ col2[a] = a - l
    <2>1. CASE a <= l
        BY <2>1, <1>2
    <2>2. CASE ~(a <= l)
        BY <2>2, <1>2
    <2>. QED
        BY <2>1, <2>2
<1>5. \A a \in 1..l : a \in 1..(l + Len(t)) /\ row2[a] = row[a] /\ col2[a] = col[a]
    BY <1>2
<1>6. \A j \in 1..Len(t) : l + j \in 1..(l + Len(t)) /\ row2[l + j] = n + 1 /\ col2[l + j] = j
    BY <1>2
<1>7. \A a \in 1..l : /\ row[a] \in 1..n /\ row[a] \in 1..(n + 1) /\ row[a] # n + 1
                      /\ col[a] \in 1..Len(ss[row[a]]) /\ r[a] = ss[row[a]][col[a]]
    BY DEF IsJoined
<1>8. \A i \in 1..(n + 1) : i \in 1..n \/ i = n + 1
    OBVIOUS
<1> DEFINE q == r \o t
<1>9. \A a \in 1..(l + Len(t)) :
          row2[a] \in 1..(n + 1) /\ col2[a] \in 1..Len(ss[row2[a]]) /\ q[a] = ss[row2[a]][col2[a]]
    <2> SUFFICES ASSUME NEW a \in 1..(l + Len(t))
                 PROVE  row2[a] \in 1..(n + 1) /\ col2[a] \in 1..Len(ss[row2[a]]) /\ q[a] = ss[row2[a]][col2[a]]
        OBVIOUS
    <2> HIDE DEF row2, col2
    <2>1. CASE a \in 1..l /\ row2[a] = row[a] /\ col2[a] = col[a]
        BY <2>1, <1>3, <1>7
    <2>2. CASE /\ a - l \in 1..Len(t) /\ a = l + (a - l)
               /\ row2[a] = n + 1 /\ col2[a] = a - l
        <3>1. q[l + (a - l)] = t[a - l]
            BY <2>2, <1>3
        <3>. QED
            BY <2>2, <3>1
    <2>. QED
        BY <2>1, <2>2, <1>4
<1>10. \A a, b \in 1..(l + Len(t)) : row2[a] = row2[b] /\ col2[a] = col2[b] => a = b
    <2> SUFFICES ASSUME NEW a \in 1..(l + Len(t)), NEW b \in 1..(l + Len(t)),
                        row2[a] = row2[b], col2[a] = col2[b]
                 PROVE  a = b
        OBVIOUS
    <2> HIDE DEF row2, col2
    <2>1. a \in 1..l => b \in 1..l
        BY <1>4, <1>5, <1>7
    <2>2. b \in 1..l => a \in 1..l
        BY <1>4, <1>5, <1>7
    <2>3. CASE a \in 1..l
        BY <2>1, <2>3, <1>5 DEF IsJoined
    <2>4. CASE a \notin 1..l
        BY <2>2, <2>4, <1>4
    <2>. QED
        BY <2>3, <2>4
<1>11. \A i \in 1..(n + 1) : \A j \in 1..Len(ss[i]) : \E a \in 1..(l + Len(t)) : row2[a] = i /\ col2[a] = j
    <2> SUFFICES ASSUME NEW i \in 1..(n + 1), NEW j \in 1..Len(ss[i])
                 PROVE  \E a \in 1..(l + Len(t)) : row2[a] = i /\ col2[a] = j
        OBVIOUS
    <2> HIDE DEF row2, col2
    <2>1. CASE i \in 1..n
        <3>1. PICK a \in 1..l : row[a] = i /\ col[a] = j
            BY <2>1 DEF IsJoined
        <3>. QED
            BY <3>1, <1>5
    <2>2. CASE i = n + 1
        BY <2>2, <1>6
    <2>. QED
        BY <2>1, <2>2, <1>8
<1> HIDE DEF row2, col2
<1>12. IsList(q) /\ Len(q) = l + Len(t)
    BY <1>3
<1> HIDE DEF q, t, l
<1>13. IsJoined(q, ss, n + 1, row2, col2)
    BY <1>9, <1>10, <1>11, <1>12 DEF IsJoined
<1>. QED
    BY <1>13 DEF q, t

LEMMA FlattenIs ==
    ASSUME NEW ss, AllLists(ss)
    PROVE  \E row, col : IsJoined(FlattenSeq(ss), ss, Len(ss), row, col)
<1>1. Len(ss) \in Nat
    BY ListIs DEF AllLists
<1>2. CASE Len(ss) = 0
    <2>1. FlattenSeq(ss) = ss
        BY <1>2 DEF FlattenSeq
    <2>2. IsJoined(ss, ss, 0, ss, ss)
        BY <1>2 DEF IsJoined, AllLists
    <2>. QED
        BY <1>2, <2>1, <2>2
<1>3. CASE Len(ss) # 0
    <2> DEFINE Step(x, n) == x \o ss[n]
        Part(g, n) ==
            /\ g = [m \in 1..n |-> IF m = 1 THEN ss[m] ELSE Step(g[m - 1], m)]
            /\ \E row, col : IsJoined(g[n], ss, n, row, col)
    <2>1. \A n \in 1..Len(ss) : \E g : Part(g, n)
        <3> DEFINE Bad == {n \in 1..Len(ss) : ~\E g : Part(g, n)}
        <3>1. SUFFICES ASSUME Bad # {} PROVE FALSE
            OBVIOUS
        <3>2. PICK n \in Bad : \A m \in Bad : n <= m
            <4>1. Bad \subseteq 1..Len(ss)
                OBVIOUS
            <4> HIDE DEF Bad
            <4>2. Bad \in SUBSET Nat
                BY <4>1, <1>1
            <4>. QED
                BY <3>1, <4>2, LeastOf
        <3>3. n # 1
            <4> DEFINE g == [m \in 1..1 |-> ss[1]]
            <4>1. g[1] = ss[1]
                OBVIOUS
            <4>2. g = [m \in 1..1 |-> IF m = 1 THEN ss[m] ELSE Step(g[m - 1], m)]
                OBVIOUS
            <4>3. \E row, col : IsJoined(ss[1], ss, 1, row, col)
                BY <1>1, <1>3, JoinFirst
            <4> HIDE DEF g
            <4>4. Part(g, 1)
                BY <4>1, <4>2, <4>3
            <4>. QED
                BY <4>4
        <3>4. n - 1 \in 1..Len(ss) /\ n - 1 \notin Bad /\ n - 1 < Len(ss) /\ n - 1 \in Nat /\ (n - 1) + 1 = n
            <4>1. n \in 1..Len(ss)
                OBVIOUS
            <4> HIDE DEF Bad, Part
            <4>. QED
                BY <4>1, <1>1, <3>2, <3>3
        <3>5. PICK g : Part(g, n - 1)
            BY <3>4
        <3>6. PICK row, col : IsJoined(g[n - 1], ss, n - 1, row, col)
            BY <3>5
        <3>7. \E row2, col2 : IsJoined(g[n - 1] \o ss[(n - 1) + 1], ss, (n - 1) + 1, row2, col2)
            BY <3>4, <3>6, JoinNext
        <3>8. \E row2, col2 : IsJoined(Step(g[n - 1], n), ss, n, row2, col2)
            BY <3>4, <3>7
        <3> HIDE DEF Step
        <3> DEFINE h == [m \in 1..n |-> IF m < n THEN g[m] ELSE Step(g[n - 1], n)]
        <3>9. Part(h, n)
            <4>1. \A m \in 1..(n - 1) : h[m] = g[m]
                BY <3>4
            <4>2. \A m \in 1..n : h[m] = IF m = 1 THEN ss[m] ELSE Step(h[m - 1], m)
                <5> SUFFICES ASSUME NEW m \in 1..n
                             PROVE  h[m] = IF m = 1 THEN ss[m] ELSE Step(h[m - 1], m)
                    OBVIOUS
                <5>1. CASE m = n
                    <6>1. n - 1 \in 1..(n - 1)
                        BY <3>4
                    <6>. QED
                        BY <5>1, <4>1, <6>1, <3>3
                <5>2. CASE m # n
                    <6>1. m \in 1..(n - 1) /\ (m # 1 => m - 1 \in 1..(n - 1))
                        BY <5>2
                    <6>2. g[m] = IF m = 1 THEN ss[m] ELSE Step(g[m - 1], m)
                        BY <3>5, <6>1
                    <6>. QED
                        BY <6>1, <6>2, <4>1
                <5>. QED
                    BY <5>1, <5>2
            <4>3. h = [m \in 1..n |-> IF m = 1 THEN ss[m] ELSE Step(h[m - 1], m)]
                BY <4>2
            <4>4. h[n] = Step(g[n - 1], n)
                BY <3>4
            <4> HIDE DEF h
            <4>. QED
                BY <4>3, <4>4, <3>8
        <3>. QED
            BY <3>2, <3>9
    <2>2. Len(ss) \in 1..Len(ss)
        BY <1>1, <1>3
    <2>3. PICK g : Part(g, Len(ss))
        BY <2>1, <2>2
    <2> DEFINE f == CHOOSE f : f = [n \in 1..Len(ss) |-> IF n = 1 THEN ss[n] ELSE Step(f[n - 1], n)]
    <2>4. f = [n \in 1..Len(ss) |-> IF n = 1 THEN ss[n] ELSE Step(f[n - 1], n)]
        BY <2>3
    <2>5. \A n \in 1..Len(ss) : f[n] = g[n]
        <3> HIDE DEF Step, f
        <3> DEFINE Bad == {n \in 1..Len(ss) : f[n] # g[n]}
        <3>1. SUFFICES ASSUME Bad # {} PROVE FALSE
            OBVIOUS
        <3>2. PICK n \in Bad : \A m \in Bad : n <= m
            <4>1. Bad \subseteq 1..Len(ss)
                OBVIOUS
            <4> HIDE DEF Bad
            <4>2. Bad \in SUBSET Nat
                BY <4>1, <1>1
            <4>. QED
                BY <3>1, <4>2, LeastOf
        <3>3. n \in 1..Len(ss) /\ (n # 1 => n - 1 \in 1..Len(ss) /\ f[n - 1] = g[n - 1])
            BY <3>2, <1>1
        <3>4. f[n] = (IF n = 1 THEN ss[n] ELSE Step(f[n - 1], n)) /\ g[n] = IF n = 1 THEN ss[n] ELSE Step(g[n - 1], n)
            BY <2>3, <2>4, <3>3
        <3>. QED
            BY <3>2, <3>3, <3>4
    <2>6. FlattenSeq(ss) = f[Len(ss)]
        BY <1>3 DEF FlattenSeq
    <2>7. \E row, col : IsJoined(g[Len(ss)], ss, Len(ss), row, col)
        BY <2>3
    <2>8. f[Len(ss)] = g[Len(ss)]
        <3> HIDE DEF f, Part
        <3>. QED
            BY <2>2, <2>5
    <2> HIDE DEF f, Part
    <2>. QED
        BY <2>6, <2>7, <2>8
<1>. QED
    BY <1>2, <1>3

LEMMA FlattenKeeps ==
    ASSUME NEW ss, AllLists(ss)
    PROVE  /\ IsList(FlattenSeq(ss))
           /\ \A x : x \in ToSet(FlattenSeq(ss)) <=> \E i \in 1..Len(ss) : x \in ToSet(ss[i])
<1> DEFINE r == FlattenSeq(ss)
<1>1. PICK row, col : IsJoined(r, ss, Len(ss), row, col)
    BY FlattenIs
<1> HIDE DEF r
<1>2. IsList(r)
    BY <1>1 DEF IsJoined
<1>3. ASSUME NEW x \in ToSet(r)
      PROVE  \E i \in 1..Len(ss) : x \in ToSet(ss[i])
    <2>1. PICK a \in 1..Len(r) : r[a] = x
        BY <1>2, ListIs
    <2>2. row[a] \in 1..Len(ss) /\ col[a] \in 1..Len(ss[row[a]]) /\ x = ss[row[a]][col[a]]
        BY <1>1, <2>1 DEF IsJoined
    <2>3. IsList(ss[row[a]])
        BY <2>2 DEF AllLists
    <2>. QED
        BY <2>2, <2>3, ListIs
<1>4. ASSUME NEW i \in 1..Len(ss), NEW x \in ToSet(ss[i])
      PROVE  x \in ToSet(r)
    <2>1. IsList(ss[i])
        BY DEF AllLists
    <2>2. PICK j \in 1..Len(ss[i]) : ss[i][j] = x
        BY <2>1, ListIs
    <2>3. PICK a \in 1..Len(r) : row[a] = i /\ col[a] = j
        BY <1>1 DEF IsJoined
    <2>4. r[a] = x
        BY <1>1, <2>2, <2>3 DEF IsJoined
    <2>. QED
        BY <1>2, <2>4, ListIs
<1>. QED
    BY <1>2, <1>3, <1>4 DEF r

-----------------------------------------------------------------------------
(* What a sub-state keeps: it never changes its target, never changes a    *)
(* build ID once it has one, and adds to its settings at the end only.     *)

LEMMA AppendList ==
    ASSUME NEW s, IsList(s), NEW x
    PROVE  /\ IsList(Append(s, x))
           /\ Len(Append(s, x)) = Len(s) + 1
           /\ \A i \in 1..Len(s) : Append(s, x)[i] = s[i]
           /\ Append(s, x)[Len(s) + 1] = x
<1> DEFINE S == ToSet(s) \cup {x}
<1>1. s \in Seq(S) /\ x \in S
    BY ListMonotonic
<1> HIDE DEF S
<1>2. Append(s, x) \in Seq(S)
    BY <1>1
<1>3. IsList(Append(s, x))
    BY <1>2, ListOfSeq
<1>. QED
    BY <1>1, <1>3

Descends(s, t) ==
    /\ t.target = s.target
    /\ s.build # NoBuild => t.build = s.build
    /\ Len(s.settings) <= Len(t.settings)
    /\ \A i \in 1..Len(s.settings) : t.settings[i] = s.settings[i]

\* t is what became of s in the same statement.
Follows(s, t) == IsSub(t) /\ t.pos = s.pos /\ s.said \subseteq t.said /\ Descends(s, t)

SameChoices(s, t) == t.target = s.target /\ t.build = s.build /\ t.settings = s.settings

LEMMA FollowsSame ==
    ASSUME NEW s, NEW t, IsSub(s), DOMAIN t = Fields, t.pos = s.pos, s.said \subseteq t.said,
           SameChoices(s, t)
    PROVE  Follows(s, t)
<1>1. Len(s.settings) \in Nat
    BY ListIs DEF IsSub
<1>. QED
    BY <1>1 DEF Follows, IsSub, Descends, SameChoices

LEMMA DescendsAgrees ==
    ASSUME NEW s, NEW t, IsSub(s), IsSub(t), Descends(s, t), Agrees(t)
    PROVE  Agrees(s)
<1>1. Len(s.settings) \in Nat /\ Len(t.settings) \in Nat
    BY ListIs DEF IsSub
<1>. QED
    BY <1>1 DEF Descends, Agrees, AgreesOn

LEMMA DescendsOn ==
    ASSUME NEW s, NEW t, NEW u, IsSub(s), IsSub(t), IsSub(u), Descends(s, t), Descends(t, u)
    PROVE  Descends(s, u)
<1>1. Len(s.settings) \in Nat /\ Len(t.settings) \in Nat /\ Len(u.settings) \in Nat
    BY ListIs DEF IsSub
<1>. QED
    BY <1>1 DEF Descends

LEMMA FollowsOn ==
    ASSUME NEW s, NEW t, NEW u, IsSub(s), Follows(s, t), Follows(t, u)
    PROVE  Follows(s, u)
  BY DescendsOn DEF Follows

\* What is apart stays apart.
LEMMA ApartStays ==
    ASSUME NEW s, NEW t, NEW u, IsList(s.settings), IsList(t.settings), IsList(u.settings),
           Descends(s, t), Apart(s, u)
    PROVE  Apart(t, u) /\ Apart(u, t)
<1>1. Len(s.settings) \in Nat /\ Len(t.settings) \in Nat /\ Len(u.settings) \in Nat
    BY ListIs
<1>2. CASE s.target # u.target
    BY <1>2 DEF Descends, Apart
<1>3. CASE s.build # NoBuild /\ u.build # NoBuild /\ s.build # u.build
    BY <1>3 DEF Descends, Apart
<1>4. CASE \E i \in 1..Len(s.settings) : i <= Len(u.settings) /\ s.settings[i] # u.settings[i]
    <2>1. PICK i \in 1..Len(s.settings) : i <= Len(u.settings) /\ s.settings[i] # u.settings[i]
        BY <1>4
    <2>2. i \in 1..Len(t.settings) /\ i \in 1..Len(u.settings) /\ i <= Len(t.settings)
        BY <1>1, <2>1 DEF Descends
    <2>3. t.settings[i] # u.settings[i]
        BY <2>1 DEF Descends
    <2>. QED
        BY <2>1, <2>2, <2>3 DEF Apart
<1>. QED
    BY <1>2, <1>3, <1>4 DEF Apart

LEMMA ApartIsSymmetric ==
    ASSUME NEW s, NEW t, IsList(s.settings), IsList(t.settings), Apart(s, t)
    PROVE  Apart(t, s)
<1>1. Len(s.settings) \in Nat
    BY ListIs
<1>2. Descends(s, s)
    BY <1>1 DEF Descends
<1>. QED
    BY <1>2, ApartStays

LEMMA ApartBoth ==
    ASSUME NEW s, NEW t, NEW u, NEW v,
           IsList(s.settings), IsList(t.settings), IsList(u.settings), IsList(v.settings),
           Descends(s, t), Descends(u, v), Apart(s, u)
    PROVE  Apart(t, v)
<1>1. Apart(t, u)
    BY ApartStays
<1>2. Apart(u, t)
    BY <1>1, ApartIsSymmetric
<1>. QED
    BY <1>2, ApartStays

-----------------------------------------------------------------------------
(* Directives, definitions and forks.                                      *)

LEMMA SayIs ==
    ASSUME NEW s, NEW D, DOMAIN s = Fields
    PROVE  /\ DOMAIN Say(s, D) = Fields /\ Say(s, D).pos = s.pos /\ SameChoices(s, Say(s, D))
           /\ Say(s, D).said = s.said \cup D
  BY DEF Say, Fields, SameChoices

LEMMA DirectiveFollows ==
    ASSUME NEW s, NEW d, IsSub(s)
    PROVE  Follows(s, ExecDirective(s, d)) /\ SameChoices(s, ExecDirective(s, d))
<1> DEFINE t == ExecDirective(s, d)
           D == ExecDiags(s.defines, s.activity, d)
<1> HIDE DEF D
<1>1. t = [Say(s, D) EXCEPT !.defines = ExecDefines(s.defines, d),
                            !.activity = ExecActivity(s.defines, s.activity, d)]
    BY DEF ExecDirective, D
<1>2. DOMAIN s = Fields
    BY DEF IsSub
<1>3. DOMAIN t = Fields /\ t.pos = s.pos /\ s.said \subseteq t.said /\ SameChoices(s, t)
    BY <1>1, <1>2, SayIs DEF Fields, SameChoices
<1>. QED
    BY <1>3, FollowsSame

LEMMA DefineAllFollows ==
    ASSUME NEW s, NEW defs, NEW line, IsSub(s)
    PROVE  Follows(s, DefineAll(s, defs, line)) /\ SameChoices(s, DefineAll(s, defs, line))
<1> DEFINE t == DefineAll(s, defs, line)
           after == DefinedBy(s.defines, defs, line)
           D == UNION {ExecDiags(after[n - 1], s.activity, Definition(defs[n], line)) : n \in 1..Len(defs)}
<1> HIDE DEF D
<1>1. t = [Say(s, D) EXCEPT !.defines = after[Len(defs)]]
    BY DEF DefineAll, D
<1>2. DOMAIN s = Fields
    BY DEF IsSub
<1>3. DOMAIN t = Fields /\ t.pos = s.pos /\ s.said \subseteq t.said /\ SameChoices(s, t)
    BY <1>1, <1>2, SayIs DEF Fields, SameChoices
<1>. QED
    BY <1>3, FollowsSame

LEMMA CodeLineFollows ==
    ASSUME NEW s, NEW l, NEW line, IsSub(s)
    PROVE  Follows(s, ExecCodeLine(s, l, line)) /\ SameChoices(s, ExecCodeLine(s, l, line))
<1> DEFINE t == ExecCodeLine(s, l, line)
           r == ExecCode(s.code, Preprocessed(s.defines, l), line)
           D == MacroDiags(s.defines, l, line) \cup r.diags
           c == [s EXCEPT !.code = r.code]
<1> HIDE DEF r
<1>1. t = Say(c, D)
    BY DEF ExecCodeLine, r
<1> HIDE DEF D
<1>2. DOMAIN s = Fields
    BY DEF IsSub
<1>3. DOMAIN c = Fields /\ c.pos = s.pos /\ c.said = s.said /\ SameChoices(s, c)
    BY <1>2 DEF Fields, SameChoices
<1> HIDE DEF c
<1>4. DOMAIN t = Fields /\ t.pos = s.pos /\ s.said \subseteq t.said /\ SameChoices(s, t)
    BY <1>1, <1>3, SayIs DEF SameChoices
<1>. QED
    BY <1>4, FollowsSame

\* What a fork may start from: a build ID is given to a build that has none.
MayFork(kind, s, v) ==
    \/ kind = "build" /\ s.build = NoBuild /\ v.id # NoBuild
    \/ kind = "setting"

LEMMA TargetForkIs ==
    ASSUME NEW s, NEW v, NEW line, IsSub(s)
    PROVE  LET t == Fork("target", s, v, line)
           IN  /\ IsSub(t) /\ t.pos = s.pos /\ s.said \subseteq t.said
               /\ t.target = v /\ t.build = s.build /\ t.settings = s.settings
<1> DEFINE c == [s EXCEPT !.target = v]
           defs == <<[name |-> TargetMacro[v], body |-> "nonzero"]>>
           t == Fork("target", s, v, line)
<1>1. t = DefineAll(c, defs, line)
    BY DEF Fork, ForkTarget
<1>2. /\ IsSub(c) /\ c.pos = s.pos /\ c.said = s.said
      /\ c.target = v /\ c.build = s.build /\ c.settings = s.settings
    BY DEF IsSub, Fields
<1> HIDE DEF c, defs
<1>. QED
    BY <1>1, <1>2, DefineAllFollows DEF Follows, SameChoices

LEMMA BuildForkIs ==
    ASSUME NEW s, NEW v, NEW line, IsSub(s)
    PROVE  LET t == Fork("build", s, v, line)
           IN  /\ IsSub(t) /\ t.pos = s.pos /\ s.said \subseteq t.said
               /\ t.target = s.target /\ t.build = v.id /\ t.settings = s.settings
<1> DEFINE c == [s EXCEPT !.build = v.id, !.buildAt = line]
           t == Fork("build", s, v, line)
<1>1. t = DefineAll(c, v.defines, line)
    BY DEF Fork, ForkBuild
<1>2. /\ IsSub(c) /\ c.pos = s.pos /\ c.said = s.said
      /\ c.target = s.target /\ c.build = v.id /\ c.settings = s.settings
    BY DEF IsSub, Fields
<1> HIDE DEF c
<1>. QED
    BY <1>1, <1>2, DefineAllFollows DEF Follows, SameChoices

LEMMA SettingForkIs ==
    ASSUME NEW s, NEW v, NEW line, IsSub(s)
    PROVE  LET t == Fork("setting", s, v, line)
           IN  /\ IsSub(t) /\ t.pos = s.pos /\ s.said \subseteq t.said
               /\ t.target = s.target /\ t.build = s.build /\ t.settings = Append(s.settings, v.name)
<1> DEFINE more == Append(s.settings, v.name)
           c == [s EXCEPT !.settings = more]
           t == Fork("setting", s, v, line)
<1>1. t = DefineAll(c, v.defines, line)
    BY DEF Fork, ForkSetting
<1>2. IsList(more)
    BY AppendList DEF IsSub
<1> HIDE DEF more
<1>3. /\ IsSub(c) /\ c.pos = s.pos /\ c.said = s.said
      /\ c.target = s.target /\ c.build = s.build /\ c.settings = more
    BY <1>2 DEF IsSub, Fields
<1> HIDE DEF c
<1>. QED
    BY <1>1, <1>3, DefineAllFollows DEF Follows, SameChoices, more

LEMMA ForkFollows ==
    ASSUME NEW kind, NEW s, NEW v, NEW line, IsSub(s), MayFork(kind, s, v)
    PROVE  Follows(s, Fork(kind, s, v, line))
<1>1. Len(s.settings) \in Nat
    BY ListIs DEF IsSub
<1>2. CASE kind = "build" /\ s.build = NoBuild /\ v.id # NoBuild
    BY <1>1, <1>2, BuildForkIs DEF Follows, Descends
<1>3. CASE kind = "setting"
    <2>1. /\ Len(Append(s.settings, v.name)) = Len(s.settings) + 1
          /\ \A i \in 1..Len(s.settings) : Append(s.settings, v.name)[i] = s.settings[i]
        BY AppendList DEF IsSub
    <2>. QED
        BY <1>1, <1>3, <2>1, SettingForkIs DEF Follows, Descends
<1>. QED
    BY <1>2, <1>3 DEF MayFork

-----------------------------------------------------------------------------
(* Lists of sub-states that are all apart.                                 *)

SubList(l) == IsList(l) /\ \A x \in ToSet(l) : IsSub(x)

LEMMA ApartSingleton ==
    ASSUME NEW x
    PROVE  ApartList(<<x>>) /\ ToSet(<<x>>) = {x}
<1>1. Len(<<x>>) = 1 /\ ToSet(<<x>>) = {x}
    BY SingletonList
<1>. QED
    BY <1>1 DEF ApartList

LEMMA ApartJoin ==
    ASSUME NEW s, NEW t, IsList(s), IsList(t), ApartList(s), ApartList(t),
           \A x \in ToSet(s), y \in ToSet(t) : Apart(x, y) /\ Apart(y, x)
    PROVE  ApartList(s \o t)
<1> DEFINE l == s \o t
           n == Len(s)
<1>1. IsList(s) /\ IsList(t) /\ n \in Nat /\ Len(t) \in Nat
    BY ListIs
<1>2. /\ Len(l) = n + Len(t)
      /\ \A i \in 1..n : l[i] = s[i]
      /\ \A i \in 1..Len(t) : l[n + i] = t[i]
    BY <1>1, ConcatList
<1>3. /\ \A i \in 1..n : s[i] \in ToSet(s)
      /\ \A i \in 1..Len(t) : t[i] \in ToSet(t)
    BY <1>1, ListIs
<1>4. \A x \in ToSet(s), y \in ToSet(t) : Apart(x, y) /\ Apart(y, x)
    OBVIOUS
<1> SUFFICES ASSUME NEW i \in 1..Len(l), NEW j \in 1..Len(l), i # j
             PROVE  Apart(l[i], l[j])
    BY DEF ApartList
<1> HIDE DEF l, n
<1>5. \A k \in 1..Len(l) : k \in 1..n \/ (k - n \in 1..Len(t) /\ k = n + (k - n))
    BY <1>1, <1>2
<1>6. CASE i \in 1..n /\ j \in 1..n
    <2>1. Apart(s[i], s[j])
        BY <1>6 DEF ApartList, n
    <2>. QED
        BY <1>2, <1>6, <2>1
<1>7. CASE i \in 1..n /\ j \notin 1..n
    <2>1. j - n \in 1..Len(t) /\ l[j] = t[j - n]
        BY <1>2, <1>5, <1>7
    <2>. QED
        BY <1>2, <1>3, <1>4, <1>7, <2>1
<1>8. CASE i \notin 1..n /\ j \in 1..n
    <2>1. i - n \in 1..Len(t) /\ l[i] = t[i - n]
        BY <1>2, <1>5, <1>8
    <2>. QED
        BY <1>2, <1>3, <1>4, <1>8, <2>1
<1>9. CASE i \notin 1..n /\ j \notin 1..n
    <2>1. i - n \in 1..Len(t) /\ l[i] = t[i - n]
        BY <1>2, <1>5, <1>9
    <2>2. j - n \in 1..Len(t) /\ l[j] = t[j - n]
        BY <1>2, <1>5, <1>9
    <2>3. i - n # j - n
        BY <1>1, <1>2
    <2>. QED
        BY <2>1, <2>2, <2>3 DEF ApartList
<1>. QED
    BY <1>6, <1>7, <1>8, <1>9

LEMMA ApartConcat ==
    ASSUME NEW s, NEW t, SubList(s), SubList(t), ApartList(s), ApartList(t),
           \A x \in ToSet(s), y \in ToSet(t) : Apart(x, y)
    PROVE  ApartList(s \o t)
<1>1. \A x \in ToSet(s), y \in ToSet(t) : Apart(x, y) /\ Apart(y, x)
    BY ApartIsSymmetric DEF SubList, IsSub
<1>. QED
    BY <1>1, ApartJoin DEF SubList

LEMMA ApartFlatten ==
    ASSUME NEW ss, AllLists(ss), \A i \in 1..Len(ss) : ApartList(ss[i]),
           \A i, j \in 1..Len(ss) : i # j =>
               \A x \in ToSet(ss[i]), y \in ToSet(ss[j]) : Apart(x, y)
    PROVE  ApartList(FlattenSeq(ss))
<1> DEFINE l == FlattenSeq(ss)
<1>1. PICK row, col : IsJoined(l, ss, Len(ss), row, col)
    BY FlattenIs
<1> HIDE DEF l
<1>2. ASSUME NEW a \in 1..Len(l), NEW b \in 1..Len(l), a # b
      PROVE  Apart(l[a], l[b])
    <2>1. /\ row[a] \in 1..Len(ss) /\ col[a] \in 1..Len(ss[row[a]]) /\ l[a] = ss[row[a]][col[a]]
          /\ row[b] \in 1..Len(ss) /\ col[b] \in 1..Len(ss[row[b]]) /\ l[b] = ss[row[b]][col[b]]
        BY <1>1 DEF IsJoined
    <2>2. row[a] # row[b] \/ col[a] # col[b]
        BY <1>1, <1>2 DEF IsJoined
    <2>3. CASE row[a] = row[b]
        <3>1. ApartList(ss[row[a]]) /\ col[a] # col[b]
            BY <2>1, <2>2, <2>3
        <3>. QED
            BY <2>1, <2>3, <3>1 DEF ApartList
    <2>4. CASE row[a] # row[b]
        <3>1. IsList(ss[row[a]]) /\ IsList(ss[row[b]])
            BY <2>1 DEF AllLists
        <3>2. l[a] \in ToSet(ss[row[a]]) /\ l[b] \in ToSet(ss[row[b]])
            BY <2>1, <3>1, ListIs
        <3>. QED
            BY <2>1, <2>4, <3>2
    <2>. QED
        BY <2>3, <2>4
<1>. QED
    BY <1>2 DEF ApartList, l

-----------------------------------------------------------------------------
(* make_forks and one row of make_deep_forks.                              *)

\* What a statement leaves of a sub-state, in the order step hands it on.
All(r) == r.new \o <<r.self>>

Built(r) == ToSet(r.new) \cup {r.self}

Tells(kind, s, values, line) ==
    \A i, j \in 1..Len(values) : i # j =>
        Apart(Fork(kind, s, values[i], line), Fork(kind, s, values[j], line))

LEMMA AllIs ==
    ASSUME NEW r, IsList(r.new)
    PROVE  IsList(All(r)) /\ ToSet(All(r)) = Built(r) /\ Len(All(r)) = Len(r.new) + 1
  BY ConcatList, SingletonList DEF All, Built

\* r has a fork for each value, the first one in place.
IsForked(r, kind, s, values, line) ==
    /\ r.more = TRUE
    /\ IsList(r.new) /\ Len(r.new) = Len(values) - 1
    /\ r.self = Fork(kind, s, values[1], line)
    /\ \A i \in 1..(Len(values) - 1) : r.new[i] = Fork(kind, s, values[i + 1], line)
    /\ \A x : x \in Built(r) <=> \E v \in ToSet(values) : x = Fork(kind, s, v, line)

LEMMA MakeForksIs ==
    ASSUME NEW kind, NEW s, NEW values, NEW line, IsList(values), values # <<>>
    PROVE  IsForked(MakeForks(kind, s, values, line), kind, s, values, line)
<1> DEFINE r == MakeForks(kind, s, values, line)
           n == Len(values) - 1
           F(v) == Fork(kind, s, v, line)
<1>1. Len(values) \in Nat /\ n \in Nat /\ n + 1 = Len(values) /\ 1 \in 1..Len(values)
    BY ListIs
<1> HIDE DEF F
<1>2. r = [more |-> TRUE, self |-> F(values[1]), new |-> [i \in 1..n |-> F(values[i + 1])]]
    BY DEF MakeForks, F
<1> HIDE DEF r, n
<1>3. r.more = TRUE /\ r.self = F(values[1]) /\ r.new = [i \in 1..n |-> F(values[i + 1])]
    BY <1>2
<1>4. \A i \in 1..n : r.new[i] = F(values[i + 1])
    BY <1>3
<1>5. IsList(r.new) /\ Len(r.new) = n
    BY <1>1, <1>3, ListOfFunction
<1>6. ASSUME NEW x \in Built(r)
      PROVE  \E v \in ToSet(values) : x = F(v)
    <2>1. CASE x = r.self
        BY <1>1, <1>3, <2>1, ListIs
    <2>2. CASE x \in ToSet(r.new)
        <3>1. PICK i \in 1..n : r.new[i] = x
            BY <1>5, <2>2, ListIs
        <3>2. i + 1 \in 1..Len(values)
            BY <1>1
        <3>3. values[i + 1] \in ToSet(values)
            BY <3>2, ListIs
        <3>. QED
            BY <1>4, <3>1, <3>3
    <2>. QED
        BY <2>1, <2>2 DEF Built
<1>7. ASSUME NEW v \in ToSet(values)
      PROVE  F(v) \in Built(r)
    <2>1. PICK i \in 1..Len(values) : values[i] = v
        BY ListIs
    <2>2. CASE i = 1
        BY <1>3, <2>1, <2>2 DEF Built
    <2>3. CASE i # 1
        <3>1. i - 1 \in 1..n /\ (i - 1) + 1 = i
            BY <1>1, <2>3
        <3>2. r.new[i - 1] = F(v)
            BY <1>4, <2>1, <3>1
        <3>. QED
            BY <1>5, <3>1, <3>2, ListIs DEF Built
    <2>. QED
        BY <2>2, <2>3
<1>. QED
    BY <1>3, <1>4, <1>5, <1>6, <1>7 DEF r, n, F, IsForked

LEMMA MakeForksApart ==
    ASSUME NEW kind, NEW s, NEW values, NEW line, IsList(values), values # <<>>,
           \A v \in ToSet(values) : IsSub(Fork(kind, s, v, line)),
           Tells(kind, s, values, line)
    PROVE  LET r == MakeForks(kind, s, values, line)
           IN  /\ SubList(r.new) /\ IsSub(r.self)
               /\ ApartList(r.new) /\ ApartList(All(r))
<1> DEFINE r == MakeForks(kind, s, values, line)
           n == Len(values) - 1
<1>0. IsForked(r, kind, s, values, line)
    BY MakeForksIs
<1>1. /\ IsList(r.new) /\ Len(r.new) = n
      /\ r.self = Fork(kind, s, values[1], line)
      /\ \A i \in 1..n : r.new[i] = Fork(kind, s, values[i + 1], line)
      /\ \A x : x \in Built(r) <=> \E v \in ToSet(values) : x = Fork(kind, s, v, line)
    BY <1>0 DEF IsForked
<1>2. Len(values) \in Nat /\ n \in Nat /\ 1 \in 1..Len(values)
      /\ \A i \in 1..n : i + 1 \in 1..Len(values) /\ i + 1 # 1
    BY ListIs
<1> HIDE DEF r, n
<1>3. SubList(r.new) /\ IsSub(r.self)
    <2>1. \A x \in Built(r) : IsSub(x)
        BY <1>1
    <2>2. r.self \in Built(r) /\ \A x \in ToSet(r.new) : x \in Built(r)
        BY DEF Built
    <2>. QED
        BY <1>1, <2>1, <2>2 DEF SubList
<1>4. ASSUME NEW i \in 1..n, NEW j \in 1..n, i # j
      PROVE  Apart(r.new[i], r.new[j])
    <2>1. i + 1 # j + 1 /\ i + 1 \in 1..Len(values) /\ j + 1 \in 1..Len(values)
        BY <1>2, <1>4
    <2>. QED
        BY <1>1, <2>1 DEF Tells
<1>5. ApartList(r.new)
    BY <1>1, <1>4 DEF ApartList
<1>6. ASSUME NEW i \in 1..n
      PROVE  Apart(r.new[i], r.self)
    BY <1>1, <1>2 DEF Tells
<1>7. \A x \in ToSet(r.new), y \in ToSet(<<r.self>>) : Apart(x, y)
    BY <1>1, <1>6, ListIs, SingletonList
<1>8. SubList(<<r.self>>) /\ ApartList(<<r.self>>)
    BY <1>3, SingletonList DEF SubList, ApartList
<1>9. ApartList(All(r))
    BY <1>3, <1>5, <1>7, <1>8, ApartConcat DEF All
<1>. QED
    BY <1>3, <1>5, <1>9 DEF r

LEMMA ApartAll ==
    ASSUME NEW r, SubList(r.new), IsSub(r.self), ApartList(All(r))
    PROVE  /\ ApartList(r.new)
           /\ \A x \in ToSet(r.new) : Apart(x, r.self) /\ Apart(r.self, x)
<1> DEFINE n == Len(r.new)
           l == All(r)
<1>1. IsList(r.new) /\ n \in Nat /\ IsList(<<r.self>>) /\ Len(<<r.self>>) = 1 /\ <<r.self>>[1] = r.self
    BY ListIs, SingletonList DEF SubList
<1>2. /\ Len(l) = n + 1
      /\ \A i \in 1..n : l[i] = r.new[i]
      /\ \A i \in 1..Len(<<r.self>>) : l[n + i] = <<r.self>>[i]
    BY <1>1, ConcatList DEF All
<1>3. l[n + 1] = r.self
    BY <1>1, <1>2
<1> HIDE DEF l, n
<1>4. \A i \in 1..n : i \in 1..Len(l) /\ n + 1 \in 1..Len(l) /\ i # n + 1
    BY <1>1, <1>2
<1>5. \A i, j \in 1..n : i # j => Apart(r.new[i], r.new[j])
    BY <1>2, <1>4 DEF ApartList, l
<1>6. \A i \in 1..n : Apart(r.new[i], r.self)
    BY <1>2, <1>3, <1>4 DEF ApartList, l
<1>7. \A x \in ToSet(r.new) : Apart(x, r.self)
    BY <1>1, <1>6, ListIs DEF n
<1>8. \A x \in ToSet(r.new) : Apart(r.self, x)
    BY <1>7, ApartIsSymmetric DEF SubList, IsSub
<1>. QED
    BY <1>5, <1>7, <1>8 DEF ApartList, n

\* t is what a row makes of r: every fork there is, with every value.
IsRow(t, kind, r, row, line) ==
    /\ t.more = TRUE
    /\ IsList(t.new)
    /\ \A y : y \in Built(t) <=> \E x \in Built(r) : \E v \in ToSet(row) : y = Fork(kind, x, v, line)

\* The parts a row is made of.
OtherForks(kind, r, row, line) == [i \in 1..Len(r.new) |-> MakeForks(kind, r.new[i], row, line)]

Selves(others) == [i \in 1..Len(others) |-> others[i].self]

News(others) == [i \in 1..Len(others) |-> others[i].new]

AreParts(t, others, own, kind, r, row, line) ==
    /\ Len(others) = Len(r.new)
    /\ \A i \in 1..Len(r.new) : others[i] = MakeForks(kind, r.new[i], row, line)
    /\ IsList(Selves(others)) /\ Len(Selves(others)) = Len(r.new)
    /\ \A i \in 1..Len(r.new) : Selves(others)[i] = others[i].self
    /\ AllLists(News(others)) /\ Len(News(others)) = Len(r.new)
    /\ \A i \in 1..Len(r.new) : News(others)[i] = others[i].new
    /\ t.more = TRUE /\ t.self = own.self
    /\ t.new = (Selves(others) \o FlattenSeq(News(others))) \o own.new

LEMMA ForkRowParts ==
    ASSUME NEW kind, NEW r, NEW row, NEW line, IsList(r.new), IsList(row), row # <<>>
    PROVE  AreParts(ForkRow(kind, r, row, line), OtherForks(kind, r, row, line),
                    MakeForks(kind, r.self, row, line), kind, r, row, line)
<1> DEFINE others == OtherForks(kind, r, row, line)
           own == MakeForks(kind, r.self, row, line)
           t == ForkRow(kind, r, row, line)
           n == Len(r.new)
<1>1. n \in Nat
    BY ListIs
<1>2. others = [i \in 1..n |-> MakeForks(kind, r.new[i], row, line)]
    BY DEF OtherForks
<1>3. t = [more |-> TRUE, self |-> own.self,
           new |-> (Selves(others) \o FlattenSeq(News(others))) \o own.new]
    BY DEF ForkRow, OtherForks, Selves, News
<1> HIDE DEF others, own, t, n
<1> DEFINE all == (Selves(others) \o FlattenSeq(News(others))) \o own.new
<1> HIDE DEF all
<1>4. t.more = TRUE /\ t.self = own.self /\ t.new = all
    BY <1>3 DEF all
<1>5. \A i \in 1..n : others[i] = MakeForks(kind, r.new[i], row, line)
    BY <1>2
<1>6. others = [i \in 1..n |-> others[i]]
    BY <1>2
<1>7. Len(others) = n
    BY <1>1, <1>6, ListOfFunction
<1>8. /\ Selves(others) = [i \in 1..n |-> Selves(others)[i]]
      /\ \A i \in 1..n : Selves(others)[i] = others[i].self
    BY <1>7 DEF Selves
<1>9. IsList(Selves(others)) /\ Len(Selves(others)) = n
    BY <1>1, <1>8, ListOfFunction
<1>10. /\ News(others) = [i \in 1..n |-> News(others)[i]]
       /\ \A i \in 1..n : News(others)[i] = others[i].new
    BY <1>7 DEF News
<1>11. IsList(News(others)) /\ Len(News(others)) = n
    BY <1>1, <1>10, ListOfFunction
<1>12. \A i \in 1..n : IsList(News(others)[i])
    <2> SUFFICES ASSUME NEW i \in 1..n
                 PROVE  IsList(News(others)[i])
        OBVIOUS
    <2>1. IsForked(MakeForks(kind, r.new[i], row, line), kind, r.new[i], row, line)
        BY MakeForksIs
    <2>. QED
        BY <1>5, <1>10, <2>1 DEF IsForked
<1>. QED
    BY <1>4, <1>5, <1>7, <1>8, <1>9, <1>10, <1>11, <1>12
       DEF others, own, t, n, all, AllLists, AreParts

LEMMA ForkRowIs ==
    ASSUME NEW kind, NEW r, NEW row, NEW line, IsList(r.new), IsList(row), row # <<>>
    PROVE  IsRow(ForkRow(kind, r, row, line), kind, r, row, line)
<1> DEFINE others == OtherForks(kind, r, row, line)
           own == MakeForks(kind, r.self, row, line)
           t == ForkRow(kind, r, row, line)
           n == Len(r.new)
           A == Selves(others)
           B == News(others)
           C == own.new
<1>1. /\ Len(others) = n
      /\ \A i \in 1..n : others[i] = MakeForks(kind, r.new[i], row, line)
      /\ IsList(A) /\ Len(A) = n
      /\ \A i \in 1..n : A[i] = others[i].self
      /\ AllLists(B) /\ Len(B) = n
      /\ \A i \in 1..n : B[i] = others[i].new
      /\ t.more = TRUE /\ t.self = own.self
      /\ t.new = (A \o FlattenSeq(B)) \o C
    <2>1. AreParts(t, others, own, kind, r, row, line)
        BY ForkRowParts
    <2> HIDE DEF others, own, t
    <2>. QED
        BY <2>1 DEF AreParts
<1>2. IsForked(own, kind, r.self, row, line)
    BY MakeForksIs
<1> HIDE DEF others, own, t, n, A, B
<1>3. IsList(C)
    BY <1>2 DEF IsForked
<1> HIDE DEF C
<1>4. IsList(FlattenSeq(B)) /\ \A x : x \in ToSet(FlattenSeq(B)) <=> \E i \in 1..Len(B) : x \in ToSet(B[i])
    BY <1>1, FlattenKeeps
<1>5. /\ IsList(A \o FlattenSeq(B)) /\ IsList((A \o FlattenSeq(B)) \o C)
      /\ ToSet(A \o FlattenSeq(B)) = ToSet(A) \cup ToSet(FlattenSeq(B))
      /\ ToSet((A \o FlattenSeq(B)) \o C) = ToSet(A \o FlattenSeq(B)) \cup ToSet(C)
    BY <1>1, <1>3, <1>4, ConcatList
<1>6. IsList(t.new) /\ ToSet(t.new) = ToSet(A) \cup ToSet(FlattenSeq(B)) \cup ToSet(C)
    BY <1>1, <1>5
<1>7. \A i \in 1..n : IsForked(others[i], kind, r.new[i], row, line)
    BY <1>1, MakeForksIs
<1>8. \A i \in 1..n : r.new[i] \in Built(r)
    BY ListIs DEF Built, n
<1>9. ASSUME NEW y \in Built(t)
      PROVE  \E x \in Built(r) : \E v \in ToSet(row) : y = Fork(kind, x, v, line)
    <2>1. CASE y = t.self \/ y \in ToSet(C)
        <3>1. y \in Built(own)
            BY <1>1, <2>1 DEF Built, C
        <3>2. \E v \in ToSet(row) : y = Fork(kind, r.self, v, line)
            BY <1>2, <3>1 DEF IsForked
        <3>. QED
            BY <3>2 DEF Built
    <2>2. ASSUME NEW i \in 1..n, y \in Built(others[i])
          PROVE  \E x \in Built(r) : \E v \in ToSet(row) : y = Fork(kind, x, v, line)
        <3>1. \E v \in ToSet(row) : y = Fork(kind, r.new[i], v, line)
            BY <1>7, <2>2 DEF IsForked
        <3>. QED
            BY <1>8, <3>1
    <2>3. CASE y \in ToSet(A)
        <3>1. PICK i \in 1..n : y = others[i].self
            BY <1>1, <2>3, ListIs
        <3>. QED
            BY <2>2, <3>1 DEF Built
    <2>4. CASE y \in ToSet(FlattenSeq(B))
        <3>1. PICK i \in 1..n : y \in ToSet(others[i].new)
            BY <1>1, <1>4, <2>4
        <3>. QED
            BY <2>2, <3>1 DEF Built
    <2>. QED
        BY <1>6, <2>1, <2>3, <2>4 DEF Built
<1>10. ASSUME NEW x \in Built(r), NEW v \in ToSet(row)
       PROVE  Fork(kind, x, v, line) \in Built(t)
    <2>1. CASE x = r.self
        <3>1. Fork(kind, x, v, line) \in Built(own)
            BY <1>2, <2>1 DEF IsForked
        <3>. QED
            BY <1>1, <1>6, <3>1 DEF Built, C
    <2>2. CASE x \in ToSet(r.new)
        <3>1. PICK i \in 1..n : r.new[i] = x
            BY <2>2, ListIs DEF n
        <3>2. Fork(kind, x, v, line) \in Built(others[i])
            BY <1>7, <3>1 DEF IsForked
        <3>3. others[i].self \in ToSet(A)
            <4>1. A[i] \in ToSet(A)
                BY <1>1, ListIs
            <4>. QED
                BY <1>1, <4>1
        <3>4. \A y \in ToSet(others[i].new) : y \in ToSet(FlattenSeq(B))
            BY <1>1, <1>4
        <3>. QED
            BY <1>6, <3>2, <3>3, <3>4 DEF Built
    <2>. QED
        BY <2>1, <2>2 DEF Built
<1>. QED
    BY <1>1, <1>6, <1>9, <1>10 DEF IsRow, t

\* No value of the row is offered twice.
NamesDiffer(row) == \A a, b \in 1..Len(row) : row[a].name = row[b].name => a = b

LEMMA SettingsTell ==
    ASSUME NEW s, IsSub(s), NEW row, NamesDiffer(row), NEW line
    PROVE  Tells("setting", s, row, line)
<1> SUFFICES ASSUME NEW i \in 1..Len(row), NEW j \in 1..Len(row), i # j
             PROVE  Apart(Fork("setting", s, row[i], line), Fork("setting", s, row[j], line))
    BY DEF Tells
<1> DEFINE t == Fork("setting", s, row[i], line)
           u == Fork("setting", s, row[j], line)
           n == Len(s.settings)
<1>1. t.settings = Append(s.settings, row[i].name) /\ u.settings = Append(s.settings, row[j].name)
    BY SettingForkIs
<1>2. n \in Nat
    BY ListIs DEF IsSub
<1>3. row[i].name # row[j].name
    BY DEF NamesDiffer
<1>4. /\ Len(t.settings) = n + 1 /\ t.settings[n + 1] = row[i].name
      /\ Len(u.settings) = n + 1 /\ u.settings[n + 1] = row[j].name
    BY <1>1, AppendList DEF IsSub
<1> HIDE DEF t, u, n
<1>5. n + 1 \in 1..Len(t.settings) /\ n + 1 <= Len(u.settings)
    BY <1>2, <1>4
<1>6. Apart(t, u)
    BY <1>3, <1>4, <1>5 DEF Apart
<1>. QED
    BY <1>6 DEF t, u

LEMMA SettingForksApart ==
    ASSUME NEW s, NEW t, IsSub(s), IsSub(t), Apart(s, t), NEW v, NEW w, NEW line
    PROVE  Apart(Fork("setting", s, v, line), Fork("setting", t, w, line))
<1> DEFINE s2 == Fork("setting", s, v, line)
           t2 == Fork("setting", t, w, line)
<1>1. Follows(s, s2) /\ Follows(t, t2)
    BY ForkFollows DEF MayFork
<1> HIDE DEF s2, t2
<1>2. IsList(s.settings) /\ IsList(t.settings) /\ IsList(s2.settings) /\ IsList(t2.settings)
    BY <1>1 DEF Follows, IsSub
<1>3. Apart(s2, t2)
    BY <1>1, <1>2, ApartBoth DEF Follows
<1>. QED
    BY <1>3 DEF s2, t2

\* What a row makes is apart, whether it comes of one sub-state or of two.
LEMMA ForkRowApart ==
    ASSUME NEW r, NEW row, NEW line, SubList(r.new), IsSub(r.self), ApartList(All(r)),
           IsList(row), row # <<>>, NamesDiffer(row)
    PROVE  LET t == ForkRow("setting", r, row, line)
           IN  SubList(t.new) /\ IsSub(t.self) /\ ApartList(All(t))
<1> DEFINE others == OtherForks("setting", r, row, line)
           own == MakeForks("setting", r.self, row, line)
           t == ForkRow("setting", r, row, line)
           n == Len(r.new)
           A == Selves(others)
           B == News(others)
           C == own.new
           F == FlattenSeq(B)
           K(x) == MakeForks("setting", x, row, line)
<1>1. IsList(r.new) /\ n \in Nat
    BY ListIs DEF SubList
<1>2. AreParts(t, others, own, "setting", r, row, line)
    BY <1>1, ForkRowParts
<1>3. ASSUME NEW x, IsSub(x)
      PROVE  /\ IsForked(K(x), "setting", x, row, line)
             /\ SubList(K(x).new) /\ IsSub(K(x).self) /\ ApartList(K(x).new) /\ ApartList(All(K(x)))
    <2>1. \A v \in ToSet(row) : IsSub(Fork("setting", x, v, line))
        BY <1>3, SettingForkIs
    <2>2. Tells("setting", x, row, line)
        BY <1>3, SettingsTell
    <2>3. IsForked(K(x), "setting", x, row, line)
        BY MakeForksIs
    <2>. QED
        BY <2>1, <2>2, <2>3, MakeForksApart
<1>4. ASSUME NEW x, NEW y, IsSub(x), IsSub(y), Apart(x, y), NEW x2 \in Built(K(x)), NEW y2 \in Built(K(y))
      PROVE  Apart(x2, y2)
    <2>1. PICK v \in ToSet(row) : x2 = Fork("setting", x, v, line)
        BY <1>3, <1>4 DEF IsForked
    <2>2. PICK w \in ToSet(row) : y2 = Fork("setting", y, w, line)
        BY <1>3, <1>4 DEF IsForked
    <2>. QED
        BY <1>4, <2>1, <2>2, SettingForksApart
<1>5. own = K(r.self)
    OBVIOUS
<1> HIDE DEF others, own, t, K
<1>6. /\ Len(others) = n
      /\ \A i \in 1..n : others[i] = K(r.new[i])
      /\ IsList(A) /\ Len(A) = n
      /\ \A i \in 1..n : A[i] = others[i].self
      /\ AllLists(B) /\ Len(B) = n
      /\ \A i \in 1..n : B[i] = others[i].new
      /\ t.self = own.self
      /\ t.new = (A \o F) \o C
    BY <1>2 DEF AreParts, K
<1> HIDE DEF A, B, n
<1>7. \A i \in 1..n : IsSub(r.new[i]) /\ r.new[i] \in ToSet(r.new)
    BY ListIs DEF SubList, n
<1>8. ApartList(r.new) /\ \A x \in ToSet(r.new) : Apart(x, r.self)
    BY ApartAll
<1>9. \A i, j \in 1..n : i # j => Apart(r.new[i], r.new[j])
    BY <1>8 DEF ApartList, n
<1>10. IsList(F) /\ \A x : x \in ToSet(F) <=> \E i \in 1..Len(B) : x \in ToSet(B[i])
    BY <1>6, FlattenKeeps
<1>11. \A x \in ToSet(A) : \E i \in 1..n : x = others[i].self /\ IsSub(x)
    BY <1>3, <1>6, <1>7, ListIs
<1>12. \A x \in ToSet(F) : \E i \in 1..n : x \in ToSet(others[i].new) /\ IsSub(x)
    <2> SUFFICES ASSUME NEW x \in ToSet(F)
                 PROVE  \E i \in 1..n : x \in ToSet(others[i].new) /\ IsSub(x)
        OBVIOUS
    <2>1. PICK i \in 1..n : x \in ToSet(others[i].new)
        BY <1>6, <1>10
    <2>2. SubList(others[i].new)
        BY <1>3, <1>6, <1>7
    <2>. QED
        BY <2>1, <2>2 DEF SubList
<1>13. SubList(A) /\ SubList(F) /\ SubList(C) /\ IsSub(own.self)
    BY <1>3, <1>5, <1>6, <1>10, <1>11, <1>12 DEF SubList
<1>14. ApartList(A)
    <2> SUFFICES ASSUME NEW i \in 1..n, NEW j \in 1..n, i # j
                 PROVE  Apart(A[i], A[j])
        BY <1>6 DEF ApartList
    <2>1. A[i] \in Built(K(r.new[i])) /\ A[j] \in Built(K(r.new[j]))
        BY <1>6 DEF Built
    <2>. QED
        BY <1>4, <1>7, <1>9, <2>1
<1>15. ApartList(F)
    <2>1. \A i \in 1..Len(B) : ApartList(B[i])
        BY <1>3, <1>6, <1>7
    <2>2. ASSUME NEW i \in 1..Len(B), NEW j \in 1..Len(B), i # j,
                 NEW x \in ToSet(B[i]), NEW y \in ToSet(B[j])
          PROVE  Apart(x, y)
        <3>1. x \in Built(K(r.new[i])) /\ y \in Built(K(r.new[j]))
            BY <1>6 DEF Built
        <3>. QED
            BY <1>4, <1>6, <1>7, <1>9, <2>2, <3>1
    <2>. QED
        BY <1>6, <2>1, <2>2, ApartFlatten
<1>16. ASSUME NEW x \in ToSet(A), NEW y \in ToSet(F)
       PROVE  Apart(x, y)
    <2>1. PICK i \in 1..n : x = others[i].self
        BY <1>11
    <2>2. PICK j \in 1..n : y \in ToSet(others[j].new)
        BY <1>12
    <2>3. CASE i = j
        <3>1. SubList(K(r.new[i]).new) /\ IsSub(K(r.new[i]).self) /\ ApartList(All(K(r.new[i])))
            BY <1>3, <1>7
        <3>2. \A z \in ToSet(K(r.new[i]).new) : Apart(K(r.new[i]).self, z)
            BY <3>1, ApartAll
        <3>. QED
            BY <1>6, <2>1, <2>2, <2>3, <3>2
    <2>4. CASE i # j
        <3>1. x \in Built(K(r.new[i])) /\ y \in Built(K(r.new[j]))
            BY <1>6, <2>1, <2>2 DEF Built
        <3>. QED
            BY <1>4, <1>7, <1>9, <2>4, <3>1
    <2>. QED
        BY <2>3, <2>4
<1> DEFINE AF == A \o F
<1>17. ApartList(AF)
    BY <1>13, <1>14, <1>15, <1>16, ApartConcat
<1>18. IsList(AF) /\ ToSet(AF) = ToSet(A) \cup ToSet(F)
    BY <1>13, ConcatList DEF SubList
<1>19. SubList(AF)
    BY <1>13, <1>18 DEF SubList
<1>20. ASSUME NEW x \in ToSet(AF)
       PROVE  \E i \in 1..n : x \in Built(K(r.new[i]))
    BY <1>6, <1>11, <1>12, <1>18 DEF Built
<1> HIDE DEF AF
<1>21. ASSUME NEW x \in ToSet(AF), NEW y \in Built(own)
       PROVE  Apart(x, y)
    <2>1. PICK i \in 1..n : x \in Built(K(r.new[i]))
        BY <1>20
    <2>. QED
        BY <1>4, <1>5, <1>7, <1>8, <2>1
<1>22. ApartList(C) /\ \A x \in ToSet(C) : Apart(x, own.self)
    <2>1. SubList(own.new) /\ IsSub(own.self) /\ ApartList(All(own))
        BY <1>3, <1>5
    <2>. QED
        BY <2>1, ApartAll
<1>23. \A x \in ToSet(AF), y \in ToSet(C) : Apart(x, y)
    BY <1>21 DEF Built
<1>24. ApartList(AF \o C)
    BY <1>13, <1>17, <1>19, <1>22, <1>23, ApartConcat
<1>25. SubList(AF \o C) /\ ToSet(AF \o C) = ToSet(AF) \cup ToSet(C)
    BY <1>13, <1>19, ConcatList DEF SubList
<1>26. \A x \in ToSet(AF \o C) : Apart(x, own.self)
    BY <1>21, <1>22, <1>25 DEF Built
<1>27. SubList(<<own.self>>) /\ ApartList(<<own.self>>) /\ ToSet(<<own.self>>) = {own.self}
    BY <1>13, SingletonList DEF SubList, ApartList
<1>28. t.new = AF \o C
    BY <1>6 DEF AF
<1>29. ApartList(All(t))
    BY <1>6, <1>24, <1>25, <1>26, <1>27, <1>28, ApartConcat DEF All
<1>. QED
    BY <1>6, <1>13, <1>25, <1>28, <1>29 DEF t

-----------------------------------------------------------------------------
(* The ways a statement can go, and the forks make_deep_forks has made     *)
(* after as many rows.                                                     *)

LEMMA WayIs ==
    ASSUME NEW s, NEW b
    PROVE  Way(s, b).state = s /\ Way(s, b).alive = b
  BY DEF Way

LEMMA BranchIs ==
    ASSUME NEW kind, NEW y, NEW values, NEW line, NEW z
    PROVE  z \in Branch(kind, y, values, line) <=>
              \/ (~y.alive \/ values = <<>>) /\ z = Way(y.state, FALSE)
              \/ /\ y.alive /\ values # <<>>
                 /\ \E v \in ToSet(values) : z = Way(Fork(kind, y.state, v, line), TRUE)
  BY DEF Branch

\* The ways out of c after n choices.
AreWays(W, c, n) ==
    /\ W # {}
    /\ \A y \in W : /\ Follows(c, y.state) /\ y.alive \in BOOLEAN
                    /\ y.alive => Len(y.state.settings) = Len(c.settings) + n

\* Nothing said on a way of W is lost on those of W2.
SaidOn(W, W2) == \A y \in W : \E z \in W2 : y.state.said \subseteq z.state.said

\* W2 is W, one row of settings further.
IsNext(W2, W, row, line) == \A z : z \in W2 <=> \E y \in W : z \in Branch("setting", y, row, line)

LEMMA BranchWays ==
    ASSUME NEW c, IsSub(c), NEW n \in Nat, NEW W, AreWays(W, c, n), NEW row, NEW line, IsList(row),
           NEW W2, IsNext(W2, W, row, line)
    PROVE  AreWays(W2, c, n + 1) /\ SaidOn(W, W2)
<1>1. \A y \in W : Follows(c, y.state) /\ IsSub(y.state)
    BY DEF AreWays, Follows
<1>2. Len(c.settings) \in Nat
    BY ListIs DEF IsSub
<1>3. ASSUME NEW z \in W2
      PROVE  /\ Follows(c, z.state) /\ z.alive \in BOOLEAN
             /\ z.alive => Len(z.state.settings) = Len(c.settings) + (n + 1)
    <2>1. PICK y \in W : z \in Branch("setting", y, row, line)
        BY DEF IsNext
    <2>2. CASE (~y.alive \/ row = <<>>) /\ z = Way(y.state, FALSE)
        BY <1>1, <2>2, WayIs
    <2>3. CASE y.alive /\ \E v \in ToSet(row) : z = Way(Fork("setting", y.state, v, line), TRUE)
        <3>1. PICK v \in ToSet(row) : z = Way(Fork("setting", y.state, v, line), TRUE)
            BY <2>3
        <3> DEFINE t == Fork("setting", y.state, v, line)
        <3>2. z.state = t /\ z.alive = TRUE
            BY <3>1, WayIs
        <3>3. Follows(y.state, t)
            BY <1>1, ForkFollows DEF MayFork
        <3>4. t.settings = Append(y.state.settings, v.name)
            BY <1>1, SettingForkIs
        <3> HIDE DEF t
        <3>5. Len(t.settings) = Len(y.state.settings) + 1
            BY <1>1, <3>4, AppendList DEF IsSub
        <3>6. Len(y.state.settings) = Len(c.settings) + n
            BY <2>3 DEF AreWays
        <3>7. Follows(c, t)
            BY <1>1, <3>3, FollowsOn
        <3>8. Len(t.settings) = Len(c.settings) + (n + 1)
            <4> DEFINE a == Len(c.settings)
                       b == Len(y.state.settings)
                       d == Len(t.settings)
            <4>1. a \in Nat /\ b = a + n /\ d = b + 1
                BY <1>2, <3>5, <3>6
            <4> HIDE DEF a, b, d
            <4>2. d = a + (n + 1)
                BY <4>1
            <4>. QED
                BY <4>2 DEF a, d
        <3>. QED
            BY <3>2, <3>7, <3>8
    <2>4. \/ (~y.alive \/ row = <<>>) /\ z = Way(y.state, FALSE)
          \/ y.alive /\ \E v \in ToSet(row) : z = Way(Fork("setting", y.state, v, line), TRUE)
        <3>1. CASE ~y.alive \/ row = <<>>
            BY <2>1, <3>1 DEF Branch
        <3>2. CASE y.alive /\ row # <<>>
            <4>1. z \in {Way(Fork("setting", y.state, v, line), TRUE) : v \in ToSet(row)}
                BY <2>1, <3>2 DEF Branch
            <4>. QED
                BY <3>2, <4>1
        <3>. QED
            BY <3>1, <3>2
    <2>. QED
        BY <2>2, <2>3, <2>4
<1>4. ASSUME NEW y \in W
      PROVE  \E z \in W2 : y.state.said \subseteq z.state.said
    <2>1. \A z \in Branch("setting", y, row, line) : z \in W2
        BY DEF IsNext
    <2>2. CASE ~y.alive \/ row = <<>>
        <3>1. Way(y.state, FALSE) \in Branch("setting", y, row, line)
            BY <2>2, BranchIs
        <3>. QED
            BY <2>1, <3>1, WayIs
    <2>3. CASE y.alive /\ row # <<>>
        <3>0. row[1] \in ToSet(row)
            BY <2>3, FirstIsThere
        <3>1. PICK v : v \in ToSet(row)
            BY <3>0
        <3> DEFINE t == Fork("setting", y.state, v, line)
        <3>2. Way(t, TRUE) \in Branch("setting", y, row, line)
            BY <2>3, <3>1, BranchIs
        <3>3. Follows(y.state, t)
            BY <1>1, ForkFollows DEF MayFork
        <3> HIDE DEF t
        <3>. QED
            BY <2>1, <3>2, <3>3, WayIs DEF Follows
    <2>. QED
        BY <2>2, <2>3
<1>5. W2 # {}
    <2>1. PICK y : y \in W
        BY DEF AreWays
    <2>. QED
        BY <1>4, <2>1
<1> SUFFICES \A z \in W2 : /\ Follows(c, z.state) /\ z.alive \in BOOLEAN
                           /\ z.alive => Len(z.state.settings) = Len(c.settings) + (n + 1)
    BY <1>4, <1>5 DEF AreWays, SaidOn
<1>. QED
    BY <1>3

\* What the command line says of the next choice of x.
Fits(x, v) ==
    Len(x.settings) + 1 <= Len(setup.forced.options) =>
        v.name = setup.forced.options[Len(x.settings) + 1]

LEMMA AgreesFork ==
    ASSUME NEW x, IsSub(x), NEW v, NEW line, IsList(setup.forced.options)
    PROVE  Agrees(Fork("setting", x, v, line)) <=> Agrees(x) /\ Fits(x, v)
<1> DEFINE t == Fork("setting", x, v, line)
           n == Len(x.settings)
<1>1. t.build = x.build /\ t.settings = Append(x.settings, v.name)
    BY SettingForkIs
<1>2. n \in Nat /\ Len(setup.forced.options) \in Nat
    BY ListIs DEF IsSub
<1>3. /\ Len(t.settings) = n + 1 /\ t.settings[n + 1] = v.name
      /\ \A i \in 1..n : t.settings[i] = x.settings[i]
    BY <1>1, AppendList DEF IsSub
<1> HIDE DEF t, n
<1>4. \A i \in 1..(n + 1) : i \in 1..n \/ i = n + 1
    BY <1>2
<1>5. \A i \in 1..n : i \in 1..(n + 1)
    BY <1>2
<1>6. n + 1 \in 1..(n + 1)
    BY <1>2
<1>7. AgreesOn(t.settings) <=> AgreesOn(x.settings) /\ Fits(x, v)
    BY <1>3, <1>4, <1>5, <1>6 DEF AgreesOn, Fits, n
<1>. QED
    BY <1>1, <1>7 DEF Agrees, t

-----------------------------------------------------------------------------
(* One statement: what the sub-state c, which has consumed it, leaves (r)  *)
(* against the ways W it could go.                                         *)

Leads(c, W) == W # {} /\ \A y \in W : Follows(c, y.state) /\ y.alive \in BOOLEAN

Matches(r, W, c, differ) ==
    /\ r.more \in BOOLEAN
    /\ SubList(r.new) /\ IsSub(r.self) /\ r.self.pos = c.pos
    /\ r.more => \A t \in Built(r) : Way(t, TRUE) \in W /\ Agrees(t)
    /\ ~r.more => r.new = <<>> /\ r.self.build = NoBuild
    /\ \A d \in AllSaid(r) : \E y \in W : d \in y.state.said
    /\ \A y \in W : y.alive /\ Agrees(y.state) => r.more /\ y.state \in Built(r)
    /\ differ => ApartList(All(r))

LEMMA AllSaidIs ==
    ASSUME NEW r, IsList(r.new)
    PROVE  \A d : d \in AllSaid(r) <=> \E x \in Built(r) : d \in x.said
<1>1. \A x : x \in ToSet(r.new) <=> \E i \in 1..Len(r.new) : r.new[i] = x
    BY ListIs
<1>2. ASSUME NEW d \in AllSaid(r)
      PROVE  \E x \in Built(r) : d \in x.said
    <2>1. CASE d \in r.self.said
        BY <2>1 DEF Built
    <2>2. CASE d \in UNION {r.new[i].said : i \in 1..Len(r.new)}
        <3>1. PICK i \in 1..Len(r.new) : d \in r.new[i].said
            BY <2>2
        <3>2. r.new[i] \in ToSet(r.new)
            BY <1>1
        <3>. QED
            BY <3>1, <3>2 DEF Built
    <2>. QED
        BY <2>1, <2>2 DEF AllSaid
<1>3. ASSUME NEW x \in Built(r), NEW d \in x.said
      PROVE  d \in AllSaid(r)
    <2>1. CASE x = r.self
        BY <2>1 DEF AllSaid
    <2>2. CASE x \in ToSet(r.new)
        <3>1. PICK i \in 1..Len(r.new) : r.new[i] = x
            BY <1>1, <2>2
        <3>. QED
            BY <3>1 DEF AllSaid
    <2>. QED
        BY <2>1, <2>2 DEF Built
<1>. QED
    BY <1>2, <1>3

LEMMA StopIs ==
    ASSUME NEW s, IsSub(s)
    PROVE  /\ Stop(s).more = FALSE /\ Stop(s).new = <<>>
           /\ IsSub(Stop(s).self) /\ Stop(s).self.pos = s.pos /\ Stop(s).self.build = NoBuild
           /\ AllSaid(Stop(s)) = s.said
           /\ SubList(Stop(s).new) /\ ApartList(All(Stop(s)))
<1> DEFINE r == Stop(s)
<1>1. r.more = FALSE /\ r.new = <<>> /\ r.self = EarlyExit(s)
    BY DEF Stop
<1>2. IsSub(r.self) /\ r.self.pos = s.pos /\ r.self.build = NoBuild /\ r.self.said = s.said
    BY <1>1 DEF EarlyExit, IsSub, Fields
<1> HIDE DEF r
<1>3. IsList(r.new) /\ Len(r.new) = 0 /\ ToSet(r.new) = {}
    BY <1>1, EmptyList
<1>4. Built(r) = {r.self}
    BY <1>3 DEF Built
<1>5. AllSaid(r) = s.said
    BY <1>2, <1>3, <1>4, AllSaidIs
<1>6. Len(All(r)) = 1
    <2>1. Len(All(r)) = Len(r.new) + 1
        BY <1>3, AllIs
    <2>. QED
        BY <1>3, <2>1
<1>7. \A i, j \in 1..1 : i = j
    OBVIOUS
<1>8. ApartList(All(r))
    BY <1>6, <1>7 DEF ApartList
<1>. QED
    BY <1>1, <1>2, <1>3, <1>5, <1>8 DEF r, SubList

\* A statement that does not fork.
LEMMA ContinueMatches ==
    ASSUME NEW c, NEW t, Follows(c, t), Agrees(t), NEW differ
    PROVE  Matches(Continue(t), {Way(t, TRUE)}, c, differ) /\ Leads(c, {Way(t, TRUE)})
<1> DEFINE r == Continue(t)
           W == {Way(t, TRUE)}
<1>1. r.more = TRUE /\ r.new = <<>> /\ r.self = t
    BY DEF Continue
<1>2. IsSub(t) /\ t.pos = c.pos
    BY DEF Follows
<1> HIDE DEF r
<1>3. IsList(r.new) /\ Len(r.new) = 0 /\ ToSet(r.new) = {}
    BY <1>1, EmptyList
<1>4. Built(r) = {t}
    BY <1>1, <1>3 DEF Built
<1>5. AllSaid(r) = t.said
    <2>1. \A d : d \in AllSaid(r) <=> d \in t.said
        BY <1>3, <1>4, AllSaidIs
    <2>. QED
        BY <2>1
<1>6. Len(All(r)) = 1
    <2>1. Len(All(r)) = Len(r.new) + 1
        BY <1>3, AllIs
    <2>. QED
        BY <1>3, <2>1
<1>7. \A i, j \in 1..1 : i = j
    OBVIOUS
<1>8. ApartList(All(r))
    BY <1>6, <1>7 DEF ApartList
<1>9. \A y \in W : y = Way(t, TRUE) /\ y.state = t /\ y.alive = TRUE
    BY WayIs
<1>10. Way(t, TRUE) \in W
    OBVIOUS
<1> HIDE DEF W
<1>11. Leads(c, W)
    BY <1>9, <1>10 DEF Leads
<1>12. Matches(r, W, c, differ)
    BY <1>1, <1>2, <1>3, <1>4, <1>5, <1>8, <1>9, <1>10 DEF Matches, SubList
<1>. QED
    BY <1>11, <1>12 DEF r, W

-----------------------------------------------------------------------------
(* A row of settings more.                                                 *)

\* The values of a row the command line leaves, `place` choices counted.
Kept(row, place) ==
    Retain(row, {setting \in ToSet(row) :
                    place <= Len(setup.forced.options) => setting.name = setup.forced.options[place]})

LEMMA KeptIs ==
    ASSUME NEW row, IsList(row), NEW place
    PROVE  /\ IsList(Kept(row, place))
           /\ \A v : v \in ToSet(Kept(row, place)) <=>
                        /\ v \in ToSet(row)
                        /\ place <= Len(setup.forced.options) => v.name = setup.forced.options[place]
           /\ NamesDiffer(row) => NamesDiffer(Kept(row, place))
<1> DEFINE S == {setting \in ToSet(row) :
                    place <= Len(setup.forced.options) => setting.name = setup.forced.options[place]}
           k == Retain(row, S)
<1>1. IsList(k) /\ ToSet(k) = ToSet(row) \cap S
    BY RetainKeeps
<1>2. PICK at : IsPartOf(k, row, S, Len(row), at)
    BY RetainIs
<1>3. \A v : v \in S <=> /\ v \in ToSet(row)
                         /\ place <= Len(setup.forced.options) => v.name = setup.forced.options[place]
    OBVIOUS
<1>4. k = Kept(row, place)
    BY DEF Kept
<1> HIDE DEF S, k
<1>5. ASSUME NamesDiffer(row)
      PROVE  NamesDiffer(k)
    <2> SUFFICES ASSUME NEW a \in 1..Len(k), NEW b \in 1..Len(k), k[a].name = k[b].name
                 PROVE  a = b
        BY DEF NamesDiffer
    <2>1. /\ at[a] \in 1..Len(row) /\ k[a] = row[at[a]]
          /\ at[b] \in 1..Len(row) /\ k[b] = row[at[b]]
        BY <1>2 DEF IsPartOf
    <2>2. at[a] = at[b]
        BY <1>5, <2>1 DEF NamesDiffer
    <2>. QED
        BY <1>2, <2>2 DEF IsPartOf
<1>. QED
    BY <1>1, <1>3, <1>4, <1>5

\* What a way leads to, one row further.
LEMMA BranchAlive ==
    ASSUME NEW c, IsSub(c), NEW W, Leads(c, W), NEW row, NEW line,
           NEW W2, IsNext(W2, W, row, line),
           IsList(setup.forced.options),
           NEW z \in W2, z.alive, Agrees(z.state)
    PROVE  \E y \in W : \E v \in ToSet(row) :
              /\ y.alive /\ Agrees(y.state) /\ Fits(y.state, v) /\ row # <<>>
              /\ z.state = Fork("setting", y.state, v, line)
<1>1. PICK y \in W : z \in Branch("setting", y, row, line)
    BY DEF IsNext
<1>2. IsSub(y.state)
    BY DEF Leads, Follows
<1>3. CASE ~y.alive \/ row = <<>>
    <2>1. z = Way(y.state, FALSE)
        BY <1>1, <1>3 DEF Branch
    <2>. QED
        BY <2>1, WayIs
<1>4. CASE y.alive /\ row # <<>>
    <2>1. z \in {Way(Fork("setting", y.state, v, line), TRUE) : v \in ToSet(row)}
        BY <1>1, <1>4 DEF Branch
    <2>2. PICK v \in ToSet(row) : z = Way(Fork("setting", y.state, v, line), TRUE)
        BY <2>1
    <2> DEFINE t == Fork("setting", y.state, v, line)
    <2>3. z.state = t
        BY <2>2, WayIs
    <2>4. Agrees(t)
        BY <2>3
    <2>5. Agrees(t) <=> Agrees(y.state) /\ Fits(y.state, v)
        BY <1>2, AgreesFork
    <2> HIDE DEF t
    <2>. QED
        BY <1>4, <2>3, <2>4, <2>5 DEF t
<1>. QED
    BY <1>3, <1>4

LEMMA DeepStep ==
    ASSUME NEW c, IsSub(c), NEW n \in Nat, NEW W, AreWays(W, c, n), Leads(c, W),
           NEW differ, NEW r, Matches(r, W, c, differ), NEW row, IsList(row), NEW line,
           IsList(setup.forced.options), differ => NamesDiffer(row),
           NEW W2, IsNext(W2, W, row, line), Leads(c, W2)
    PROVE  Matches(IF r.more THEN ForkRow("setting", r, Kept(row, Len(c.settings) + (n + 1)), line) ELSE r,
                   W2, c, differ)
<1> DEFINE kept == Kept(row, Len(c.settings) + (n + 1))
           t == ForkRow("setting", r, kept, line)
<1>1. SaidOn(W, W2)
    BY BranchWays
<1>2. /\ IsList(kept) /\ (differ => NamesDiffer(kept))
      /\ \A v : v \in ToSet(kept) <=>
                   /\ v \in ToSet(row)
                   /\ Len(c.settings) + (n + 1) <= Len(setup.forced.options) =>
                         v.name = setup.forced.options[Len(c.settings) + (n + 1)]
    BY KeptIs
<1>3. \A y \in W : y.alive => Len(y.state.settings) + 1 = Len(c.settings) + (n + 1)
    <2>1. Len(c.settings) \in Nat
        BY ListIs DEF IsSub
    <2>2. \A y \in W : y.alive => Len(y.state.settings) = Len(c.settings) + n
        BY DEF AreWays
    <2>3. (Len(c.settings) + n) + 1 = Len(c.settings) + (n + 1)
        <3> DEFINE a == Len(c.settings)
        <3>1. a \in Nat
            BY <2>1
        <3> HIDE DEF a
        <3>2. (a + n) + 1 = a + (n + 1)
            BY <3>1
        <3>. QED
            BY <3>2 DEF a
    <2>. QED
        BY <2>2, <2>3
<1>4. \A y \in W : y.alive => \A v : v \in ToSet(kept) <=> v \in ToSet(row) /\ Fits(y.state, v)
    BY <1>2, <1>3 DEF Fits
<1> HIDE DEF kept
<1>5. SubList(r.new) /\ IsSub(r.self) /\ r.self.pos = c.pos /\ r.more \in BOOLEAN /\ IsList(r.new)
    BY DEF Matches, SubList
<1>6. \A z \in W2 : z.alive /\ Agrees(z.state) =>
          \E x \in Built(r) : \E v \in ToSet(kept) : r.more /\ z.state = Fork("setting", x, v, line)
    <2> SUFFICES ASSUME NEW z \in W2, z.alive, Agrees(z.state)
                 PROVE  \E x \in Built(r) : \E v \in ToSet(kept) :
                            r.more /\ z.state = Fork("setting", x, v, line)
        OBVIOUS
    <2>0. \E y \in W : \E v \in ToSet(row) :
              /\ y.alive /\ Agrees(y.state) /\ Fits(y.state, v) /\ row # <<>>
              /\ z.state = Fork("setting", y.state, v, line)
        <3> HIDE DEF t
        <3>. QED
            BY BranchAlive
    <2>1. PICK y \in W, v \in ToSet(row) :
              /\ y.alive /\ Agrees(y.state) /\ Fits(y.state, v) /\ row # <<>>
              /\ z.state = Fork("setting", y.state, v, line)
        BY <2>0
    <2>2. r.more /\ y.state \in Built(r)
        BY <2>1 DEF Matches
    <2>3. v \in ToSet(kept)
        BY <1>4, <2>1
    <2>. QED
        BY <2>1, <2>2, <2>3
<1>7. \A d \in AllSaid(r) : \E z \in W2 : d \in z.state.said
    <2> SUFFICES ASSUME NEW d \in AllSaid(r)
                 PROVE  \E z \in W2 : d \in z.state.said
        OBVIOUS
    <2>1. PICK y \in W : d \in y.state.said
        BY DEF Matches
    <2>. QED
        BY <1>1, <2>1 DEF SaidOn
<1>8. CASE ~r.more
    BY <1>5, <1>6, <1>7, <1>8 DEF Matches
<1>9. CASE r.more /\ kept = <<>>
    <2>1. ToSet(kept) = {}
        BY <1>9, EmptyList
    <2> DEFINE s == Say(r.self, AllSaid(r))
    <2>2. IsSub(s) /\ s.pos = c.pos /\ s.said = r.self.said \cup AllSaid(r)
        BY <1>5, SayIs DEF IsSub, SameChoices
    <2>3. s.said = AllSaid(r)
        BY <2>2 DEF AllSaid
    <2>4. t = Stop(s)
        BY <1>9 DEF ForkRow, Abandon
    <2> HIDE DEF s, t
    <2>5. /\ t.more = FALSE /\ t.new = <<>> /\ IsSub(t.self) /\ t.self.pos = c.pos
          /\ t.self.build = NoBuild /\ AllSaid(t) = AllSaid(r) /\ SubList(t.new) /\ ApartList(All(t))
        BY <2>2, <2>3, <2>4, StopIs
    <2>6. Matches(t, W2, c, differ)
        BY <1>6, <1>7, <2>1, <2>5 DEF Matches
    <2>7. (IF r.more THEN t ELSE r) = t
        BY <1>9
    <2>. QED
        BY <2>6, <2>7 DEF t, kept
<1>10. CASE r.more /\ kept # <<>>
    <2>1. /\ t.more = TRUE /\ IsList(t.new)
          /\ \A y : y \in Built(t) <=>
                \E x \in Built(r) : \E v \in ToSet(kept) : y = Fork("setting", x, v, line)
        <3>1. IsRow(t, "setting", r, kept, line)
            BY <1>2, <1>5, <1>10, ForkRowIs
        <3> HIDE DEF t
        <3>. QED
            BY <3>1 DEF IsRow
    <2>2. ASSUME NEW y \in Built(t)
          PROVE  Way(y, TRUE) \in W2 /\ Agrees(y)
        <3>1. PICK x \in Built(r), v \in ToSet(kept) : y = Fork("setting", x, v, line)
            BY <2>1
        <3> DEFINE p == Way(x, TRUE)
        <3>2. p \in W /\ Agrees(x)
            BY <1>10 DEF Matches
        <3>3. p.state = x /\ p.alive = TRUE
            BY WayIs
        <3> HIDE DEF p
        <3>4. v \in ToSet(row) /\ Fits(x, v)
            BY <1>4, <3>2, <3>3
        <3>5. IsSub(x)
            BY <3>2, <3>3 DEF Leads, Follows
        <3>6. Agrees(y)
            BY <3>1, <3>2, <3>4, <3>5, AgreesFork
        <3>7. row # <<>>
            BY <3>4, EmptyList
        <3>8. Way(y, TRUE) \in Branch("setting", p, row, line)
            BY <3>1, <3>3, <3>4, <3>7 DEF Branch
        <3>. QED
            BY <3>2, <3>6, <3>8 DEF IsNext
    <2>3. ASSUME NEW y \in Built(t)
          PROVE  IsSub(y) /\ y.pos = c.pos
        <3> DEFINE p == Way(y, TRUE)
        <3>1. p \in W2 /\ p.state = y
            BY <2>2, WayIs
        <3> HIDE DEF p
        <3>. QED
            BY <3>1 DEF Leads, Follows
    <2>4. SubList(t.new) /\ IsSub(t.self) /\ t.self.pos = c.pos
        BY <2>1, <2>3 DEF Built, SubList
    <2>5. \A d \in AllSaid(t) : \E z \in W2 : d \in z.state.said
        <3> SUFFICES ASSUME NEW d \in AllSaid(t)
                     PROVE  \E z \in W2 : d \in z.state.said
            OBVIOUS
        <3>1. PICK y \in Built(t) : d \in y.said
            BY <2>1, AllSaidIs
        <3>. QED
            BY <2>2, <3>1, WayIs
    <2>6. differ => ApartList(All(t))
        <3> SUFFICES ASSUME differ
                     PROVE  ApartList(All(t))
            OBVIOUS
        <3>1. ApartList(All(r))
            BY DEF Matches
        <3>. QED
            BY <1>2, <1>5, <1>10, <3>1, ForkRowApart
    <2>7. \A z \in W2 : z.alive /\ Agrees(z.state) => z.state \in Built(t)
        BY <1>6, <2>1
    <2> HIDE DEF t
    <2>8. Matches(t, W2, c, differ)
        BY <2>1, <2>2, <2>4, <2>5, <2>6, <2>7 DEF Matches
    <2>9. (IF r.more THEN t ELSE r) = t
        BY <1>10
    <2>. QED
        BY <2>8, <2>9 DEF t, kept
<1>. QED
    BY <1>8, <1>9, <1>10

\* The ways out of a statement that offers rows of settings.
LEMMA BranchedNext ==
    ASSUME NEW c, NEW rows, IsList(rows), NEW line, NEW n \in 1..Len(rows)
    PROVE  IsNext(Branched("setting", c, rows, line)[n], Branched("setting", c, rows, line)[n - 1],
                  rows[n], line)
<1> DEFINE f == Branched("setting", c, rows, line)
<1>1. Len(rows) \in Nat
    BY ListIs
<1>2. BranchesOut(f, "setting", rows, line)
    BY <1>1, BranchedIs
<1> HIDE DEF f
<1>3. f[n] = RowBranches("setting", f[n - 1], rows[n], line)
    BY <1>2 DEF BranchesOut
<1>4. f[n] = UNION {Branch("setting", y, rows[n], line) : y \in f[n - 1]}
    BY <1>3 DEF RowBranches
<1>5. \A z : z \in f[n] <=> \E y \in f[n - 1] : z \in Branch("setting", y, rows[n], line)
    BY <1>4
<1>. QED
    BY <1>5 DEF IsNext, f

LEMMA FirstWay ==
    ASSUME NEW c, IsSub(c)
    PROVE  AreWays({Way(c, TRUE)}, c, 0)
<1>1. Len(c.settings) \in Nat /\ Len(c.settings) + 0 = Len(c.settings)
    BY ListIs DEF IsSub
<1>2. Follows(c, c)
    BY <1>1 DEF Follows, Descends
<1> DEFINE W == {Way(c, TRUE)}
<1>3. Way(c, TRUE) \in W /\ \A y \in W : y.state = c /\ y.alive = TRUE
    BY WayIs
<1> HIDE DEF W
<1>4. AreWays(W, c, 0)
    BY <1>1, <1>2, <1>3 DEF AreWays
<1>. QED
    BY <1>4 DEF W

LEMMA BranchedWays ==
    ASSUME NEW c, IsSub(c), NEW rows, AllLists(rows), NEW line, NEW k \in 0..Len(rows)
    PROVE  AreWays(Branched("setting", c, rows, line)[k], c, k)
<1> DEFINE f == Branched("setting", c, rows, line)
           Bad == {n \in Nat : n <= Len(rows) /\ ~AreWays(f[n], c, n)}
<1>1. IsList(rows) /\ Len(rows) \in Nat /\ \A n \in 1..Len(rows) : IsList(rows[n])
    BY ListIs DEF AllLists
<1>2. f[0] = {Way(c, TRUE)}
    BY <1>1, BranchedIs
<1>3. \A n \in 1..Len(rows) : IsNext(f[n], f[n - 1], rows[n], line)
    BY <1>1, BranchedNext
<1> HIDE DEF f
<1> SUFFICES ASSUME Bad # {} PROVE FALSE
    BY <1>1 DEF f
<1>4. PICK n \in Bad : \A m \in Bad : n <= m
    BY LeastOf
<1>5. n \in Nat /\ n <= Len(rows) /\ ~AreWays(f[n], c, n)
    OBVIOUS
<1>6. n # 0
    BY <1>2, <1>5, FirstWay
<1>7. n \in 1..Len(rows) /\ n - 1 \in Nat /\ n - 1 <= Len(rows) /\ ~(n <= n - 1) /\ (n - 1) + 1 = n
    BY <1>1, <1>5, <1>6
<1>8. AreWays(f[n - 1], c, n - 1)
    BY <1>4, <1>7
<1>9. AreWays(f[n], c, (n - 1) + 1)
    BY <1>1, <1>3, <1>7, <1>8, BranchWays
<1>. QED
    BY <1>5, <1>7, <1>9

LEMMA AreWaysLead ==
    ASSUME NEW W, NEW c, NEW n, AreWays(W, c, n)
    PROVE  Leads(c, W)
  BY DEF AreWays, Leads

LEMMA DeepForks ==
    ASSUME NEW c, IsSub(c), Agrees(c), NEW rows, AllLists(rows), NEW line, NEW differ,
           IsList(setup.forced.options), differ => \A i \in 1..Len(rows) : NamesDiffer(rows[i])
    PROVE  Matches(MakeDeepForks("setting", c, Offered(rows, Len(c.settings), setup.forced.options), line),
                   Branched("setting", c, rows, line)[Len(rows)], c, differ)
<1> DEFINE offered == Offered(rows, Len(c.settings), setup.forced.options)
           f == Branched("setting", c, rows, line)
           g == ForkedBy("setting", c, offered, line)
           Bad == {n \in Nat : n <= Len(rows) /\ ~Matches(g[n], f[n], c, differ)}
<1>1. IsList(rows) /\ Len(rows) \in Nat /\ \A n \in 1..Len(rows) : IsList(rows[n])
    BY ListIs DEF AllLists
<1>2. f[0] = {Way(c, TRUE)}
    BY <1>1, BranchedIs
<1>3. \A n \in 1..Len(rows) : IsNext(f[n], f[n - 1], rows[n], line)
    BY <1>1, BranchedNext
<1>4. \A n \in 0..Len(rows) : AreWays(f[n], c, n) /\ Leads(c, f[n])
    BY BranchedWays, AreWaysLead
<1>5. offered = [i \in 1..Len(rows) |-> Kept(rows[i], Len(c.settings) + i)]
    BY DEF Offered, Kept
<1>6. Len(offered) = Len(rows) /\ \A i \in 1..Len(rows) : offered[i] = Kept(rows[i], Len(c.settings) + i)
    BY <1>1, <1>5, ListOfFunction
<1>7. MakeDeepForks("setting", c, offered, line) = g[Len(offered)]
    BY DEF MakeDeepForks
<1>8. g = [m \in 0..Len(offered) |->
              IF m = 0 THEN Continue(c)
              ELSE IF g[m - 1].more THEN ForkRow("setting", g[m - 1], offered[m], line) ELSE g[m - 1]]
    BY <1>1, <1>6, ForkedByIs
<1> HIDE DEF f, g, offered
<1>9. SUFFICES ASSUME Bad # {} PROVE FALSE
    BY <1>1, <1>6, <1>7 DEF f, offered
<1>10. PICK n \in Bad : \A m \in Bad : n <= m
    BY <1>9, LeastOf
<1>11. n \in Nat /\ n <= Len(rows) /\ ~Matches(g[n], f[n], c, differ)
    OBVIOUS
<1>12. n # 0
    <2>1. g[0] = Continue(c)
        BY <1>1, <1>6, <1>8
    <2>2. Len(c.settings) \in Nat
        BY ListIs DEF IsSub
    <2>3. Follows(c, c)
        BY <2>2 DEF Follows, Descends
    <2>4. Matches(g[0], f[0], c, differ)
        BY <1>2, <2>1, <2>3, ContinueMatches
    <2>. QED
        BY <1>11, <2>4
<1>13. /\ n \in 1..Len(rows) /\ n \in 0..Len(rows) /\ n - 1 \in 0..Len(rows) /\ n - 1 \in Nat
       /\ n - 1 <= Len(rows) /\ ~(n <= n - 1) /\ (n - 1) + 1 = n
    BY <1>1, <1>11, <1>12
<1>14. Matches(g[n - 1], f[n - 1], c, differ)
    BY <1>10, <1>13
<1> HIDE DEF Bad
<1> DEFINE r == g[n - 1]
           row == rows[n]
           kept == Kept(row, Len(c.settings) + ((n - 1) + 1))
<1>15. g[n] = IF r.more THEN ForkRow("setting", r, kept, line) ELSE r
    BY <1>6, <1>8, <1>11, <1>12, <1>13
<1>16. Matches(IF r.more THEN ForkRow("setting", r, kept, line) ELSE r, f[n], c, differ)
    <2>1. IsList(row) /\ (differ => NamesDiffer(row))
        BY <1>1, <1>13
    <2>2. AreWays(f[n - 1], c, n - 1) /\ Leads(c, f[n - 1]) /\ Leads(c, f[n]) /\ IsNext(f[n], f[n - 1], row, line)
        BY <1>3, <1>4, <1>13
    <2>. QED
        BY <1>13, <1>14, <2>1, <2>2, DeepStep
<1>. QED
    BY <1>11, <1>15, <1>16

-----------------------------------------------------------------------------
(* The statements that fork nothing, and those that choose a build ID.     *)

LEMMA OneWayLeads ==
    ASSUME NEW c, NEW t, Follows(c, t)
    PROVE  Leads(c, {Way(t, TRUE)})
<1> DEFINE W == {Way(t, TRUE)}
<1>1. Way(t, TRUE) \in W /\ \A y \in W : y.state = t /\ y.alive = TRUE
    BY WayIs
<1> HIDE DEF W
<1>2. Leads(c, W)
    BY <1>1 DEF Leads
<1>. QED
    BY <1>2 DEF W

LEMMA RuledOutMatches ==
    ASSUME NEW c, IsSub(c), c.said = {}, NEW W, NEW differ,
           \A y \in W : y.alive => ~Agrees(y.state)
    PROVE  Matches(Stop(c), W, c, differ)
<1> DEFINE r == Stop(c)
<1>1. /\ r.more = FALSE /\ r.new = <<>>
      /\ IsSub(r.self) /\ r.self.pos = c.pos /\ r.self.build = NoBuild
      /\ AllSaid(r) = {} /\ SubList(r.new) /\ ApartList(All(r))
    BY StopIs
<1> HIDE DEF r
<1>2. Matches(r, W, c, differ)
    BY <1>1 DEF Matches
<1>. QED
    BY <1>2 DEF r

LEMMA SameAgrees ==
    ASSUME NEW s, NEW t, SameChoices(s, t)
    PROVE  Agrees(s) <=> Agrees(t)
  BY DEF SameChoices, Agrees, AgreesOn

PlainOption(c, st) ==
    \/ st.kind \in {"name", "version", "build", "format"}
    \/ st.kind = "builds" /\ c.build # NoBuild

RulesOut(c, st) ==
    st.kind = "build" /\ c.build = NoBuild /\ setup.forced.build # NoBuild /\ st.id # setup.forced.build

\* What it makes of c when nothing is asked of it.
Plain(c, st, line) == ExecOption(c, st, NothingForced, line).self

LEMMA PlainSame ==
    ASSUME NEW c, IsSub(c), NEW st, NEW line,
           PlainOption(c, st), st.kind = "build" => c.build # NoBuild
    PROVE  /\ DOMAIN Plain(c, st, line) = Fields /\ Plain(c, st, line).pos = c.pos
           /\ c.said \subseteq Plain(c, st, line).said
           /\ SameChoices(c, Plain(c, st, line))
           /\ ExecOption(c, st, setup.forced, line) = Continue(Plain(c, st, line))
<1> DEFINE t == Plain(c, st, line)
           e == ExecOption(c, st, setup.forced, line)
<1>1. DOMAIN c = Fields
    BY DEF IsSub
<1>2. ASSUME NEW x
      PROVE  Continue(x).self = x
    BY DEF Continue
<1>3. CASE st.kind = "name"
    <2> DEFINE x == [c EXCEPT !.named = TRUE]
    <2>1. e = Continue(x) /\ t = x
        BY <1>2, <1>3 DEF ExecOption, Plain
    <2>2. DOMAIN x = Fields /\ x.pos = c.pos /\ x.said = c.said /\ SameChoices(c, x)
        BY <1>1 DEF Fields, SameChoices
    <2> HIDE DEF x, e, t
    <2>. QED
        BY <2>1, <2>2 DEF e, t
<1>4. CASE st.kind = "version"
    <2> DEFINE x == [c EXCEPT !.versioned = TRUE]
    <2>1. e = Continue(x) /\ t = x
        BY <1>2, <1>4 DEF ExecOption, Plain
    <2>2. DOMAIN x = Fields /\ x.pos = c.pos /\ x.said = c.said /\ SameChoices(c, x)
        BY <1>1 DEF Fields, SameChoices
    <2> HIDE DEF x, e, t
    <2>. QED
        BY <2>1, <2>2 DEF e, t
<1>5. CASE st.kind = "format" /\ c.format # NoFormat
    <2> DEFINE x == Say(c, Duplicate("DuplicateOutputFormat", line, c.formatAt))
    <2>1. e = Continue(x) /\ t = x
        BY <1>2, <1>5 DEF ExecOption, OutputFormat, Plain
    <2>2. DOMAIN x = Fields /\ x.pos = c.pos /\ c.said \subseteq x.said /\ SameChoices(c, x)
        BY <1>1, SayIs
    <2> HIDE DEF x, e, t
    <2>. QED
        BY <2>1, <2>2 DEF e, t
<1>6. CASE st.kind = "format" /\ c.format = NoFormat
    <2> DEFINE x == [c EXCEPT !.format = st.value, !.formatAt = line]
    <2>1. e = Continue(x) /\ t = x
        BY <1>2, <1>6 DEF ExecOption, OutputFormat, Plain
    <2>2. DOMAIN x = Fields /\ x.pos = c.pos /\ x.said = c.said /\ SameChoices(c, x)
        BY <1>1 DEF Fields, SameChoices
    <2> HIDE DEF x, e, t
    <2>. QED
        BY <2>1, <2>2 DEF e, t
<1>7. CASE st.kind \in {"build", "builds"} /\ c.build # NoBuild
    <2> DEFINE x == Say(c, Duplicate("DuplicateBuildId", line, c.buildAt))
    <2>1. e = Continue(x) /\ t = x
        BY <1>2, <1>7 DEF ExecOption, TargetBuild, TargetBuilds, Plain
    <2>2. DOMAIN x = Fields /\ x.pos = c.pos /\ c.said \subseteq x.said /\ SameChoices(c, x)
        BY <1>1, SayIs
    <2> HIDE DEF x, e, t
    <2>. QED
        BY <2>1, <2>2 DEF e, t
<1>. QED
    BY <1>3, <1>4, <1>5, <1>6, <1>7 DEF PlainOption

LEMMA PlainBuild ==
    ASSUME NEW c, IsSub(c), NEW st, NEW line, st.kind = "build", c.build = NoBuild, IsStatement(st)
    PROVE  /\ Follows(c, Plain(c, st, line))
           /\ Agrees(c) => (Agrees(Plain(c, st, line)) <=> ~RulesOut(c, st))
           /\ ExecOption(c, st, setup.forced, line) =
                  IF RulesOut(c, st) THEN Stop(c) ELSE Continue(Plain(c, st, line))
<1> DEFINE x == [c EXCEPT !.build = st.id, !.buildAt = line]
<1>1. Plain(c, st, line) = x
    BY DEF Plain, ExecOption, TargetBuild, NothingForced, Continue
<1>2. st.id # NoBuild
    BY DEF IsStatement
<1>3. /\ DOMAIN x = Fields /\ x.pos = c.pos /\ x.said = c.said /\ x.target = c.target
      /\ x.build = st.id /\ x.settings = c.settings
    BY DEF IsSub, Fields
<1>4. ExecOption(c, st, setup.forced, line) = IF RulesOut(c, st) THEN Stop(c) ELSE Continue(x)
    BY DEF ExecOption, TargetBuild, RulesOut
<1> HIDE DEF x
<1>5. Len(c.settings) \in Nat /\ IsList(c.settings)
    BY ListIs DEF IsSub
<1>6. Follows(c, x)
    BY <1>3, <1>5 DEF Follows, IsSub, Descends
<1>7. AgreesOn(c.settings) <=> AgreesOn(x.settings)
    BY <1>3
<1>8. Agrees(c) => (Agrees(x) <=> ~RulesOut(c, st))
    BY <1>2, <1>3, <1>7 DEF Agrees, RulesOut
<1>. QED
    BY <1>1, <1>4, <1>6, <1>8

LEMMA PlainLeads ==
    ASSUME NEW c, IsSub(c), NEW st, IsStatement(st), NEW line, PlainOption(c, st)
    PROVE  Leads(c, {Way(Plain(c, st, line), TRUE)})
<1>1. Follows(c, Plain(c, st, line))
    BY PlainSame, PlainBuild, FollowsSame
<1>. QED
    BY <1>1, OneWayLeads

LEMMA PlainMatches ==
    ASSUME NEW c, IsSub(c), c.said = {}, Agrees(c), NEW st, IsStatement(st), NEW line, NEW differ,
           PlainOption(c, st)
    PROVE  Matches(ExecOption(c, st, setup.forced, line), {Way(Plain(c, st, line), TRUE)}, c, differ)
<1> DEFINE t == Plain(c, st, line)
           e == ExecOption(c, st, setup.forced, line)
<1>1. CASE st.kind = "build" /\ c.build = NoBuild /\ RulesOut(c, st)
    <2>1. e = Stop(c) /\ ~Agrees(t)
        BY <1>1, PlainBuild
    <2> HIDE DEF e, t
    <2>2. \A y \in {Way(t, TRUE)} : y.alive => ~Agrees(y.state)
        <3>1. Way(t, TRUE).state = t
            BY WayIs
        <3>2. \A y \in {Way(t, TRUE)} : y.state = t
            BY <3>1
        <3>. QED
            BY <2>1, <3>2
    <2>3. Matches(e, {Way(t, TRUE)}, c, differ)
        BY <2>1, <2>2, RuledOutMatches
    <2>. QED
        BY <2>3 DEF e, t
<1>2. CASE st.kind = "build" /\ c.build = NoBuild /\ ~RulesOut(c, st)
    <2>1. e = Continue(t) /\ Agrees(t) /\ Follows(c, t)
        BY <1>2, PlainBuild
    <2> HIDE DEF e, t
    <2>2. Matches(e, {Way(t, TRUE)}, c, differ)
        BY <2>1, ContinueMatches
    <2>. QED
        BY <2>2 DEF e, t
<1>3. CASE st.kind = "build" => c.build # NoBuild
    <2>1. /\ DOMAIN t = Fields /\ t.pos = c.pos /\ c.said \subseteq t.said
          /\ SameChoices(c, t) /\ e = Continue(t)
        BY <1>3, PlainSame
    <2> HIDE DEF e, t
    <2>2. Follows(c, t) /\ Agrees(t)
        BY <2>1, FollowsSame, SameAgrees
    <2>3. Matches(e, {Way(t, TRUE)}, c, differ)
        BY <2>1, <2>2, ContinueMatches
    <2>. QED
        BY <2>3 DEF e, t
<1>. QED
    BY <1>1, <1>2, <1>3

-----------------------------------------------------------------------------
(* The statement that offers several builds.                               *)

AllowedBuilds(entries) ==
    Retain(entries, {entry \in ToSet(entries) : setup.forced.build \in {NoBuild, entry.id}})

IdsDiffer(entries) == \A a, b \in 1..Len(entries) : entries[a].id = entries[b].id => a = b

HaveIds(entries) == IsList(entries) /\ \A i \in 1..Len(entries) : entries[i].id # NoBuild

LEMMA AllowedBuildsAre ==
    ASSUME NEW entries, HaveIds(entries)
    PROVE  /\ IsList(AllowedBuilds(entries)) /\ HaveIds(AllowedBuilds(entries))
           /\ \A v : v \in ToSet(AllowedBuilds(entries)) <=>
                        v \in ToSet(entries) /\ setup.forced.build \in {NoBuild, v.id}
           /\ IdsDiffer(entries) => IdsDiffer(AllowedBuilds(entries))
           /\ \A v \in ToSet(entries) : v.id # NoBuild
<1> DEFINE S == {entry \in ToSet(entries) : setup.forced.build \in {NoBuild, entry.id}}
           k == Retain(entries, S)
<1>0. IsList(entries) /\ \A i \in 1..Len(entries) : entries[i].id # NoBuild
    BY DEF HaveIds
<1>1. IsList(k) /\ ToSet(k) = ToSet(entries) \cap S
    BY <1>0, RetainKeeps
<1>2. PICK at : IsPartOf(k, entries, S, Len(entries), at)
    BY <1>0, RetainIs
<1>3. \A v : v \in S <=> v \in ToSet(entries) /\ setup.forced.build \in {NoBuild, v.id}
    OBVIOUS
<1>4. k = AllowedBuilds(entries)
    BY DEF AllowedBuilds
<1> HIDE DEF S, k
<1>5. \A a \in 1..Len(k) : at[a] \in 1..Len(entries) /\ k[a] = entries[at[a]]
    BY <1>2 DEF IsPartOf
<1>6. ASSUME IdsDiffer(entries)
      PROVE  IdsDiffer(k)
    <2> SUFFICES ASSUME NEW a \in 1..Len(k), NEW b \in 1..Len(k), k[a].id = k[b].id
                 PROVE  a = b
        BY DEF IdsDiffer
    <2>1. /\ at[a] \in 1..Len(entries) /\ k[a] = entries[at[a]]
          /\ at[b] \in 1..Len(entries) /\ k[b] = entries[at[b]]
        BY <1>5
    <2>2. at[a] = at[b]
        BY <1>6, <2>1 DEF IdsDiffer
    <2>. QED
        BY <1>2, <2>2 DEF IsPartOf
<1>7. HaveIds(k)
    BY <1>0, <1>1, <1>5 DEF HaveIds
<1>8. \A v \in ToSet(entries) : v.id # NoBuild
    BY <1>0, ListIs
<1>. QED
    BY <1>1, <1>3, <1>4, <1>6, <1>7, <1>8

LEMMA BuildForkAgrees ==
    ASSUME NEW c, IsSub(c), Agrees(c), NEW v, v.id # NoBuild, NEW line
    PROVE  Agrees(Fork("build", c, v, line)) <=> setup.forced.build \in {NoBuild, v.id}
<1> DEFINE t == Fork("build", c, v, line)
<1>1. t.build = v.id /\ t.settings = c.settings
    BY BuildForkIs
<1> HIDE DEF t
<1>2. AgreesOn(c.settings) <=> AgreesOn(t.settings)
    BY <1>1
<1>3. Agrees(t) <=> setup.forced.build \in {NoBuild, v.id}
    BY <1>1, <1>2 DEF Agrees
<1>. QED
    BY <1>3 DEF t

LEMMA BuildsTell ==
    ASSUME NEW c, IsSub(c), NEW values, HaveIds(values), IdsDiffer(values), NEW line
    PROVE  Tells("build", c, values, line)
<1> SUFFICES ASSUME NEW i \in 1..Len(values), NEW j \in 1..Len(values), i # j
             PROVE  Apart(Fork("build", c, values[i], line), Fork("build", c, values[j], line))
    BY DEF Tells
<1> DEFINE t == Fork("build", c, values[i], line)
           u == Fork("build", c, values[j], line)
<1>1. t.build = values[i].id /\ u.build = values[j].id
    BY BuildForkIs
<1>2. values[i].id # values[j].id /\ values[i].id # NoBuild /\ values[j].id # NoBuild
    BY DEF IdsDiffer, HaveIds
<1> HIDE DEF t, u
<1>3. Apart(t, u)
    BY <1>1, <1>2 DEF Apart
<1>. QED
    BY <1>3 DEF t, u

LEMMA BuildBranches ==
    ASSUME NEW c, IsSub(c), c.build = NoBuild, NEW entries, HaveIds(entries), NEW line
    PROVE  Leads(c, Branch("build", Way(c, TRUE), entries, line))
<1> DEFINE W == Branch("build", Way(c, TRUE), entries, line)
           p == Way(c, TRUE)
<1>1. p.state = c /\ p.alive = TRUE
    BY WayIs
<1>2. IsList(entries) /\ \A v \in ToSet(entries) : v.id # NoBuild
    BY ListIs DEF HaveIds
<1>3. W = Branch("build", p, entries, line)
    OBVIOUS
<1> HIDE DEF p, W
<1>4. CASE entries = <<>>
    <2>1. W = {Way(c, FALSE)}
        BY <1>1, <1>3, <1>4 DEF Branch
    <2>2. Way(c, FALSE) \in W /\ \A y \in W : y = Way(c, FALSE)
        BY <2>1
    <2>3. \A y \in W : y.state = c /\ y.alive = FALSE
        <3>1. Way(c, FALSE).state = c /\ Way(c, FALSE).alive = FALSE
            BY WayIs
        <3>. QED
            BY <2>2, <3>1
    <2>4. Len(c.settings) \in Nat
        BY ListIs DEF IsSub
    <2>5. Follows(c, c)
        BY <2>4 DEF Follows, Descends
    <2>6. Leads(c, W)
        BY <2>2, <2>3, <2>5 DEF Leads
    <2>. QED
        BY <2>6 DEF W, p
<1>5. CASE entries # <<>>
    <2>1. W = {Way(Fork("build", c, v, line), TRUE) : v \in ToSet(entries)}
        BY <1>1, <1>3, <1>5 DEF Branch
    <2>2. ASSUME NEW y \in W
          PROVE  Follows(c, y.state) /\ y.alive \in BOOLEAN
        <3>1. PICK v \in ToSet(entries) : y = Way(Fork("build", c, v, line), TRUE)
            BY <2>1
        <3>2. MayFork("build", c, v)
            BY <1>2 DEF MayFork
        <3>3. Follows(c, Fork("build", c, v, line))
            BY <3>2, ForkFollows
        <3>. QED
            BY <3>1, <3>3, WayIs
    <2>3. entries[1] \in ToSet(entries)
        BY <1>2, <1>5, FirstIsThere
    <2>4. Way(Fork("build", c, entries[1], line), TRUE) \in W
        BY <2>1, <2>3
    <2>5. Leads(c, W)
        BY <2>2, <2>4 DEF Leads
    <2>. QED
        BY <2>5 DEF W, p
<1>. QED
    BY <1>4, <1>5

LEMMA BuildForksMatch ==
    ASSUME NEW c, IsSub(c), c.said = {}, Agrees(c), c.build = NoBuild, NEW entries, HaveIds(entries),
           NEW line, NEW differ, differ => IdsDiffer(entries)
    PROVE  Matches(MakeForks("build", c, AllowedBuilds(entries), line),
                   Branch("build", Way(c, TRUE), entries, line), c, differ)
<1> DEFINE W == Branch("build", Way(c, TRUE), entries, line)
           allowed == AllowedBuilds(entries)
           r == MakeForks("build", c, allowed, line)
<1>1. Leads(c, W)
    BY BuildBranches
<1>2. /\ IsList(allowed) /\ HaveIds(allowed) /\ (IdsDiffer(entries) => IdsDiffer(allowed))
      /\ \A v : v \in ToSet(allowed) <=> v \in ToSet(entries) /\ setup.forced.build \in {NoBuild, v.id}
      /\ \A v \in ToSet(entries) : v.id # NoBuild
    BY AllowedBuildsAre
<1>3. \A y : y \in W <=> \/ entries = <<>> /\ y = Way(c, FALSE)
                         \/ entries # <<>> /\ \E v \in ToSet(entries) : y = Way(Fork("build", c, v, line), TRUE)
    <2> DEFINE p == Way(c, TRUE)
    <2>1. p.state = c /\ p.alive = TRUE
        BY WayIs
    <2>2. W = Branch("build", p, entries, line)
        OBVIOUS
    <2> HIDE DEF p, W
    <2>3. CASE entries = <<>>
        BY <2>1, <2>2, <2>3 DEF Branch
    <2>4. CASE entries # <<>>
        <3>1. W = {Way(Fork("build", c, v, line), TRUE) : v \in ToSet(entries)}
            BY <2>1, <2>2, <2>4 DEF Branch
        <3>. QED
            BY <2>4, <3>1
    <2>. QED
        BY <2>3, <2>4
<1> HIDE DEF W, allowed
<1>4. \A v \in ToSet(entries) : Agrees(Fork("build", c, v, line)) <=> v \in ToSet(allowed)
    BY <1>2, BuildForkAgrees
<1>5. \A y \in W : y.alive /\ Agrees(y.state) =>
          \E v \in ToSet(allowed) : y.state = Fork("build", c, v, line)
    <2> SUFFICES ASSUME NEW y \in W, y.alive, Agrees(y.state)
                 PROVE  \E v \in ToSet(allowed) : y.state = Fork("build", c, v, line)
        OBVIOUS
    <2>1. y # Way(c, FALSE)
        BY WayIs
    <2>2. PICK v \in ToSet(entries) : y = Way(Fork("build", c, v, line), TRUE)
        BY <1>3, <2>1
    <2>3. y.state = Fork("build", c, v, line)
        BY <2>2, WayIs
    <2>4. Agrees(Fork("build", c, v, line))
        BY <2>3
    <2>. QED
        BY <1>4, <2>3, <2>4
<1>6. CASE allowed = <<>>
    <2>1. r = Stop(c)
        BY <1>6 DEF MakeForks
    <2>2. \A y \in W : y.alive => ~Agrees(y.state)
        BY <1>5, <1>6, EmptyList
    <2>3. Matches(r, W, c, differ)
        BY <2>1, <2>2, RuledOutMatches
    <2>. QED
        BY <2>3 DEF W, allowed
<1>7. CASE allowed # <<>>
    <2>1. IsForked(r, "build", c, allowed, line)
        BY <1>2, <1>7, MakeForksIs
    <2>2. /\ r.more = TRUE /\ IsList(r.new)
          /\ \A x : x \in Built(r) <=> \E v \in ToSet(allowed) : x = Fork("build", c, v, line)
        BY <2>1 DEF IsForked
    <2>3. \A v \in ToSet(allowed) : v \in ToSet(entries) /\ MayFork("build", c, v)
        BY <1>2 DEF MayFork
    <2>4. \A v \in ToSet(allowed) : Follows(c, Fork("build", c, v, line))
        BY <2>3, ForkFollows
    <2>5. \A v \in ToSet(allowed) : IsSub(Fork("build", c, v, line))
        BY <2>4 DEF Follows
    <2>6. differ => ApartList(All(r))
        <3> SUFFICES ASSUME differ
                     PROVE  ApartList(All(r))
            OBVIOUS
        <3>1. Tells("build", c, allowed, line)
            BY <1>2, BuildsTell
        <3>. QED
            BY <1>2, <1>7, <2>5, <3>1, MakeForksApart
    <2> HIDE DEF r
    <2>7. \A x \in Built(r) : IsSub(x) /\ x.pos = c.pos /\ Agrees(x) /\ Way(x, TRUE) \in W
        <3> SUFFICES ASSUME NEW x \in Built(r)
                     PROVE  IsSub(x) /\ x.pos = c.pos /\ Agrees(x) /\ Way(x, TRUE) \in W
            OBVIOUS
        <3>1. PICK v \in ToSet(allowed) : x = Fork("build", c, v, line)
            BY <2>2
        <3>2. IsSub(x) /\ x.pos = c.pos
            BY <2>4, <3>1 DEF Follows
        <3>3. v \in ToSet(entries)
            BY <2>3
        <3>4. Agrees(x)
            BY <1>4, <3>1, <3>3
        <3>5. entries # <<>>
            BY <3>3, EmptyList
        <3>6. Way(x, TRUE) \in W
            BY <1>3, <3>1, <3>3, <3>5
        <3>. QED
            BY <3>2, <3>4, <3>6
    <2>8. SubList(r.new) /\ IsSub(r.self) /\ r.self.pos = c.pos
        BY <2>2, <2>7 DEF SubList, Built
    <2>9. \A d \in AllSaid(r) : \E y \in W : d \in y.state.said
        <3> SUFFICES ASSUME NEW d \in AllSaid(r)
                     PROVE  \E y \in W : d \in y.state.said
            OBVIOUS
        <3>1. PICK x \in Built(r) : d \in x.said
            BY <2>2, AllSaidIs
        <3>2. PICK y : y = Way(x, TRUE)
            OBVIOUS
        <3>3. y.state = x
            BY <3>2, WayIs
        <3>4. y \in W
            BY <2>7, <3>1, <3>2
        <3>. QED
            BY <3>1, <3>3, <3>4
    <2>10. Matches(r, W, c, differ)
        BY <1>5, <2>2, <2>6, <2>7, <2>8, <2>9 DEF Matches
    <2>. QED
        BY <2>10 DEF W, r, allowed
<1>. QED
    BY <1>6, <1>7

-----------------------------------------------------------------------------
(* One statement, whatever it is.                                          *)

LEMMA SetupIs ==
    ASSUME setup \in Setups
    PROVE  /\ IsList(Statements) /\ End \in Nat /\ DOMAIN Statements = 1..End
           /\ \A i \in 1..End : IsStatement(Statements[i])
           /\ IsList(setup.targets) /\ setup.targets # <<>>
           /\ IsList(setup.forced.options)
<1>1. IsSetup(setup)
    BY SetupsAreSources
<1>2. IsList(Statements)
    BY <1>1 DEF IsSetup, Statements
<1>3. End \in Nat /\ DOMAIN Statements = 1..End
    BY <1>2, ListIs DEF End
<1>4. \A i \in DOMAIN Statements : IsStatement(Statements[i])
    BY <1>1 DEF IsSetup, Statements
<1>. QED
    BY <1>1, <1>2, <1>3, <1>4 DEF IsSetup

\* s, once statement number `line` has been taken from it.
Past(s, line) == [s EXCEPT !.pos = line + 1]

LEMMA PastIs ==
    ASSUME NEW s, IsSub(s), NEW line
    PROVE  /\ IsSub(Past(s, line)) /\ Past(s, line).pos = line + 1 /\ Past(s, line).said = s.said
           /\ SameChoices(s, Past(s, line)) /\ Descends(s, Past(s, line))
<1> DEFINE t == Past(s, line)
<1>1. /\ DOMAIN t = Fields /\ t.pos = line + 1 /\ t.said = s.said
      /\ t.target = s.target /\ t.build = s.build /\ t.settings = s.settings
    BY DEF Past, IsSub, Fields
<1>2. IsList(s.settings) /\ Len(s.settings) \in Nat
    BY ListIs DEF IsSub
<1> HIDE DEF t
<1>3. IsSub(t) /\ SameChoices(s, t) /\ Descends(s, t)
    BY <1>1, <1>2 DEF IsSub, SameChoices, Descends
<1>. QED
    BY <1>1, <1>3 DEF t

\* What step_once returns for statement number `line`.
Result(s, line) ==
    LET st   == Statements[line]
        here == Past(s, line)
    IN  IF st.kind = "directive" THEN Continue(ExecDirective(here, [st.d EXCEPT !.at = line]))
        ELSE IF ~Active(here.activity) THEN Continue(here)
        ELSE IF st.kind = "code" THEN Continue(ExecCodeLine(here, st.text, line))
        ELSE ExecOption(here, st, setup.forced, line)

\* The five ways the source can go on.
WaysAre(s, line, W) ==
    LET st   == Statements[line]
        here == Past(s, line)
    IN  IF st.kind = "directive" THEN W = {Way(ExecDirective(here, [st.d EXCEPT !.at = line]), TRUE)}
        ELSE IF ~Active(here.activity) THEN W = {Way(here, TRUE)}
        ELSE IF st.kind = "code" THEN W = {Way(ExecCodeLine(here, st.text, line), TRUE)}
        ELSE IF st.kind = "settings" THEN W = Branched("setting", here, st.rows, line)[Len(st.rows)]
        ELSE IF st.kind = "builds" /\ here.build = NoBuild
             THEN W = Branch("build", Way(here, TRUE), st.entries, line)
        ELSE W = {Way(Plain(here, st, line), TRUE)}

LEMMA WaysAreWays ==
    ASSUME NEW s, NEW line
    PROVE  WaysAre(s, line, Ways(setup, s, line))
  BY DEF WaysAre, Ways, Past, Plain, Statements

LEMMA StatementIs ==
    ASSUME setup \in Setups, NEW line \in 1..End
    PROVE  /\ IsStatement(Statements[line])
           /\ Statements[line].kind \in OptionKinds \cup {"directive", "code"}
           /\ Statements[line].kind = "settings" => AllLists(Statements[line].rows)
           /\ Statements[line].kind = "builds" => HaveIds(Statements[line].entries)
<1> DEFINE st == Statements[line]
<1>1. IsStatement(st)
    BY SetupIs
<1> HIDE DEF st
<1>2. st.kind \in OptionKinds \cup {"directive", "code"}
    BY <1>1 DEF IsStatement
<1>3. st.kind = "settings" => AllLists(st.rows)
    BY <1>1, ListIs DEF IsStatement, AllLists
<1>4. st.kind = "builds" => HaveIds(st.entries)
    BY <1>1, ListIs DEF IsStatement, HaveIds
<1>. QED
    BY <1>1, <1>2, <1>3, <1>4 DEF st

LEMMA WaysLead ==
    ASSUME setup \in Setups, NEW s, IsSub(s), NEW line \in 1..End
    PROVE  Leads(Past(s, line), Ways(setup, s, line))
<1> DEFINE st == Statements[line]
           c == Past(s, line)
           W == Ways(setup, s, line)
<1>1. IsSub(c)
    BY PastIs
<1>2. /\ IsStatement(st) /\ st.kind \in OptionKinds \cup {"directive", "code"}
      /\ st.kind = "settings" => AllLists(st.rows)
      /\ st.kind = "builds" => HaveIds(st.entries)
    BY StatementIs
<1>3. WaysAre(s, line, W)
    BY WaysAreWays
<1>4. \/ st.kind = "directive" /\ W = {Way(ExecDirective(c, [st.d EXCEPT !.at = line]), TRUE)}
      \/ W = {Way(c, TRUE)}
      \/ W = {Way(ExecCodeLine(c, st.text, line), TRUE)}
      \/ st.kind = "settings" /\ W = Branched("setting", c, st.rows, line)[Len(st.rows)]
      \/ st.kind = "builds" /\ c.build = NoBuild /\ W = Branch("build", Way(c, TRUE), st.entries, line)
      \/ PlainOption(c, st) /\ W = {Way(Plain(c, st, line), TRUE)}
    <2> HIDE DEF W
    <2>. QED
        BY <1>2, <1>3 DEF WaysAre, PlainOption, OptionKinds
<1> HIDE DEF st, c, W
<1>5. CASE W = {Way(ExecDirective(c, [st.d EXCEPT !.at = line]), TRUE)}
    BY <1>1, <1>5, DirectiveFollows, OneWayLeads DEF W, c
<1>6. CASE W = {Way(c, TRUE)}
    <2>1. Len(c.settings) \in Nat
        BY <1>1, ListIs DEF IsSub
    <2>2. Follows(c, c)
        BY <1>1, <2>1 DEF Follows, Descends
    <2>. QED
        BY <1>6, <2>2, OneWayLeads DEF W, c
<1>7. CASE W = {Way(ExecCodeLine(c, st.text, line), TRUE)}
    BY <1>1, <1>7, CodeLineFollows, OneWayLeads DEF W, c
<1>8. CASE st.kind = "settings" /\ W = Branched("setting", c, st.rows, line)[Len(st.rows)]
    <2>1. AllLists(st.rows) /\ Len(st.rows) \in Nat
        BY <1>2, <1>8, ListIs DEF AllLists
    <2>2. Len(st.rows) \in 0..Len(st.rows)
        BY <2>1
    <2>3. AreWays(W, c, Len(st.rows))
        BY <1>1, <1>8, <2>1, <2>2, BranchedWays
    <2>4. Leads(c, W)
        BY <2>3, AreWaysLead
    <2>. QED
        BY <2>4 DEF W, c
<1>9. CASE st.kind = "builds" /\ c.build = NoBuild /\ W = Branch("build", Way(c, TRUE), st.entries, line)
    <2>1. HaveIds(st.entries)
        BY <1>2, <1>9
    <2>2. Leads(c, W)
        BY <1>1, <1>9, <2>1, BuildBranches
    <2>. QED
        BY <2>2 DEF W, c
<1>10. CASE PlainOption(c, st) /\ W = {Way(Plain(c, st, line), TRUE)}
    <2>1. Leads(c, W)
        BY <1>1, <1>2, <1>10, PlainLeads
    <2>. QED
        BY <2>1 DEF W, c
<1>. QED
    BY <1>4, <1>5, <1>6, <1>7, <1>8, <1>9, <1>10

LEMMA ResultMatches ==
    ASSUME setup \in Setups, NEW s, IsSub(s), s.said = {}, Agrees(s), NEW line \in 1..End
    PROVE  Matches(Result(s, line), Ways(setup, s, line), Past(s, line), ChoicesDiffer)
<1> DEFINE st == Statements[line]
           c == Past(s, line)
           W == Ways(setup, s, line)
           r == Result(s, line)
<1>1. IsSub(c) /\ c.said = {} /\ Agrees(c)
    BY PastIs, SameAgrees
<1>2. /\ IsStatement(st) /\ st.kind \in OptionKinds \cup {"directive", "code"}
      /\ st.kind = "settings" => AllLists(st.rows)
      /\ st.kind = "builds" => HaveIds(st.entries)
    BY StatementIs
<1>3. WaysAre(s, line, W)
    BY WaysAreWays
<1>4. \/ /\ W = {Way(ExecDirective(c, [st.d EXCEPT !.at = line]), TRUE)}
         /\ r = Continue(ExecDirective(c, [st.d EXCEPT !.at = line]))
      \/ /\ W = {Way(c, TRUE)} /\ r = Continue(c)
      \/ /\ W = {Way(ExecCodeLine(c, st.text, line), TRUE)} /\ r = Continue(ExecCodeLine(c, st.text, line))
      \/ /\ st.kind = "settings" /\ W = Branched("setting", c, st.rows, line)[Len(st.rows)]
         /\ r = UserSettings(c, st, setup.forced, line)
      \/ /\ st.kind = "builds" /\ c.build = NoBuild /\ W = Branch("build", Way(c, TRUE), st.entries, line)
         /\ r = TargetBuilds(c, st, setup.forced, line)
      \/ PlainOption(c, st) /\ W = {Way(Plain(c, st, line), TRUE)} /\ r = ExecOption(c, st, setup.forced, line)
    <2> HIDE DEF W
    <2>. QED
        BY <1>2, <1>3 DEF WaysAre, PlainOption, OptionKinds, Result, ExecOption
<1>5. IsList(setup.forced.options)
    BY SetupIs
<1>6. ChoicesDiffer => /\ st.kind = "builds" => IdsDiffer(st.entries)
                       /\ st.kind = "settings" => \A i \in 1..Len(st.rows) : NamesDiffer(st.rows[i])
    <2> SUFFICES ASSUME ChoicesDiffer
                 PROVE  /\ st.kind = "builds" => IdsDiffer(st.entries)
                        /\ st.kind = "settings" => \A i \in 1..Len(st.rows) : NamesDiffer(st.rows[i])
        OBVIOUS
    <2>1. line \in DOMAIN Statements
        BY SetupIs
    <2>2. /\ st.kind = "builds" =>
                \A a, b \in DOMAIN st.entries : st.entries[a].id = st.entries[b].id => a = b
          /\ st.kind = "settings" =>
                \A i \in DOMAIN st.rows : \A a, b \in DOMAIN st.rows[i] :
                    st.rows[i][a].name = st.rows[i][b].name => a = b
        BY <2>1 DEF ChoicesDiffer
    <2> HIDE DEF st
    <2>3. st.kind = "builds" => DOMAIN st.entries = 1..Len(st.entries)
        BY <1>2, ListIs DEF HaveIds
    <2>4. st.kind = "settings" => /\ DOMAIN st.rows = 1..Len(st.rows)
                                  /\ \A i \in 1..Len(st.rows) : DOMAIN st.rows[i] = 1..Len(st.rows[i])
        BY <1>2, ListIs DEF AllLists
    <2>. QED
        BY <2>2, <2>3, <2>4 DEF IdsDiffer, NamesDiffer
<1>7. Len(c.settings) \in Nat
    BY <1>1, ListIs DEF IsSub
<1>8. Follows(c, c)
    BY <1>1, <1>7 DEF Follows, Descends
<1> SUFFICES Matches(r, W, c, ChoicesDiffer)
    OBVIOUS
<1> HIDE DEF st, c, W, r
<1>9. CASE /\ W = {Way(ExecDirective(c, [st.d EXCEPT !.at = line]), TRUE)}
           /\ r = Continue(ExecDirective(c, [st.d EXCEPT !.at = line]))
    <2> DEFINE t == ExecDirective(c, [st.d EXCEPT !.at = line])
    <2>1. Follows(c, t) /\ SameChoices(c, t)
        BY <1>1, DirectiveFollows
    <2> HIDE DEF t
    <2>2. Agrees(t)
        BY <1>1, <2>1, SameAgrees
    <2>. QED
        BY <1>9, <2>1, <2>2, ContinueMatches DEF t
<1>10. CASE W = {Way(c, TRUE)} /\ r = Continue(c)
    BY <1>1, <1>8, <1>10, ContinueMatches
<1>11. CASE /\ W = {Way(ExecCodeLine(c, st.text, line), TRUE)}
            /\ r = Continue(ExecCodeLine(c, st.text, line))
    <2> DEFINE t == ExecCodeLine(c, st.text, line)
    <2>1. Follows(c, t) /\ SameChoices(c, t)
        BY <1>1, CodeLineFollows
    <2> HIDE DEF t
    <2>2. Agrees(t)
        BY <1>1, <2>1, SameAgrees
    <2>. QED
        BY <1>11, <2>1, <2>2, ContinueMatches DEF t
<1>12. CASE /\ st.kind = "settings" /\ W = Branched("setting", c, st.rows, line)[Len(st.rows)]
            /\ r = UserSettings(c, st, setup.forced, line)
    <2>1. r = MakeDeepForks("setting", c, Offered(st.rows, Len(c.settings), setup.forced.options), line)
        BY <1>12 DEF UserSettings
    <2>. QED
        BY <1>1, <1>2, <1>5, <1>6, <1>12, <2>1, DeepForks
<1>13. CASE /\ st.kind = "builds" /\ c.build = NoBuild /\ W = Branch("build", Way(c, TRUE), st.entries, line)
            /\ r = TargetBuilds(c, st, setup.forced, line)
    <2>1. r = MakeForks("build", c, AllowedBuilds(st.entries), line)
        BY <1>13 DEF TargetBuilds, AllowedBuilds
    <2>2. HaveIds(st.entries) /\ c.build = NoBuild /\ (ChoicesDiffer => IdsDiffer(st.entries))
        BY <1>2, <1>6, <1>13
    <2> DEFINE entries == st.entries
               V == Branch("build", Way(c, TRUE), entries, line)
               q == MakeForks("build", c, AllowedBuilds(entries), line)
    <2>3. Matches(q, V, c, ChoicesDiffer)
        BY <1>1, <2>2, BuildForksMatch
    <2>4. W = V /\ r = q
        BY <1>13, <2>1
    <2> HIDE DEF V, q
    <2>. QED
        BY <2>3, <2>4
<1>14. CASE PlainOption(c, st) /\ W = {Way(Plain(c, st, line), TRUE)} /\ r = ExecOption(c, st, setup.forced, line)
    BY <1>1, <1>2, <1>14, PlainMatches
<1>. QED
    BY <1>4, <1>9, <1>10, <1>11, <1>12, <1>13, <1>14

-----------------------------------------------------------------------------
(* The worlds, statement by statement.                                     *)

\* What holds of a world after k statements.
IsAfter(w, k) ==
    /\ IsSub(w.state) /\ w.state.said = {} /\ w.alive \in BOOLEAN
    /\ w.alive => w.state.pos = k + 1
    /\ w = [state |-> w.state, alive |-> w.alive, said |-> w.said]

\* v is one of the worlds w becomes.
Becomes(w, v) ==
    /\ v.alive => w.alive
    /\ Descends(w.state, v.state)
    /\ w.said \subseteq v.said

LEMMA SilentIs ==
    ASSUME NEW s, IsSub(s)
    PROVE  /\ IsSub(Silent(s)) /\ Silent(s).pos = s.pos /\ Silent(s).said = {}
           /\ SameChoices(s, Silent(s)) /\ Descends(s, Silent(s))
<1> DEFINE t == Silent(s)
<1>1. /\ DOMAIN t = Fields /\ t.pos = s.pos /\ t.said = {}
      /\ t.target = s.target /\ t.build = s.build /\ t.settings = s.settings
    BY DEF Silent, IsSub, Fields
<1>2. IsList(s.settings) /\ Len(s.settings) \in Nat
    BY ListIs DEF IsSub
<1> HIDE DEF t
<1>3. IsSub(t) /\ SameChoices(s, t) /\ Descends(s, t)
    BY <1>1, <1>2 DEF IsSub, SameChoices, Descends
<1>. QED
    BY <1>1, <1>3 DEF t

LEMMA WorldIs ==
    ASSUME NEW y, NEW D
    PROVE  /\ World(y, D).state = Silent(y.state) /\ World(y, D).alive = y.alive
           /\ World(y, D).said = D \cup y.state.said
           /\ World(y, D) = [state |-> World(y, D).state, alive |-> World(y, D).alive, said |-> World(y, D).said]
  BY DEF World

\* One statement more.
LEMMA StepWorldIs ==
    ASSUME setup \in Setups, NEW k \in Nat, k + 1 \in 1..End, NEW w, IsAfter(w, k)
    PROVE  /\ StepWorld(setup, w, k + 1) # {}
           /\ \A v \in StepWorld(setup, w, k + 1) : IsAfter(v, k + 1) /\ Becomes(w, v)
<1> DEFINE line == k + 1
           s == w.state
           S == StepWorld(setup, w, line)
<1>1. IsSub(s) /\ s.said = {} /\ w.alive \in BOOLEAN
    BY DEF IsAfter
<1>2. Len(s.settings) \in Nat
    BY <1>1, ListIs DEF IsSub
<1>3. CASE ~w.alive
    <2>1. S = {w}
        BY <1>3 DEF StepWorld
    <2>2. Descends(s, s)
        BY <1>2 DEF Descends
    <2>3. IsAfter(w, k + 1)
        BY <1>3 DEF IsAfter
    <2> HIDE DEF S, s
    <2>4. Becomes(w, w)
        BY <2>2 DEF Becomes, s
    <2>. QED
        BY <2>1, <2>3, <2>4 DEF S
<1>4. CASE w.alive
    <2>1. line \in 1..End
        OBVIOUS
    <2> DEFINE c == Past(s, line)
               W == Ways(setup, s, line)
    <2>2. Leads(c, W)
        BY <1>1, <2>1, WaysLead
    <2>3. IsSub(c) /\ c.pos = line + 1 /\ Descends(s, c)
        BY <1>1, PastIs
    <2>4. S = {World(way, w.said) : way \in W}
        BY <1>4 DEF StepWorld
    <2> HIDE DEF S, c, W, s
    <2>5. ASSUME NEW v \in S
          PROVE  IsAfter(v, line) /\ Becomes(w, v)
        <3>1. PICK way \in W : v = World(way, w.said)
            BY <2>4
        <3>2. Follows(c, way.state) /\ way.alive \in BOOLEAN
            BY <2>2 DEF Leads
        <3> DEFINE t == way.state
        <3>3. IsSub(t) /\ t.pos = line + 1 /\ Descends(c, t)
            BY <2>3, <3>2 DEF Follows
        <3>4. IsSub(Silent(t)) /\ Silent(t).pos = line + 1 /\ Silent(t).said = {} /\ Descends(t, Silent(t))
            BY <3>3, SilentIs
        <3>5. v.state = Silent(t) /\ v.alive = way.alive /\ v.said = w.said \cup t.said
            BY <3>1, WorldIs
        <3>6. v = [state |-> v.state, alive |-> v.alive, said |-> v.said]
            BY <3>1, WorldIs
        <3> HIDE DEF t
        <3>7. Descends(s, t)
            BY <1>1, <2>3, <3>3, DescendsOn
        <3>8. Descends(s, v.state)
            BY <1>1, <3>3, <3>4, <3>5, <3>7, DescendsOn
        <3>9. IsAfter(v, line)
            BY <3>2, <3>4, <3>5, <3>6 DEF IsAfter
        <3>10. Becomes(w, v)
            BY <1>4, <3>5, <3>8 DEF Becomes, s
        <3>. QED
            BY <3>9, <3>10
    <2>6. S # {}
        <3>1. PICK way : way \in W
            BY <2>2 DEF Leads
        <3>. QED
            BY <2>4, <3>1
    <2>. QED
        BY <2>5, <2>6 DEF S
<1>. QED
    BY <1>1, <1>3, <1>4

LEMMA BecomesOn ==
    ASSUME NEW u, NEW v, NEW w, IsSub(u.state), IsSub(v.state), IsSub(w.state),
           Becomes(u, v), Becomes(v, w)
    PROVE  Becomes(u, w)
<1>1. Descends(u.state, w.state)
    BY DescendsOn DEF Becomes
<1>. QED
    BY <1>1 DEF Becomes

LEMMA ReadSteps ==
    ASSUME setup \in Setups, NEW ws, NEW k
    PROVE  /\ Read(setup, ws, k)[0] = ws
           /\ \A n \in 1..End : \A v :
                 v \in Read(setup, ws, k)[n] <=> \E w \in Read(setup, ws, k)[n - 1] : v \in StepWorld(setup, w, k + n)
<1> DEFINE f == Read(setup, ws, k)
<1>1. End \in Nat
    BY SetupIs
<1>2. f = [n \in 0..End |-> IF n = 0 THEN ws ELSE Steps(f[n - 1], k + n)]
    BY <1>1, ReadIs
<1>3. \A n \in 1..End : n \in 0..End /\ n # 0
    BY <1>1
<1> HIDE DEF f
<1>4. f[0] = ws
    BY <1>1, <1>2
<1>5. \A n \in 1..End : f[n] = Steps(f[n - 1], k + n)
    BY <1>2, <1>3
<1>6. \A n \in 1..End : \A v : v \in f[n] <=> \E w \in f[n - 1] : v \in StepWorld(setup, w, k + n)
    BY <1>5 DEF Steps
<1>. QED
    BY <1>4, <1>6 DEF f

-----------------------------------------------------------------------------
(* How the worlds that come of one world hang together.                    *)

LEMMA Induction ==
    ASSUME NEW S \in SUBSET Nat, 0 \in S, \A n \in S : n + 1 \in S
    PROVE  S = Nat
<1> DEFINE Bad == Nat \ S
<1> SUFFICES ASSUME Bad # {} PROVE FALSE
    OBVIOUS
<1>1. PICK m \in Bad : \A n \in Bad : m <= n
    BY LeastOf
<1>2. m \in Nat /\ m \notin S /\ m # 0
    OBVIOUS
<1>3. m - 1 \in Nat /\ ~(m <= m - 1) /\ (m - 1) + 1 = m
    BY <1>2
<1>4. m - 1 \in S
    BY <1>1, <1>3
<1>. QED
    BY <1>2, <1>3, <1>4

\* What is read from ws comes of one of them.
LEMMA OneWorld ==
    ASSUME setup \in Setups, NEW ws, NEW k, NEW n \in 0..End, NEW v \in Read(setup, ws, k)[n]
    PROVE  \E w \in ws : v \in Read(setup, {w}, k)[n]
<1> DEFINE Comes(m, x) == \E w \in ws : x \in Read(setup, {w}, k)[m]
           S == {m \in Nat : m <= End => \A x \in Read(setup, ws, k)[m] : Comes(m, x)}
<1>1. End \in Nat
    BY SetupIs
<1>2. Read(setup, ws, k)[0] = ws /\ \A w : Read(setup, {w}, k)[0] = {w}
    BY ReadSteps
<1>3. 0 \in S
    BY <1>2
<1>4. ASSUME NEW m \in S
      PROVE  m + 1 \in S
    <2>1. m \in Nat /\ (m <= End => \A x \in Read(setup, ws, k)[m] : Comes(m, x))
        OBVIOUS
    <2> HIDE DEF S, Comes
    <2> SUFFICES ASSUME m + 1 <= End, NEW x \in Read(setup, ws, k)[m + 1]
                 PROVE  Comes(m + 1, x)
        BY <2>1 DEF S
    <2>2. m + 1 \in 1..End /\ (m + 1) - 1 = m /\ m <= End
        BY <1>1, <2>1
    <2>3. PICK u \in Read(setup, ws, k)[(m + 1) - 1] : x \in StepWorld(setup, u, k + (m + 1))
        BY <2>2, ReadSteps
    <2>4. Comes(m, u)
        BY <2>1, <2>2, <2>3
    <2>5. PICK w \in ws : u \in Read(setup, {w}, k)[m]
        BY <2>4 DEF Comes
    <2>6. x \in Read(setup, {w}, k)[m + 1]
        BY <2>2, <2>3, <2>5, ReadSteps
    <2>. QED
        BY <2>6 DEF Comes
<1>5. n \in S
    <2>1. n \in Nat
        BY <1>1
    <2> HIDE DEF S
    <2>2. S \subseteq Nat
        BY DEF S
    <2>. QED
        BY <1>3, <1>4, <2>1, <2>2, Induction
<1>6. n <= End
    BY <1>1
<1>. QED
    BY <1>5, <1>6

\* The first statement, then the others.
LEMMA FirstStep ==
    ASSUME setup \in Setups, NEW w, NEW k \in Nat, NEW n \in Nat, n + 1 <= End,
           NEW v \in Read(setup, {w}, k)[n + 1]
    PROVE  \E x \in StepWorld(setup, w, k + 1) : v \in Read(setup, {x}, k + 1)[n]
<1> DEFINE Comes(m, y) == \E x \in StepWorld(setup, w, k + 1) : y \in Read(setup, {x}, k + 1)[m]
           S == {m \in Nat : m + 1 <= End => \A y \in Read(setup, {w}, k)[m + 1] : Comes(m, y)}
<1>1. End \in Nat
    BY SetupIs
<1>2. \A x : Read(setup, {x}, k + 1)[0] = {x}
    BY ReadSteps
<1>3. 0 \in S
    <2> SUFFICES ASSUME 0 + 1 <= End, NEW y \in Read(setup, {w}, k)[0 + 1]
                 PROVE  Comes(0, y)
        OBVIOUS
    <2>1. 0 + 1 \in 1..End /\ (0 + 1) - 1 = 0 /\ k + (0 + 1) = k + 1
        BY <1>1
    <2>2. PICK u \in Read(setup, {w}, k)[(0 + 1) - 1] : y \in StepWorld(setup, u, k + (0 + 1))
        BY <2>1, ReadSteps
    <2>3. u = w
        BY <2>1, <2>2, ReadSteps
    <2>. QED
        BY <1>2, <2>1, <2>2, <2>3
<1>4. ASSUME NEW m \in S
      PROVE  m + 1 \in S
    <2>1. m \in Nat /\ (m + 1 <= End => \A y \in Read(setup, {w}, k)[m + 1] : Comes(m, y))
        OBVIOUS
    <2> HIDE DEF S, Comes
    <2> SUFFICES ASSUME (m + 1) + 1 <= End, NEW y \in Read(setup, {w}, k)[(m + 1) + 1]
                 PROVE  Comes(m + 1, y)
        BY <2>1 DEF S
    <2>2. /\ (m + 1) + 1 \in 1..End /\ ((m + 1) + 1) - 1 = m + 1 /\ m + 1 <= End
          /\ m + 1 \in 1..End /\ (m + 1) - 1 = m
        BY <1>1, <2>1
    <2>3. PICK u \in Read(setup, {w}, k)[((m + 1) + 1) - 1] : y \in StepWorld(setup, u, k + ((m + 1) + 1))
        BY <2>2, ReadSteps
    <2>4. Comes(m, u)
        BY <2>1, <2>2, <2>3
    <2>5. PICK x \in StepWorld(setup, w, k + 1) : u \in Read(setup, {x}, k + 1)[m]
        BY <2>4 DEF Comes
    <2>6. k + ((m + 1) + 1) = (k + 1) + (m + 1)
        BY <2>1
    <2>7. y \in StepWorld(setup, u, (k + 1) + (m + 1))
        BY <2>3, <2>6
    <2>8. y \in Read(setup, {x}, k + 1)[m + 1]
        BY <2>2, <2>5, <2>7, ReadSteps
    <2>. QED
        BY <2>5, <2>8 DEF Comes
<1>5. n \in S
    <2> HIDE DEF S
    <2>2. S \subseteq Nat
        BY DEF S
    <2>. QED
        BY <1>3, <1>4, <2>2, Induction
<1>. QED
    BY <1>5

LEMMA ReadBecomes ==
    ASSUME setup \in Setups, NEW w, NEW k \in Nat, IsAfter(w, k), NEW n \in Nat, k + n <= End,
           NEW v \in Read(setup, {w}, k)[n]
    PROVE  IsAfter(v, k + n) /\ Becomes(w, v)
<1> DEFINE Comes(m, x) == IsAfter(x, k + m) /\ Becomes(w, x)
           S == {m \in Nat : k + m <= End => \A x \in Read(setup, {w}, k)[m] : Comes(m, x)}
<1>1. End \in Nat
    BY SetupIs
<1>2. 0 \in S
    <2>1. Read(setup, {w}, k)[0] = {w} /\ k + 0 = k
        BY ReadSteps
    <2>2. Len(w.state.settings) \in Nat
        BY ListIs DEF IsAfter, IsSub
    <2>3. Becomes(w, w)
        BY <2>2 DEF Becomes, Descends
    <2>. QED
        BY <2>1, <2>3
<1>3. ASSUME NEW m \in S
      PROVE  m + 1 \in S
    <2>1. m \in Nat /\ (k + m <= End => \A x \in Read(setup, {w}, k)[m] : Comes(m, x))
        OBVIOUS
    <2> HIDE DEF S, Comes
    <2> SUFFICES ASSUME k + (m + 1) <= End, NEW x \in Read(setup, {w}, k)[m + 1]
                 PROVE  Comes(m + 1, x)
        BY <2>1 DEF S
    <2>2. /\ m + 1 \in 1..End /\ (m + 1) - 1 = m /\ k + m <= End
          /\ (k + m) + 1 = k + (m + 1) /\ (k + m) + 1 \in 1..End /\ k + m \in Nat
        BY <1>1, <2>1
    <2>3. PICK u \in Read(setup, {w}, k)[(m + 1) - 1] : x \in StepWorld(setup, u, k + (m + 1))
        BY <2>2, ReadSteps
    <2>4. IsAfter(u, k + m) /\ Becomes(w, u)
        BY <2>1, <2>2, <2>3 DEF Comes
    <2>5. IsAfter(x, (k + m) + 1) /\ Becomes(u, x)
        BY <2>2, <2>3, <2>4, StepWorldIs
    <2>6. IsSub(w.state) /\ IsSub(u.state) /\ IsSub(x.state)
        BY <2>4, <2>5 DEF IsAfter
    <2>7. Becomes(w, x)
        BY <2>4, <2>5, <2>6, BecomesOn
    <2>. QED
        BY <2>2, <2>5, <2>7 DEF Comes
<1>4. n \in S
    <2> HIDE DEF S
    <2>1. S \subseteq Nat
        BY DEF S
    <2>. QED
        BY <1>2, <1>3, <2>1, Induction
<1>. QED
    BY <1>4

\* parse_statements before its first step.
StartState == DefineAll(NewSubState, setup.defines, 0)

LEMMA NewSubStateIs ==
    IsSub(NewSubState) /\ NewSubState.pos = 1 /\ NewSubState.build = NoBuild /\ NewSubState.settings = <<>>
<1>1. DOMAIN NewSubState = Fields
    BY DEF NewSubState, Fields
<1>2. NewSubState.settings = <<>> /\ NewSubState.pos = 1 /\ NewSubState.build = NoBuild
    BY DEF NewSubState
<1>3. IsList(NewSubState.settings)
    BY <1>2, EmptyList
<1>. QED
    BY <1>1, <1>2, <1>3 DEF IsSub

LEMMA StartStateIs ==
    IsSub(StartState) /\ StartState.pos = 1 /\ StartState.build = NoBuild /\ StartState.settings = <<>>
<1> DEFINE s == NewSubState
<1>1. IsSub(s) /\ s.pos = 1 /\ s.build = NoBuild /\ s.settings = <<>>
    BY NewSubStateIs
<1> HIDE DEF s
<1>2. StartState = DefineAll(s, setup.defines, 0)
    BY DEF StartState, s
<1> DEFINE t == StartState
<1> HIDE DEF t
<1>3. Follows(s, t) /\ SameChoices(s, t)
    BY <1>1, <1>2, DefineAllFollows DEF t
<1>4. IsSub(t) /\ t.pos = 1 /\ t.build = NoBuild /\ t.settings = <<>>
    BY <1>1, <1>3 DEF Follows, SameChoices
<1>. QED
    BY <1>4 DEF t

\* The first worlds are the forks of the targets.
LEMMA FirstWorldsAre ==
    ASSUME setup \in Setups
    PROVE  /\ \A w : w \in FirstWorlds(setup) <=>
                 \E v \in ToSet(setup.targets) : w = World(Way(Fork("target", StartState, v, 0), TRUE), {})
           /\ FirstWorlds(setup) # {}
<1> DEFINE W == Branch("target", Way(StartState, TRUE), setup.targets, 0)
           p == Way(StartState, TRUE)
<1>1. p.state = StartState /\ p.alive = TRUE
    BY WayIs
<1>2. IsList(setup.targets) /\ setup.targets # <<>>
    BY SetupIs
<1>3. FirstWorlds(setup) = {World(way, {}) : way \in Branch("target", p, setup.targets, 0)}
    BY DEF FirstWorlds, StartState
<1> HIDE DEF p
<1>4. Branch("target", p, setup.targets, 0) =
          {Way(Fork("target", StartState, v, 0), TRUE) : v \in ToSet(setup.targets)}
    BY <1>1, <1>2 DEF Branch
<1>5. setup.targets[1] \in ToSet(setup.targets)
    BY <1>2, FirstIsThere
<1>. QED
    BY <1>3, <1>4, <1>5

LEMMA FirstForkIs ==
    ASSUME NEW v
    PROVE  LET t == Fork("target", StartState, v, 0)
           IN  /\ IsSub(t) /\ t.pos = 1 /\ t.target = v /\ Agrees(t)
<1> DEFINE s == StartState
           t == Fork("target", s, v, 0)
<1>1. IsSub(s) /\ s.pos = 1 /\ s.build = NoBuild /\ s.settings = <<>>
    BY StartStateIs
<1> HIDE DEF s
<1>2. IsSub(t) /\ t.pos = 1 /\ t.target = v /\ t.build = NoBuild /\ t.settings = <<>>
    BY <1>1, TargetForkIs
<1> HIDE DEF t
<1>3. Len(t.settings) = 0
    BY <1>2, EmptyList
<1>4. Agrees(t)
    BY <1>2, <1>3 DEF Agrees, AgreesOn
<1>. QED
    BY <1>2, <1>4 DEF s, t

LEMMA FirstWorldIsAfter ==
    ASSUME setup \in Setups, NEW w \in FirstWorlds(setup)
    PROVE  IsAfter(w, 0)
<1>1. PICK v \in ToSet(setup.targets) : w = World(Way(Fork("target", StartState, v, 0), TRUE), {})
    BY FirstWorldsAre
<1> DEFINE t == Fork("target", StartState, v, 0)
           y == Way(t, TRUE)
<1>2. IsSub(t) /\ t.pos = 1
    BY FirstForkIs
<1> HIDE DEF t
<1>3. y.state = t /\ y.alive = TRUE
    BY WayIs
<1>4. w = World(y, {})
    BY <1>1 DEF t
<1> HIDE DEF y
<1>5. /\ w.state = Silent(t) /\ w.alive = TRUE
      /\ w = [state |-> w.state, alive |-> w.alive, said |-> w.said]
    BY <1>3, <1>4, WorldIs
<1>6. IsSub(Silent(t)) /\ Silent(t).pos = 0 + 1 /\ Silent(t).said = {}
    BY <1>2, SilentIs
<1>. QED
    BY <1>5, <1>6 DEF IsAfter

LEMMA StageIsAfter ==
    ASSUME setup \in Setups, NEW k \in 0..End, NEW w \in Stage(k)
    PROVE  IsAfter(w, k)
<1>1. End \in Nat /\ k \in Nat
    BY SetupIs
<1>2. PICK x \in FirstWorlds(setup) : w \in Read(setup, {x}, 0)[k]
    BY OneWorld DEF Stage
<1>3. IsAfter(x, 0)
    BY FirstWorldIsAfter
<1>4. 0 + k <= End /\ 0 + k = k
    BY <1>1
<1>5. IsAfter(w, 0 + k)
    BY <1>1, <1>2, <1>3, <1>4, ReadBecomes
<1>. QED
    BY <1>4, <1>5

LEMMA StageNext ==
    ASSUME setup \in Setups, NEW k \in Nat, k + 1 \in 1..End, NEW w \in Stage(k)
    PROVE  \A v \in StepWorld(setup, w, k + 1) : v \in Stage(k + 1)
<1>1. (k + 1) - 1 = k /\ 0 + (k + 1) = k + 1
    OBVIOUS
<1> SUFFICES ASSUME NEW v \in StepWorld(setup, w, k + 1)
             PROVE  v \in Read(setup, FirstWorlds(setup), 0)[k + 1]
    BY DEF Stage
<1>2. w \in Read(setup, FirstWorlds(setup), 0)[(k + 1) - 1] /\ v \in StepWorld(setup, w, 0 + (k + 1))
    BY <1>1 DEF Stage
<1>. QED
    BY <1>2, ReadSteps

\* Every world on the way reaches the end of the source.
LEMMA StageGoesOn ==
    ASSUME setup \in Setups, NEW k \in 0..End, NEW w \in Stage(k)
    PROVE  \E v \in Worlds : Becomes(w, v)
<1> DEFINE Comes(m) == \E v \in Stage(k + m) : Becomes(w, v)
           S == {m \in Nat : k + m <= End => Comes(m)}
<1>1. End \in Nat /\ k \in Nat
    BY SetupIs
<1>2. IsAfter(w, k)
    BY StageIsAfter
<1>3. 0 \in S
    <2>1. k + 0 = k
        BY <1>1
    <2>2. Len(w.state.settings) \in Nat
        BY <1>2, ListIs DEF IsAfter, IsSub
    <2>3. Becomes(w, w)
        BY <2>2 DEF Becomes, Descends
    <2>. QED
        BY <2>1, <2>3
<1>4. ASSUME NEW m \in S
      PROVE  m + 1 \in S
    <2>1. m \in Nat /\ (k + m <= End => Comes(m))
        OBVIOUS
    <2> HIDE DEF S, Comes
    <2> SUFFICES ASSUME k + (m + 1) <= End
                 PROVE  Comes(m + 1)
        BY <2>1 DEF S
    <2>2. /\ k + m <= End /\ k + m \in Nat /\ k + m \in 0..End
          /\ (k + m) + 1 \in 1..End /\ (k + m) + 1 = k + (m + 1) /\ (k + m) + 1 \in 0..End
        BY <1>1, <2>1
    <2>3. PICK u \in Stage(k + m) : Becomes(w, u)
        BY <2>1, <2>2 DEF Comes
    <2>4. IsAfter(u, k + m)
        BY <2>2, StageIsAfter
    <2>5. PICK v : v \in StepWorld(setup, u, (k + m) + 1)
        BY <2>2, <2>4, StepWorldIs
    <2>6. IsAfter(v, (k + m) + 1) /\ Becomes(u, v)
        BY <2>2, <2>4, <2>5, StepWorldIs
    <2>7. v \in Stage((k + m) + 1)
        BY <2>2, <2>5, StageNext
    <2>8. IsSub(w.state) /\ IsSub(u.state) /\ IsSub(v.state)
        BY <1>2, <2>4, <2>6 DEF IsAfter
    <2>9. Becomes(w, v)
        BY <2>3, <2>6, <2>8, BecomesOn
    <2>. QED
        BY <2>2, <2>7, <2>9 DEF Comes
<1>5. S = Nat
    <2> HIDE DEF S
    <2>1. S \subseteq Nat
        BY DEF S
    <2>. QED
        BY <1>3, <1>4, <2>1, Induction
<1>6. End - k \in Nat /\ k + (End - k) = End
    BY <1>1
<1>7. Comes(End - k)
    BY <1>5, <1>6
<1>. QED
    BY <1>6, <1>7 DEF Worlds, Stage, End, Statements

-----------------------------------------------------------------------------
(* What a step changes.  The source never does.                            *)

LEMMA SameSetup ==
    ASSUME setup' = setup
    PROVE  /\ End' = End /\ Worlds' = Worlds
           /\ \A k : Stage(k)' = Stage(k)
           /\ \A s, D : Future(s, D)' = Future(s, D)
           /\ \A w : Asked(w)' <=> Asked(w)
           /\ \A s : Agrees(s)' <=> Agrees(s)
           /\ ChoicesDiffer' <=> ChoicesDiffer
<1>1. Statements' = Statements
    BY DEF Statements
<1>2. End' = End
    BY <1>1 DEF End
<1>3. Worlds' = Worlds
    BY <1>1 DEF Worlds
<1>4. \A k : Stage(k)' = Stage(k)
    BY DEF Stage
<1>5. \A s, D : Future(s, D)' = Future(s, D)
    BY <1>2 DEF Future
<1>6. \A w : Asked(w)' <=> Asked(w)
    BY DEF Asked
<1>7. \A s : Agrees(s)' <=> Agrees(s)
    BY DEF Agrees, AgreesOn
<1>8. ChoicesDiffer' <=> ChoicesDiffer
    BY <1>1 DEF ChoicesDiffer
<1>. QED
    BY <1>2, <1>3, <1>4, <1>5, <1>6, <1>7, <1>8

LEMMA SameWorlds ==
    ASSUME setup' = setup
    PROVE  /\ \A s : IsWorldSoFar(s)' <=> IsWorldSoFar(s)
           /\ \A r : IsWanted(r)' <=> IsWanted(r)
           /\ \A d : IsReported(d)' <=> IsReported(d)
<1>1. \A s : IsWorldSoFar(s)' <=> IsWorldSoFar(s)
    BY SameSetup DEF IsWorldSoFar
<1>2. \A r : IsWanted(r)' <=> IsWanted(r)
    BY SameSetup DEF IsWanted
<1>3. \A d : IsReported(d)' <=> IsReported(d)
    BY SameSetup DEF IsReported
<1>. QED
    BY <1>1, <1>2, <1>3

\* m is l with x in place i.
IsReplaced(m, l, i, x) ==
    /\ IsList(m) /\ Len(m) = Len(l) /\ m[i] = x
    /\ \A j \in 1..Len(l) : j # i => m[j] = l[j]

LEMMA ListExcept ==
    ASSUME NEW l, IsList(l), NEW i \in 1..Len(l), NEW x
    PROVE  IsReplaced([l EXCEPT ![i] = x], l, i, x)
<1> DEFINE m == [l EXCEPT ![i] = x]
<1>1. Len(l) \in Nat /\ DOMAIN l = 1..Len(l)
    BY ListIs
<1> DEFINE n == Len(l)
<1>2. m = [j \in 1..n |-> IF j = i THEN x ELSE l[j]]
    BY <1>1
<1> HIDE DEF n
<1>3. m = [j \in 1..n |-> m[j]]
    BY <1>2
<1>4. IsList(m) /\ Len(m) = n
    BY <1>1, <1>3, ListOfFunction DEF n
<1>5. m[i] = x /\ \A j \in 1..n : j # i => m[j] = l[j]
    BY <1>2 DEF n
<1>. QED
    BY <1>4, <1>5 DEF n, IsReplaced

\* Sub-state i leaves heirs to read on and `ended` as its result, and has said D.
Hands(i, heirs, ended, D) ==
    /\ setup' = setup /\ finished' = finished /\ Len(active') = Len(active)
    /\ phase = "rounds" /\ phase' = "rounds"
    /\ \A j \in 1..Len(active) :
          j # i => Pends(j)' = Pends(j) /\ results'[j] = results[j] /\ Stands(j)' = Stands(j)
    /\ Pends(i)' = heirs
    /\ ToSet(results'[i]) = ended
    /\ recorded' = recorded \cup D

\* What it leaves is told apart.
Shares(i, left) ==
    /\ IsList(Stands(i)') /\ ToSet(Stands(i)') \subseteq left
    /\ ChoicesDiffer => ApartList(Stands(i)')

Heirs(r) == IF r.more THEN {Silent(x) : x \in Built(r)} ELSE {}

LEMMA RunningIs ==
    ASSUME Types, Running
    PROVE  /\ running \in 1..Len(active) /\ running \notin todo /\ running \in Waiting
           /\ forks[running] = <<>> /\ results[running] = <<>>
           /\ Pends(running) = {active[running]} /\ Stands(running) = <<active[running]>>
           /\ active[running].pos \in 1..(End + 1)
<1>1. running # 0 /\ running \in 1..Len(active) /\ running \notin todo
    BY DEF Types, Running
<1>2. running \in Waiting
    BY <1>1 DEF Waiting
<1>3. forks[running] = <<>> /\ results[running] = <<>> /\ active[running].pos \in 1..(End + 1)
    BY <1>1, <1>2 DEF Types
<1>. QED
    BY <1>1, <1>2, <1>3 DEF Pends, Stands

\* The forks of a round, as they are left.
Quiet(r) == [i \in 1..Len(r.new) |-> Silent(r.new[i])] \o <<Silent(r.self)>>

IsConcat(l, m, q) ==
    /\ IsList(q) /\ Len(q) = Len(l) + Len(m) /\ ToSet(q) = ToSet(l) \cup ToSet(m)
    /\ \A i \in 1..Len(l) : q[i] = l[i]
    /\ \A i \in 1..Len(m) : q[Len(l) + i] = m[i]

LEMMA QuietIs ==
    ASSUME NEW r, SubList(r.new), IsSub(r.self)
    PROVE  /\ IsList(Quiet(r)) /\ Len(Quiet(r)) = Len(r.new) + 1 /\ Quiet(r) # <<>>
           /\ ToSet(Quiet(r)) = {Silent(x) : x \in Built(r)}
           /\ ApartList(All(r)) => ApartList(Quiet(r))
<1> DEFINE n == Len(r.new)
           l == [i \in 1..n |-> Silent(r.new[i])]
           m == <<Silent(r.self)>>
           q == Quiet(r)
<1>1. n \in Nat /\ IsList(r.new)
    BY ListIs DEF SubList
<1>2. \A i \in 1..n : l[i] = Silent(r.new[i])
    OBVIOUS
<1>3. IsList(l) /\ Len(l) = n
    <2>1. l = [i \in 1..n |-> l[i]]
        OBVIOUS
    <2> HIDE DEF n, l
    <2>. QED
        BY <1>1, <2>1, ListOfFunction
<1>4. IsList(m) /\ Len(m) = 1 /\ m[1] = Silent(r.self) /\ ToSet(m) = {Silent(r.self)}
    BY SingletonList
<1>5. q = l \o m
    BY DEF Quiet
<1> HIDE DEF l, m, q
<1>6. /\ IsList(q) /\ Len(q) = Len(l) + Len(m) /\ ToSet(q) = ToSet(l) \cup ToSet(m)
      /\ \A i \in 1..Len(l) : q[i] = l[i]
      /\ \A i \in 1..Len(m) : q[Len(l) + i] = m[i]
    <2>1. IsList(l) /\ IsList(m)
        BY <1>3, <1>4
    <2>2. IsConcat(l, m, l \o m)
        BY <2>1, ConcatList DEF IsConcat
    <2>. QED
        BY <1>5, <2>2 DEF IsConcat
<1>7. Len(q) = n + 1 /\ q[n + 1] = Silent(r.self) /\ \A i \in 1..n : q[i] = Silent(r.new[i])
    BY <1>2, <1>3, <1>4, <1>6
<1>8. q # <<>>
    BY <1>1, <1>6, <1>7, EmptyList
<1>9. \A x : x \in ToSet(l) <=> \E y \in ToSet(r.new) : x = Silent(y)
    <2>1. \A x : x \in ToSet(l) <=> \E i \in 1..n : l[i] = x
        BY <1>3, ListIs
    <2>2. \A y : y \in ToSet(r.new) <=> \E i \in 1..n : r.new[i] = y
        BY <1>1, ListIs
    <2>. QED
        BY <1>2, <2>1, <2>2
<1>10. ToSet(q) = {Silent(x) : x \in Built(r)}
    BY <1>4, <1>6, <1>9 DEF Built
<1>11. ASSUME ApartList(All(r))
       PROVE  ApartList(q)
    <2>1. /\ ApartList(r.new)
          /\ \A x \in ToSet(r.new) : Apart(x, r.self) /\ Apart(r.self, x)
        BY <1>11, ApartAll
    <2>2. \A x \in Built(r) : IsSub(x) /\ IsSub(Silent(x)) /\ Descends(x, Silent(x))
        BY SilentIs DEF Built, SubList
    <2>3. \A x, y \in Built(r) : Apart(x, y) => Apart(Silent(x), Silent(y))
        <3> SUFFICES ASSUME NEW x \in Built(r), NEW y \in Built(r), Apart(x, y)
                     PROVE  Apart(Silent(x), Silent(y))
            OBVIOUS
        <3>1. /\ IsSub(x) /\ IsSub(Silent(x)) /\ Descends(x, Silent(x))
              /\ IsSub(y) /\ IsSub(Silent(y)) /\ Descends(y, Silent(y))
            BY <2>2
        <3> DEFINE x2 == Silent(x)
                   y2 == Silent(y)
        <3> HIDE DEF x2, y2
        <3>2. Apart(x2, y2)
            BY <3>1, ApartBoth DEF IsSub, x2, y2
        <3>. QED
            BY <3>2 DEF x2, y2
    <2>4. \A i \in 1..n : r.new[i] \in ToSet(r.new) /\ r.new[i] \in Built(r)
        BY <1>1, ListIs DEF Built
    <2>5. r.self \in Built(r)
        BY DEF Built
    <2> SUFFICES ASSUME NEW i \in 1..(n + 1), NEW j \in 1..(n + 1), i # j
                 PROVE  Apart(q[i], q[j])
        BY <1>7 DEF ApartList
    <2>6. /\ i \in 1..n \/ i = n + 1
          /\ j \in 1..n \/ j = n + 1
        BY <1>1
    <2>7. CASE i \in 1..n /\ j \in 1..n
        <3>1. Apart(r.new[i], r.new[j])
            BY <2>1, <2>7 DEF ApartList
        <3>. QED
            BY <1>7, <2>3, <2>4, <2>7, <3>1
    <2>8. CASE i \in 1..n /\ j = n + 1
        BY <1>7, <2>1, <2>3, <2>4, <2>5, <2>8
    <2>9. CASE i = n + 1 /\ j \in 1..n
        BY <1>7, <2>1, <2>3, <2>4, <2>5, <2>9
    <2>. QED
        BY <2>6, <2>7, <2>8, <2>9
<1>. QED
    BY <1>6, <1>7, <1>8, <1>10, <1>11 DEF q

-----------------------------------------------------------------------------
(* A sub-state's turn leaves the others of the round alone.                *)

Moves(i) ==
    /\ setup' = setup /\ finished' = finished /\ phase = "rounds" /\ phase' = "rounds"
    /\ todo' = todo /\ running' \in {0, i}
    /\ IsList(active') /\ IsList(forks') /\ IsList(results')
    /\ Len(active') = Len(active) /\ Len(forks') = Len(active) /\ Len(results') = Len(active)
    /\ \A j \in 1..Len(active) : j # i =>
          active'[j] = active[j] /\ forks'[j] = forks[j] /\ results'[j] = results[j]

Leaves(i) ==
    /\ active'[i].pos \in 1..(End + 1)
    /\ IsList(forks'[i]) /\ IsList(results'[i]) /\ Len(results'[i]) <= 1
    /\ forks'[i] = <<>> \/ results'[i] = <<>>
    /\ running' = i => forks'[i] = <<>> /\ results'[i] = <<>>
    /\ diags' \subseteq recorded'

LEMMA MovesKeeps ==
    ASSUME Types, Running, NEW i, i = running, Moves(i), Leaves(i)
    PROVE  /\ Types'
           /\ \A j \in 1..Len(active) :
                 j # i => Pends(j)' = Pends(j) /\ results'[j] = results[j] /\ Stands(j)' = Stands(j)
           /\ Pends(i)' = IF running' = i THEN {active'[i]} ELSE ToSet(forks'[i])
           /\ Stands(i)' = IF running' = i THEN <<active'[i]>>
                           ELSE IF forks'[i] # <<>> THEN forks'[i] ELSE results'[i]
<1>1. End' = End
    BY SameSetup DEF Moves
<1>2. i \in 1..Len(active) /\ i \notin todo /\ i # 0
    BY RunningIs DEF Running
<1>3. /\ \A j \in 1..Len(active) : j # i => (j \in Waiting' <=> j \in Waiting)
      /\ i \in Waiting' <=> running' = i
    BY <1>2 DEF Waiting, Moves
<1>4. Types'
    <2>1. \A j \in 1..Len(active) : j # i =>
              /\ active'[j].pos \in 1..(End + 1)
              /\ IsList(forks'[j]) /\ IsList(results'[j])
              /\ j \in Waiting' => forks'[j] = <<>> /\ results'[j] = <<>>
              /\ forks'[j] = <<>> \/ results'[j] = <<>>
              /\ Len(results'[j]) <= 1
        BY <1>3 DEF Moves, Types
    <2>2. \A j \in 1..Len(active) :
              /\ active'[j].pos \in 1..(End + 1)
              /\ IsList(forks'[j]) /\ IsList(results'[j])
              /\ j \in Waiting' => forks'[j] = <<>> /\ results'[j] = <<>>
              /\ forks'[j] = <<>> \/ results'[j] = <<>>
              /\ Len(results'[j]) <= 1
        BY <1>3, <2>1 DEF Leaves
    <2>3. running' \in {0} \cup ((1..Len(active)) \ todo)
        BY <1>2 DEF Moves
    <2>. QED
        BY <1>1, <2>2, <2>3 DEF Moves, Leaves, Types
<1>5. ASSUME NEW j \in 1..Len(active), j # i
      PROVE  Pends(j)' = Pends(j) /\ results'[j] = results[j] /\ Stands(j)' = Stands(j)
    BY <1>3, <1>5 DEF Pends, Stands, Moves
<1>6. Pends(i)' = IF running' = i THEN {active'[i]} ELSE ToSet(forks'[i])
    BY <1>3 DEF Pends
<1>7. Stands(i)' = IF running' = i THEN <<active'[i]>>
                   ELSE IF forks'[i] # <<>> THEN forks'[i] ELSE results'[i]
    BY <1>2, <1>3 DEF Stands
<1>. QED
    BY <1>4, <1>5, <1>6, <1>7

LEMMA InsertIs ==
    ASSUME NEW D, NEW S
    PROVE  /\ D \subseteq Insert(D, S) /\ Insert(D, S) \subseteq D \cup S
           /\ \A d \in S : Represented(d, Insert(D, S))
           /\ \A d : Represented(d, D) => Represented(d, Insert(D, S))
<1>1. D \subseteq Insert(D, S) /\ Insert(D, S) \subseteq D \cup S
    BY DEF Insert
<1>2. \A d \in S : Represented(d, Insert(D, S))
    BY DEF Insert, Represented
<1>3. \A d : Represented(d, D) => Represented(d, Insert(D, S))
    BY <1>1 DEF Represented
<1>. QED
    BY <1>1, <1>2, <1>3

LEMMA RecordIs ==
    ASSUME NEW D, Record(D), diags \subseteq recorded
    PROVE  /\ recorded' = recorded \cup D /\ diags' \subseteq recorded'
           /\ diags \subseteq diags' /\ \A d \in D : Represented(d, diags')
  BY InsertIs DEF Record

LEMMA AfterStepHands ==
    ASSUME Types, Running, NEW i, i = running, NEW W, NEW c, NEW r,
           Matches(r, W, c, ChoicesDiffer), c.pos \in 1..(End + 1), AfterStep(r)
    PROVE  /\ Types' /\ Hands(i, Heirs(r), {}, AllSaid(r))
           /\ Shares(i, Heirs(r))
<1>1. /\ i \in 1..Len(active) /\ i # 0 /\ i \notin todo /\ forks[i] = <<>> /\ results[i] = <<>>
    BY RunningIs DEF Running
<1>2. /\ SubList(r.new) /\ IsSub(r.self) /\ r.self.pos = c.pos /\ r.more \in BOOLEAN
      /\ ~r.more => r.new = <<>> /\ r.self.build = NoBuild
      /\ ChoicesDiffer => ApartList(All(r))
    BY DEF Matches
<1>3. IsSub(Silent(r.self)) /\ Silent(r.self).pos = c.pos
    BY <1>2, SilentIs
<1>4. /\ recorded' = recorded \cup AllSaid(r) /\ diags' \subseteq recorded'
    BY RecordIs DEF AfterStep, Types
<1>5. /\ setup' = setup /\ todo' = todo /\ finished' = finished
      /\ active' = [active EXCEPT ![i] = Silent(r.self)]
    BY DEF AfterStep
<1>6. /\ IsList(active) /\ IsList(forks) /\ IsList(results)
      /\ Len(forks) = Len(active) /\ Len(results) = Len(active) /\ phase = "rounds"
    BY DEF Types, Running
<1>7. /\ IsList(active') /\ Len(active') = Len(active) /\ active'[i] = Silent(r.self)
      /\ \A j \in 1..Len(active) : j # i => active'[j] = active[j]
    <2>1. IsReplaced(active', active, i, Silent(r.self))
        BY <1>1, <1>5, <1>6, ListExcept
    <2>. QED
        BY <2>1 DEF IsReplaced
<1>8. ChoicesDiffer' <=> ChoicesDiffer
    BY <1>5, SameSetup
<1>9. /\ IsList(<<>>) /\ Len(<<>>) = 0 /\ ToSet(<<>>) = {}
    BY EmptyList
<1>10. /\ IsList(Quiet(r)) /\ Quiet(r) # <<>> /\ ToSet(Quiet(r)) = {Silent(x) : x \in Built(r)}
       /\ ApartList(All(r)) => ApartList(Quiet(r))
    BY <1>2, QuietIs
<1>11. CASE r.more /\ r.new = <<>>
    <2>1. /\ forks' = [forks EXCEPT ![i] = <<>>] /\ running' = i
          /\ results' = results /\ phase' = phase
        BY <1>11 DEF AfterStep
    <2>2. /\ IsList(forks') /\ Len(forks') = Len(active) /\ forks'[i] = <<>>
          /\ \A j \in 1..Len(active) : j # i => forks'[j] = forks[j]
        <3>1. IsReplaced(forks', forks, i, <<>>)
            BY <1>1, <1>6, <2>1, ListExcept
        <3>. QED
            BY <1>6, <3>1 DEF IsReplaced
    <2>3. Moves(i)
        BY <1>5, <1>6, <1>7, <2>1, <2>2 DEF Moves
    <2>4. Leaves(i)
        BY <1>1, <1>3, <1>4, <1>7, <1>9, <2>1, <2>2 DEF Leaves
    <2>5. /\ Types'
          /\ \A j \in 1..Len(active) :
                j # i => Pends(j)' = Pends(j) /\ results'[j] = results[j] /\ Stands(j)' = Stands(j)
          /\ Pends(i)' = {active'[i]} /\ Stands(i)' = <<active'[i]>>
        BY <2>1, <2>3, <2>4, MovesKeeps
    <2>6. Built(r) = {r.self}
        BY <1>9, <1>11 DEF Built
    <2>7. Heirs(r) = {Silent(r.self)} /\ {Silent(x) : x \in Built(r)} = {Silent(r.self)}
        BY <1>11, <2>6 DEF Heirs
    <2>8. results'[i] = <<>>
        BY <1>1, <2>1
    <2>9. Hands(i, Heirs(r), {}, AllSaid(r))
        BY <1>4, <1>5, <1>6, <1>7, <1>9, <2>1, <2>5, <2>7, <2>8 DEF Hands
    <2> DEFINE t == Silent(r.self)
               l == Stands(i)'
    <2>10. l = <<t>>
        BY <1>7, <2>5
    <2> HIDE DEF t, l
    <2>11. IsList(l) /\ ToSet(l) = {t} /\ Len(l) = 1
        BY <2>10, SingletonList
    <2>12. ApartList(l)
        BY <2>11 DEF ApartList
    <2>13. Shares(i, Heirs(r))
        BY <2>7, <2>11, <2>12 DEF Shares, t, l, ApartList
    <2>. QED
        BY <2>5, <2>9, <2>13
<1>12. CASE r.more /\ r.new # <<>>
    <2>1. /\ forks' = [forks EXCEPT ![i] = Quiet(r)] /\ running' = 0
          /\ results' = results /\ phase' = phase
        BY <1>12 DEF AfterStep, Quiet
    <2>2. /\ IsList(forks') /\ Len(forks') = Len(active) /\ forks'[i] = Quiet(r)
          /\ \A j \in 1..Len(active) : j # i => forks'[j] = forks[j]
        <3>1. IsReplaced(forks', forks, i, Quiet(r))
            BY <1>1, <1>6, <2>1, ListExcept
        <3>. QED
            BY <1>6, <3>1 DEF IsReplaced
    <2>3. Moves(i)
        BY <1>5, <1>6, <1>7, <2>1, <2>2 DEF Moves
    <2>4. Leaves(i)
        BY <1>1, <1>3, <1>4, <1>7, <1>9, <1>10, <2>1, <2>2 DEF Leaves
    <2>5. /\ Types'
          /\ \A j \in 1..Len(active) :
                j # i => Pends(j)' = Pends(j) /\ results'[j] = results[j] /\ Stands(j)' = Stands(j)
          /\ Pends(i)' = ToSet(Quiet(r)) /\ Stands(i)' = Quiet(r)
        BY <1>1, <1>10, <2>1, <2>2, <2>3, <2>4, MovesKeeps
    <2>6. Heirs(r) = {Silent(x) : x \in Built(r)}
        BY <1>12 DEF Heirs
    <2>7. results'[i] = <<>>
        BY <1>1, <2>1
    <2>8. Hands(i, Heirs(r), {}, AllSaid(r))
        BY <1>4, <1>5, <1>6, <1>7, <1>9, <1>10, <2>1, <2>5, <2>6, <2>7 DEF Hands
    <2>9. Shares(i, Heirs(r))
        BY <1>2, <1>8, <1>10, <2>5, <2>6 DEF Shares, ApartList
    <2>. QED
        BY <2>5, <2>8, <2>9
<1>13. CASE ~r.more
    <2>1. r.new = <<>> /\ r.self.build = NoBuild /\ Finish(r.self) = <<>>
        BY <1>2, <1>13 DEF Finish
    <2>2. /\ results' = [results EXCEPT ![i] = <<>>] /\ running' = 0
          /\ forks' = forks /\ phase' = phase
        BY <1>13, <2>1 DEF AfterStep
    <2>3. /\ IsList(results') /\ Len(results') = Len(active) /\ results'[i] = <<>>
          /\ \A j \in 1..Len(active) : j # i => results'[j] = results[j]
        <3>1. IsReplaced(results', results, i, <<>>)
            BY <1>1, <1>6, <2>2, ListExcept
        <3>. QED
            BY <1>6, <3>1 DEF IsReplaced
    <2>4. Moves(i)
        BY <1>5, <1>6, <1>7, <2>2, <2>3 DEF Moves
    <2>5. Leaves(i)
        BY <1>1, <1>3, <1>4, <1>7, <1>9, <2>2, <2>3 DEF Leaves
    <2>6. /\ Types'
          /\ \A j \in 1..Len(active) :
                j # i => Pends(j)' = Pends(j) /\ results'[j] = results[j] /\ Stands(j)' = Stands(j)
          /\ Pends(i)' = ToSet(<<>>) /\ Stands(i)' = <<>>
        BY <1>1, <2>2, <2>3, <2>4, <2>5, MovesKeeps
    <2>7. Heirs(r) = {}
        BY <1>13 DEF Heirs
    <2>8. Hands(i, Heirs(r), {}, AllSaid(r))
        BY <1>4, <1>5, <1>6, <1>7, <1>9, <2>2, <2>3, <2>6, <2>7 DEF Hands
    <2>9. ApartList(<<>>)
        BY <1>9 DEF ApartList
    <2>10. Shares(i, Heirs(r))
        BY <1>9, <2>6, <2>9 DEF Shares, ApartList
    <2>. QED
        BY <2>6, <2>8, <2>10
<1>. QED
    BY <1>2, <1>11, <1>12, <1>13

-----------------------------------------------------------------------------
(* What a statement does to a build that is one of the worlds so far: its  *)
(* heirs are worlds so far, what it said is said in some world, and the    *)
(* worlds it could become are those its heirs can become.                  *)

LEMMA WorldSoFarIs ==
    ASSUME setup \in Setups, NEW s, IsWorldSoFar(s)
    PROVE  /\ IsSub(s) /\ s.said = {} /\ Agrees(s) /\ s.pos \in 1..(End + 1)
           /\ s.pos - 1 \in 0..End /\ s.pos - 1 \in Nat /\ (s.pos - 1) + 1 = s.pos
           /\ \E w \in Stage(s.pos - 1) : w.alive /\ w.state = s
<1>1. s.pos \in 1..(End + 1)
    BY DEF IsWorldSoFar
<1> DEFINE p == s.pos
<1>2. End \in Nat /\ p \in 1..(End + 1)
    BY <1>1, SetupIs
<1> HIDE DEF p
<1>3. p - 1 \in 0..End /\ p - 1 \in Nat /\ (p - 1) + 1 = p
    BY <1>2
<1>. QED
    BY <1>3 DEF IsWorldSoFar, p

\* The world that s comes from.
IsOrigin(u, s) == u \in Stage(s.pos - 1) /\ u.alive /\ u.state = s /\ IsAfter(u, s.pos - 1)

LEMMA OriginIs ==
    ASSUME setup \in Setups, NEW s, IsWorldSoFar(s)
    PROVE  \E u : IsOrigin(u, s)
<1>1. PICK u \in Stage(s.pos - 1) : u.alive /\ u.state = s
    BY WorldSoFarIs
<1>2. s.pos - 1 \in 0..End
    BY WorldSoFarIs
<1>3. IsAfter(u, s.pos - 1)
    BY <1>2, StageIsAfter
<1>. QED
    BY <1>1, <1>3 DEF IsOrigin

LEMMA WayGoesOn ==
    ASSUME setup \in Setups, NEW s, IsWorldSoFar(s), s.pos \in 1..End,
           NEW u, IsOrigin(u, s), NEW y \in Ways(setup, s, s.pos)
    PROVE  World(y, u.said) \in Stage(s.pos)
<1>1. /\ s.pos - 1 \in Nat /\ (s.pos - 1) + 1 = s.pos
    BY WorldSoFarIs
<1>2. World(y, u.said) \in StepWorld(setup, u, s.pos)
    BY DEF StepWorld, IsOrigin
<1> DEFINE k == s.pos - 1
           v == World(y, u.said)
<1>3. /\ k \in Nat /\ k + 1 = s.pos /\ k + 1 \in 1..End /\ u \in Stage(k)
      /\ v \in StepWorld(setup, u, k + 1)
    BY <1>1, <1>2 DEF IsOrigin
<1> HIDE DEF k, v
<1>4. v \in Stage(k + 1)
    BY <1>3, StageNext
<1>. QED
    BY <1>3, <1>4 DEF v

LEMMA SaidIsReported ==
    ASSUME setup \in Setups, NEW k \in 0..End, NEW v \in Stage(k), NEW d \in v.said
    PROVE  IsReported(d)
<1>1. PICK w \in Worlds : Becomes(v, w)
    BY StageGoesOn
<1>. QED
    BY <1>1 DEF Becomes, IsReported, Reports

LEMMA StepKeeps ==
    ASSUME setup \in Setups, NEW s, IsWorldSoFar(s), s.pos \in 1..End,
           NEW r, Matches(r, Ways(setup, s, s.pos), Past(s, s.pos), ChoicesDiffer)
    PROVE  /\ \A x \in Heirs(r) : IsWorldSoFar(x) /\ Descends(s, x)
           /\ \A d \in AllSaid(r) : IsReported(d)
<1> DEFINE p == s.pos
           c == Past(s, p)
           W == Ways(setup, s, p)
<1>1. IsSub(s) /\ End \in Nat
    BY WorldSoFarIs, SetupIs
<1>2. p \in 1..End /\ p \in 0..End /\ p + 1 \in 1..(End + 1) /\ (p + 1) - 1 = p
    BY <1>1
<1>3. Leads(c, W)
    BY <1>1, WaysLead
<1>4. IsSub(c) /\ c.pos = p + 1 /\ Descends(s, c)
    BY <1>1, PastIs
<1>5. PICK u : IsOrigin(u, s)
    BY OriginIs
<1>6. \A y \in W : World(y, u.said) \in Stage(p)
    BY <1>5, WayGoesOn
<1> HIDE DEF p, c, W
<1>7. /\ r.more => \A t \in Built(r) : Way(t, TRUE) \in W /\ Agrees(t)
      /\ \A d \in AllSaid(r) : \E y \in W : d \in y.state.said
    BY DEF Matches, W, c, p
<1>8. ASSUME NEW x \in Heirs(r)
      PROVE  IsWorldSoFar(x) /\ Descends(s, x)
    <2>1. r.more /\ \E t \in Built(r) : x = Silent(t)
        BY DEF Heirs
    <2>2. PICK t \in Built(r) : x = Silent(t)
        BY <2>1
    <2>3. Way(t, TRUE) \in W /\ Agrees(t)
        BY <1>7, <2>1
    <2>4. PICK y : y = Way(t, TRUE)
        OBVIOUS
    <2>5. y.state = t /\ y.alive = TRUE
        BY <2>4, WayIs
    <2>6. Follows(c, t)
        BY <1>3, <2>3, <2>4, <2>5 DEF Leads
    <2>7. IsSub(t) /\ t.pos = p + 1 /\ Descends(c, t)
        BY <1>4, <2>6 DEF Follows
    <2>8. /\ IsSub(x) /\ x.pos = p + 1 /\ x.said = {} /\ SameChoices(t, x) /\ Descends(t, x)
        BY <2>2, <2>7, SilentIs
    <2>9. Descends(s, t)
        BY <1>1, <1>4, <2>7, DescendsOn
    <2>10. Descends(s, x)
        BY <1>1, <2>7, <2>8, <2>9, DescendsOn
    <2>11. Agrees(x)
        BY <2>3, <2>8, SameAgrees
    <2>12. PICK v : v = World(y, u.said)
        OBVIOUS
    <2>13. v \in Stage(p) /\ v.state = x /\ v.alive
        <3>1. v \in Stage(p)
            BY <1>6, <2>3, <2>4, <2>12
        <3>2. v.state = Silent(y.state) /\ v.alive = y.alive
            BY <2>12, WorldIs
        <3>. QED
            BY <2>2, <2>5, <3>1, <3>2
    <2>14. x.pos \in 1..(End + 1) /\ x.pos - 1 = p
        BY <1>2, <2>8
    <2>15. IsWorldSoFar(x)
        BY <2>8, <2>11, <2>13, <2>14 DEF IsWorldSoFar
    <2>. QED
        BY <2>10, <2>15
<1>9. ASSUME NEW d \in AllSaid(r)
      PROVE  IsReported(d)
    <2>1. PICK y \in W : d \in y.state.said
        BY <1>7
    <2>2. PICK v : v = World(y, u.said)
        OBVIOUS
    <2>3. v \in Stage(p) /\ d \in v.said
        BY <1>6, <2>1, <2>2, WorldIs
    <2>. QED
        BY <1>2, <2>3, SaidIsReported
<1>. QED
    BY <1>8, <1>9

\* The worlds that s, having said E, could become are those of its heirs, or are ruled out.
ComesTo(s, E, heirs, D) ==
    \A w \in Future(s, E) : Asked(w) => \E x \in heirs : \E E2 \in SUBSET (E \cup D) : w \in Future(x, E2)

LEMMA AskedAgrees ==
    ASSUME NEW w, Asked(w)
    PROVE  w.alive /\ Agrees(w.state)
  BY DEF Asked, Agrees, AgreesOn

LEMMA StepComesTo ==
    ASSUME setup \in Setups, NEW s, IsWorldSoFar(s), s.pos \in 1..End,
           NEW r, Matches(r, Ways(setup, s, s.pos), Past(s, s.pos), ChoicesDiffer), NEW E
    PROVE  ComesTo(s, E, Heirs(r), AllSaid(r))
<1> DEFINE p == s.pos
           c == Past(s, p)
           W == Ways(setup, s, p)
           w0 == [state |-> s, alive |-> TRUE, said |-> E]
           k == p - 1
           n == End - p
<1>1. IsSub(s) /\ End \in Nat /\ s.said = {}
    BY WorldSoFarIs, SetupIs
<1>2. /\ p \in 1..End /\ k \in Nat /\ k + 1 = p /\ k + 1 \in 1..End /\ n \in Nat /\ n + 1 <= End
      /\ End - k = n + 1 /\ p + n <= End /\ p \in Nat /\ (p + 1) - 1 = p
    BY <1>1
<1>3. IsAfter(w0, k)
    <2>1. w0.state = s /\ w0.alive = TRUE /\ w0 = [state |-> w0.state, alive |-> w0.alive, said |-> w0.said]
        OBVIOUS
    <2> HIDE DEF w0, k, n
    <2>. QED
        BY <1>1, <1>2, <2>1 DEF IsAfter
<1>4. Leads(c, W) /\ IsSub(c) /\ c.pos = p + 1
    BY <1>1, <1>2, WaysLead, PastIs
<1>5. \A y \in W : y.alive /\ Agrees(y.state) => r.more /\ y.state \in Built(r)
    BY DEF Matches
<1>6. StepWorld(setup, w0, p) = {World(y, E) : y \in W}
    BY DEF StepWorld
<1>7. IsList(r.new)
    BY DEF Matches, SubList
<1> SUFFICES ASSUME NEW w \in Future(s, E), Asked(w)
             PROVE  \E x \in Heirs(r) : \E E2 \in SUBSET (E \cup AllSaid(r)) : w \in Future(x, E2)
    BY DEF ComesTo
<1>8. w \in Read(setup, {w0}, k)[n + 1]
    BY <1>2 DEF Future
<1> HIDE DEF p, c, W, w0, k, n
<1>9. PICK x \in StepWorld(setup, w0, k + 1) : w \in Read(setup, {x}, k + 1)[n]
    BY <1>2, <1>8, FirstStep
<1>10. PICK y \in W : x = World(y, E)
    BY <1>2, <1>6, <1>9
<1>11. IsAfter(x, p)
    BY <1>2, <1>3, <1>9, StepWorldIs
<1>12. w \in Read(setup, {x}, p)[n]
    BY <1>2, <1>9
<1>13. IsAfter(w, p + n) /\ Becomes(x, w)
    BY <1>2, <1>11, <1>12, ReadBecomes
<1>14. /\ x.state = Silent(y.state) /\ x.said = E \cup y.state.said
    BY <1>10, WorldIs
<1>15. x.alive = y.alive
    BY <1>10, WorldIs
<1>16. x = [state |-> x.state, alive |-> x.alive, said |-> x.said]
    BY <1>11 DEF IsAfter
<1>17. w.alive /\ Agrees(w.state)
    BY AskedAgrees
<1>18. x.alive /\ IsSub(x.state) /\ IsSub(w.state) /\ Descends(x.state, w.state)
    BY <1>11, <1>13, <1>17 DEF IsAfter, Becomes
<1>19. Agrees(x.state)
    BY <1>17, <1>18, DescendsAgrees
<1>20. Follows(c, y.state) /\ y.alive \in BOOLEAN
    BY <1>4 DEF Leads
<1>21. IsSub(y.state) /\ y.state.pos = p + 1
    BY <1>4, <1>20 DEF Follows
<1>22. SameChoices(y.state, x.state) /\ x.state.pos = p + 1
    BY <1>14, <1>21, SilentIs
<1>23. Agrees(y.state)
    BY <1>19, <1>22, SameAgrees
<1>24. r.more /\ y.state \in Built(r)
    BY <1>5, <1>15, <1>18, <1>23
<1>25. x.state \in Heirs(r)
    BY <1>14, <1>24 DEF Heirs
<1>26. x.said \in SUBSET (E \cup AllSaid(r))
    BY <1>7, <1>14, <1>24, AllSaidIs
<1>27. x.alive = TRUE
    BY <1>11, <1>18 DEF IsAfter
<1>28. w \in Future(x.state, x.said)
    <2>1. {x} = {[state |-> x.state, alive |-> TRUE, said |-> x.said]}
        BY <1>16, <1>27
    <2>2. x.state.pos - 1 = p
        BY <1>2, <1>22
    <2>3. End - p = n
        BY DEF n
    <2>. QED
        BY <1>12, <2>1, <2>2, <2>3 DEF Future
<1>. QED
    BY <1>25, <1>26, <1>28

-----------------------------------------------------------------------------
(* The end of the input: the world is the build itself.                    *)

EndSaid(s) ==
    ToSet(EndReports(s.activity)) \cup
    When(HasCode(s) /\ ~s.versioned, [kind |-> "MissingModVersion"]) \cup
    When(HasCode(s) /\ s.build = NoBuild, [kind |-> "MissingBuildId"])

LEMMA FinishIs ==
    ASSUME NEW s
    PROVE  /\ s.build = NoBuild => Finish(s) = <<>>
           /\ \A x \in ToSet(Finish(s)) :
                 x.target = s.target /\ x.build = s.build /\ x.settings = s.settings
           /\ IsList(Finish(s)) /\ Len(Finish(s)) <= 1 /\ ApartList(Finish(s))
<1>1. CASE s.build = NoBuild
    <2>1. Finish(s) = <<>>
        BY <1>1 DEF Finish
    <2>. QED
        BY <2>1, EmptyList DEF ApartList
<1>2. CASE s.build # NoBuild
    <2>1. PICK x : /\ Finish(s) = <<x>>
                   /\ x.target = s.target /\ x.build = s.build /\ x.settings = s.settings
        BY <1>2 DEF Finish
    <2>2. IsList(<<x>>) /\ ToSet(<<x>>) = {x} /\ Len(<<x>>) = 1
        BY SingletonList
    <2>. QED
        BY <1>2, <2>1, <2>2 DEF ApartList
<1>. QED
    BY <1>1, <1>2

LEMMA EndKeeps ==
    ASSUME setup \in Setups, NEW s, IsWorldSoFar(s), s.pos = End + 1
    PROVE  /\ \A x \in ToSet(Finish(s)) : IsWanted(x) /\ IsList(x.settings) /\ Descends(s, x)
           /\ \A d \in EndSaid(s) : IsReported(d)
<1>1. PICK u : IsOrigin(u, s)
    BY OriginIs
<1>2. (End + 1) - 1 = End /\ End \in Nat
    BY SetupIs
<1>3. Worlds = Stage(End)
    BY DEF Worlds, Stage, End
<1>4. u \in Worlds /\ u.alive /\ u.state = s
    BY <1>1, <1>2, <1>3 DEF IsOrigin
<1>5. IsSub(s) /\ Agrees(s)
    BY WorldSoFarIs
<1>6. Len(s.settings) \in Nat /\ IsList(s.settings)
    BY <1>5, ListIs DEF IsSub
<1>7. s.build # NoBuild => Asked(u)
    BY <1>4, <1>5 DEF Agrees, AgreesOn, Asked
<1>8. ASSUME NEW x \in ToSet(Finish(s))
      PROVE  IsWanted(x) /\ IsList(x.settings) /\ Descends(s, x)
    <2>1. s.build # NoBuild
        BY <1>8, FinishIs, EmptyList
    <2>2. x.target = s.target /\ x.build = s.build /\ x.settings = s.settings
        BY <1>8, FinishIs
    <2>3. IsWanted(x)
        BY <1>4, <1>7, <1>8, <2>1 DEF IsWanted
    <2>. QED
        BY <1>6, <2>2, <2>3 DEF Descends
<1>9. ASSUME NEW d \in EndSaid(s)
      PROVE  IsReported(d)
    <2>1. d \in Reports(u)
        BY <1>4 DEF EndSaid, Reports
    <2>. QED
        BY <1>4, <2>1 DEF IsReported
<1>. QED
    BY <1>8, <1>9

LEMMA EndFuture ==
    ASSUME setup \in Setups, NEW s, s.pos = End + 1, NEW E, NEW w \in Future(s, E), Asked(w)
    PROVE  Reports(w) = E \cup EndSaid(s) /\ Finish(w.state) = Finish(s)
<1> DEFINE w0 == [state |-> s, alive |-> TRUE, said |-> E]
<1>1. End \in Nat
    BY SetupIs
<1>2. s.pos - 1 = End /\ End - (s.pos - 1) = 0
    BY <1>1
<1>3. Future(s, E) = Read(setup, {w0}, End)[0]
    BY <1>2 DEF Future
<1>4. w0.state = s /\ w0.alive = TRUE /\ w0.said = E
    OBVIOUS
<1> HIDE DEF w0
<1>5. Read(setup, {w0}, End)[0] = {w0}
    BY ReadSteps
<1>6. w = w0
    BY <1>3, <1>5
<1>. QED
    BY <1>4, <1>6 DEF Reports, EndSaid

LEMMA EndHands ==
    ASSUME Types, Running, NEW i, i = running, NEW s, s = active[i], EndOfInput
    PROVE  /\ Types' /\ Hands(i, {}, ToSet(Finish(s)), EndSaid(s))
           /\ Shares(i, ToSet(Finish(s)))
<1>1. /\ i \in 1..Len(active) /\ i # 0 /\ i \notin todo /\ forks[i] = <<>> /\ results[i] = <<>>
      /\ active[i].pos \in 1..(End + 1)
    BY RunningIs DEF Running
<1>2. Current = s
    BY DEF Current
<1>3. /\ setup' = setup /\ todo' = todo /\ finished' = finished
      /\ active' = active /\ forks' = forks /\ phase' = phase /\ running' = 0
      /\ results' = [results EXCEPT ![i] = Finish(s)]
    BY <1>2 DEF EndOfInput
<1> DEFINE open    == ToSet(EndReports(s.activity))
           version == When(HasCode(s) /\ ~s.versioned, [kind |-> "MissingModVersion"])
           build   == When(HasCode(s) /\ s.build = NoBuild, [kind |-> "MissingBuildId"])
<1>4. /\ recorded' = recorded \cup open \cup version \cup build
      /\ diags' = Insert(Insert(Insert(diags, open), version), build)
    BY <1>2 DEF EndOfInput
<1>5. EndSaid(s) = open \cup version \cup build
    BY DEF EndSaid
<1> HIDE DEF open, version, build
<1>6. recorded' = recorded \cup EndSaid(s)
    BY <1>4, <1>5
<1>7. diags' \subseteq recorded'
    <2>1. diags \subseteq recorded
        BY DEF Types
    <2>. QED
        BY <1>4, <2>1, InsertIs
<1>8. /\ IsList(active) /\ IsList(forks) /\ IsList(results)
      /\ Len(forks) = Len(active) /\ Len(results) = Len(active) /\ phase = "rounds"
    BY DEF Types, Running
<1>9. /\ IsList(results') /\ Len(results') = Len(active) /\ results'[i] = Finish(s)
      /\ \A j \in 1..Len(active) : j # i => results'[j] = results[j]
    <2>1. IsReplaced(results', results, i, Finish(s))
        BY <1>1, <1>3, <1>8, ListExcept
    <2>. QED
        BY <1>8, <2>1 DEF IsReplaced
<1>10. IsList(Finish(s)) /\ Len(Finish(s)) <= 1 /\ ApartList(Finish(s))
    BY FinishIs
<1>11. Moves(i)
    BY <1>3, <1>8, <1>9 DEF Moves
<1>12. Leaves(i)
    BY <1>1, <1>3, <1>7, <1>9, <1>10, EmptyList DEF Leaves
<1>13. /\ Types'
       /\ \A j \in 1..Len(active) :
             j # i => Pends(j)' = Pends(j) /\ results'[j] = results[j] /\ Stands(j)' = Stands(j)
       /\ Pends(i)' = ToSet(<<>>) /\ Stands(i)' = Finish(s)
    BY <1>1, <1>3, <1>9, <1>11, <1>12, MovesKeeps
<1>14. Hands(i, {}, ToSet(Finish(s)), EndSaid(s))
    BY <1>3, <1>6, <1>8, <1>9, <1>13, EmptyList DEF Hands
<1>15. Shares(i, ToSet(Finish(s)))
    BY <1>10, <1>13 DEF Shares, ApartList
<1>. QED
    BY <1>13, <1>14, <1>15

-----------------------------------------------------------------------------
(* One turn of the round: what it must do for the invariant to go on.      *)

LEMMA WantedIs ==
    ASSUME setup \in Setups, NEW r, IsWanted(r)
    PROVE  IsList(r.settings)
<1>1. PICK w \in Worlds : r \in ToSet(Finish(w.state))
    BY DEF IsWanted
<1>2. Worlds = Stage(End) /\ End \in 0..End
    BY SetupIs DEF Worlds, Stage, End
<1>3. IsAfter(w, End)
    BY <1>1, <1>2, StageIsAfter
<1>4. IsList(w.state.settings)
    BY <1>3 DEF IsAfter, IsSub
<1>. QED
    BY <1>1, <1>4, FinishIs

LEMMA StandsAre ==
    ASSUME Types, Sound, NEW j \in 0..Len(active)
    PROVE  /\ IsList(Stands(j))
           /\ \A x \in ToSet(Stands(j)) : IsList(x.settings)
<1>1. \A s \in Pending : IsList(s.settings)
    BY WorldSoFarIs DEF Sound, Types, IsSub
<1>2. \A r \in Results : IsList(r.settings)
    BY WantedIs DEF Sound, Types
<1>3. Len(active) \in Nat
    BY ListIs DEF Types
<1>4. CASE j = 0
    <2>1. Stands(j) = finished
        BY <1>4 DEF Stands
    <2>2. ToSet(finished) \subseteq Results
        BY DEF Results
    <2>. QED
        BY <1>2, <2>1, <2>2 DEF Types
<1>5. CASE j # 0
    <2>1. j \in 1..Len(active)
        BY <1>3, <1>5
    <2>2. Pends(j) \subseteq Pending /\ ToSet(results[j]) \subseteq Results
        BY <2>1 DEF Pending, Results
    <2>3. CASE j \in Waiting
        <3>1. Stands(j) = <<active[j]>> /\ active[j] \in Pends(j)
            BY <1>5, <2>3 DEF Stands, Pends
        <3>2. IsList(<<active[j]>>) /\ ToSet(<<active[j]>>) = {active[j]}
            BY SingletonList
        <3>. QED
            BY <1>1, <2>2, <3>1, <3>2
    <2>4. CASE j \notin Waiting /\ forks[j] # <<>>
        <3>1. Stands(j) = forks[j] /\ ToSet(forks[j]) = Pends(j)
            BY <1>5, <2>4 DEF Stands, Pends
        <3>2. IsList(forks[j])
            BY <2>1 DEF Types
        <3>. QED
            BY <1>1, <2>2, <3>1, <3>2
    <2>5. CASE j \notin Waiting /\ forks[j] = <<>>
        <3>1. Stands(j) = results[j]
            BY <1>5, <2>5 DEF Stands
        <3>2. IsList(results[j])
            BY <2>1 DEF Types
        <3>. QED
            BY <1>2, <2>2, <3>1, <3>2
    <2>. QED
        BY <2>3, <2>4, <2>5
<1>. QED
    BY <1>4, <1>5

LEMMA TurnSound ==
    ASSUME Types, Sound, NEW i \in 1..Len(active), NEW heirs, NEW ended, NEW D,
           Hands(i, heirs, ended, D), \A x \in heirs : IsWorldSoFar(x),
           \A x \in ended : IsWanted(x), \A d \in D : IsReported(d)
    PROVE  Sound'
<1>1. setup' = setup /\ Len(active') = Len(active)
    BY DEF Hands
<1>2. /\ \A s : IsWorldSoFar(s)' <=> IsWorldSoFar(s)
      /\ \A r : IsWanted(r)' <=> IsWanted(r)
      /\ \A d : IsReported(d)' <=> IsReported(d)
    BY <1>1, SameWorlds
<1>3. ASSUME NEW s \in Pending'
      PROVE  IsWorldSoFar(s)
    <2>1. PICK j \in 1..Len(active) : s \in Pends(j)'
        BY <1>1 DEF Pending
    <2>2. s \in Pends(j) \/ s \in heirs
        BY <2>1 DEF Hands
    <2>3. s \in Pending \/ s \in heirs
        BY <2>1, <2>2 DEF Pending
    <2>. QED
        BY <2>3 DEF Sound
<1>4. ASSUME NEW r \in Results'
      PROVE  IsWanted(r)
    <2>1. r \in ToSet(finished) \/ \E j \in 1..Len(active) : r \in ToSet(results'[j])
        BY <1>1 DEF Results, Hands
    <2>2. CASE r \in ToSet(finished)
        BY <2>2 DEF Results, Sound
    <2>3. CASE \E j \in 1..Len(active) : r \in ToSet(results'[j])
        <3>1. PICK j \in 1..Len(active) : r \in ToSet(results'[j])
            BY <2>3
        <3>2. r \in ToSet(results[j]) \/ r \in ended
            BY <3>1 DEF Hands
        <3>. QED
            BY <3>1, <3>2 DEF Results, Sound
    <2>. QED
        BY <2>1, <2>2, <2>3
<1>5. ASSUME NEW d \in recorded'
      PROVE  IsReported(d)
    BY <1>5 DEF Hands, Sound
<1>. QED
    BY <1>2, <1>3, <1>4, <1>5 DEF Sound

\* What becomes of each world that s, having said E, could become.
Settles(s, E, heirs, ended, said) ==
    \A w \in Future(s, E) : Asked(w) =>
        \/ Reports(w) \subseteq said /\ ToSet(Finish(w.state)) \subseteq ended
        \/ \E x \in heirs : \E E2 \in SUBSET said : w \in Future(x, E2)

LEMMA TurnComplete ==
    ASSUME Types, Complete, NEW i \in 1..Len(active), NEW s, Pends(i) = {s}, results[i] = <<>>,
           NEW heirs, NEW ended, NEW D, Hands(i, heirs, ended, D),
           \A E \in SUBSET recorded : Settles(s, E, heirs, ended, recorded \cup D)
    PROVE  Complete'
<1>1. setup' = setup /\ Len(active') = Len(active) /\ recorded' = recorded \cup D
    BY DEF Hands
<1>2. /\ Worlds' = Worlds /\ \A w : Asked(w)' <=> Asked(w)
      /\ \A t, E : Future(t, E)' = Future(t, E)
    BY <1>1, SameSetup
<1>3. heirs \subseteq Pending' /\ ended \subseteq Results'
    BY <1>1 DEF Hands, Pending, Results
<1>4. Results \subseteq Results'
    <2> SUFFICES ASSUME NEW r \in Results
                 PROVE  r \in Results'
        OBVIOUS
    <2>1. CASE r \in ToSet(finished)
        BY <2>1 DEF Results, Hands
    <2>2. CASE \E j \in 1..Len(active) : r \in ToSet(results[j])
        <3>1. PICK j \in 1..Len(active) : r \in ToSet(results[j])
            BY <2>2
        <3>2. j # i
            BY <3>1, EmptyList
        <3>. QED
            BY <1>1, <3>1, <3>2 DEF Hands, Results
    <2>. QED
        BY <2>1, <2>2 DEF Results
<1>5. \A t \in Pending : t = s \/ t \in Pending'
    <2> SUFFICES ASSUME NEW t \in Pending, t # s
                 PROVE  t \in Pending'
        OBVIOUS
    <2>1. PICK j \in 1..Len(active) : t \in Pends(j)
        BY DEF Pending
    <2>2. j # i
        BY <2>1
    <2>. QED
        BY <1>1, <2>1, <2>2 DEF Hands, Pending
<1> SUFFICES ASSUME NEW w \in Worlds, Asked(w)
             PROVE  Accounted(w)' \/ Expected(w)'
    BY <1>2 DEF Complete
<1>6. CASE Accounted(w)
    BY <1>1, <1>4, <1>6 DEF Accounted
<1>7. CASE Expected(w)
    <2>1. PICK t \in Pending : \E E \in SUBSET recorded : w \in Future(t, E)
        BY <1>7 DEF Expected
    <2>2. PICK E \in SUBSET recorded : w \in Future(t, E)
        BY <2>1
    <2>3. CASE t = s
        <3>1. \/ Reports(w) \subseteq recorded \cup D /\ ToSet(Finish(w.state)) \subseteq ended
              \/ \E x \in heirs : \E E2 \in SUBSET (recorded \cup D) : w \in Future(x, E2)
            BY <2>2, <2>3 DEF Settles
        <3>2. CASE Reports(w) \subseteq recorded \cup D /\ ToSet(Finish(w.state)) \subseteq ended
            BY <1>1, <1>3, <3>2 DEF Accounted
        <3>3. CASE \E x \in heirs : \E E2 \in SUBSET (recorded \cup D) : w \in Future(x, E2)
            BY <1>1, <1>2, <1>3, <3>3 DEF Expected
        <3>. QED
            BY <3>1, <3>2, <3>3
    <2>4. CASE t # s
        <3>1. t \in Pending'
            BY <1>5, <2>4
        <3>2. E \in SUBSET recorded'
            BY <1>1
        <3>. QED
            BY <1>2, <2>2, <3>1, <3>2 DEF Expected
    <2>. QED
        BY <2>3, <2>4
<1>8. phase # "start"
    BY DEF Hands
<1>. QED
    BY <1>6, <1>7, <1>8 DEF Complete

LEMMA TurnEachOnce ==
    ASSUME Types, Sound, EachOnce, NEW i \in 1..Len(active), NEW s, Stands(i) = <<s>>,
           NEW heirs, NEW ended, NEW D, Hands(i, heirs, ended, D),
           NEW left, Shares(i, left), \A x \in left : IsList(x.settings) /\ Descends(s, x)
    PROVE  EachOnce'
<1>1. setup' = setup /\ Len(active') = Len(active) /\ finished' = finished
    BY DEF Hands
<1>2. ChoicesDiffer' <=> ChoicesDiffer
    BY <1>1, SameSetup
<1>3. Len(active) \in Nat
    BY ListIs DEF Types
<1>4. i \in 0..Len(active) /\ i # 0
    BY <1>3
<1>5. \A j \in 0..Len(active) : j # i => Stands(j)' = Stands(j)
    <2>1. Stands(0)' = Stands(0)
        BY <1>1 DEF Stands
    <2>2. \A j \in 0..Len(active) : j = 0 \/ j \in 1..Len(active)
        BY <1>3
    <2>. QED
        BY <2>1, <2>2 DEF Hands
<1>6. s \in ToSet(Stands(i)) /\ IsList(s.settings)
    <2>1. ToSet(<<s>>) = {s}
        BY SingletonList
    <2>. QED
        BY <1>4, <2>1, StandsAre
<1>7. /\ ToSet(Stands(i)') \subseteq left
      /\ ChoicesDiffer => ApartList(Stands(i)')
    BY DEF Shares
<1> SUFFICES ASSUME ChoicesDiffer
             PROVE  /\ \A j \in 0..Len(active) : ApartList(Stands(j)')
                    /\ \A j, k \in 0..Len(active) : j # k =>
                          \A x \in ToSet(Stands(j)'), y \in ToSet(Stands(k)') : Apart(x, y)
    BY <1>1, <1>2 DEF EachOnce, ApartList
<1>8. /\ \A j \in 0..Len(active) : ApartList(Stands(j))
      /\ \A j, k \in 0..Len(active) : j # k =>
            \A x \in ToSet(Stands(j)), y \in ToSet(Stands(k)) : Apart(x, y)
    BY DEF EachOnce
<1>9. \A j \in 0..Len(active) : ApartList(Stands(j)')
    BY <1>5, <1>7, <1>8
<1>10. ASSUME NEW j \in 0..Len(active), j # i, NEW x \in ToSet(Stands(i)'), NEW y \in ToSet(Stands(j))
       PROVE  Apart(x, y) /\ Apart(y, x)
    <2>1. x \in left /\ IsList(x.settings) /\ Descends(s, x)
        BY <1>7
    <2>2. IsList(y.settings)
        BY StandsAre
    <2>3. Apart(s, y)
        BY <1>4, <1>6, <1>8, <1>10
    <2>. QED
        BY <1>6, <2>1, <2>2, <2>3, ApartStays
<1>11. ASSUME NEW j \in 0..Len(active), NEW k \in 0..Len(active), j # k,
              NEW x \in ToSet(Stands(j)'), NEW y \in ToSet(Stands(k)')
       PROVE  Apart(x, y)
    <2>1. CASE j = i
        BY <1>5, <1>10, <1>11, <2>1
    <2>2. CASE k = i
        BY <1>5, <1>10, <1>11, <2>2
    <2>3. CASE j # i /\ k # i
        BY <1>5, <1>8, <1>11, <2>3
    <2>. QED
        BY <2>1, <2>2, <2>3
<1>. QED
    BY <1>9, <1>11

\* The set keeps what it is given, or what it takes for it, and loses nothing.
Keeps(D) ==
    /\ recorded' = recorded \cup D
    /\ diags \subseteq diags' /\ \A d \in D : Represented(d, diags')

LEMMA KeepsDiagnostics ==
    ASSUME DiagnosticsAreKept, NEW D, Keeps(D), phase' \in {"rounds", "parsed"}
    PROVE  DiagnosticsAreKept'
<1>1. \A d \in recorded' : Represented(d, diags')
    BY DEF Keeps, DiagnosticsAreKept, Represented
<1>2. (\A d \in recorded : Represented(d, diags))'
    BY <1>1 DEF Represented, Labels
<1>3. ErrorsFailTheBuild'
    BY DEF ErrorsFailTheBuild
<1>. QED
    BY <1>2, <1>3 DEF DiagnosticsAreKept

LEMMA StepKeepsInvariant ==
    ASSUME IInv, Running, Current.pos \in 1..End,
           AfterStep(Result(Current, Current.pos))
    PROVE  IInv'
<1>1. PICK i : i = running
    OBVIOUS
<1>2. PICK s : s = active[i]
    OBVIOUS
<1>3. PICK r : r = Result(s, s.pos)
    OBVIOUS
<1>4. /\ i \in 1..Len(active) /\ Pends(i) = {s} /\ Stands(i) = <<s>> /\ results[i] = <<>>
    BY <1>1, <1>2, RunningIs DEF IInv
<1>5. setup \in Setups /\ s \in Pending
    BY <1>4 DEF IInv, Types, Pending
<1>6. IsWorldSoFar(s)
    BY <1>5 DEF IInv, Sound
<1>7. s.pos \in 1..End /\ AfterStep(r)
    BY <1>1, <1>2, <1>3 DEF Current
<1> DEFINE W == Ways(setup, s, s.pos)
           c == Past(s, s.pos)
<1>8. IsSub(s) /\ s.said = {} /\ Agrees(s) /\ c.pos \in 1..(End + 1)
    <2>1. End \in Nat /\ s.pos + 1 \in 1..(End + 1)
        BY <1>5, <1>7, SetupIs
    <2>. QED
        BY <1>5, <1>6, <2>1, WorldSoFarIs, PastIs
<1>9. Matches(r, W, c, ChoicesDiffer)
    BY <1>3, <1>5, <1>7, <1>8, ResultMatches
<1>10. /\ \A x \in Heirs(r) : IsWorldSoFar(x) /\ Descends(s, x)
       /\ \A d \in AllSaid(r) : IsReported(d)
    BY <1>5, <1>6, <1>7, <1>9, StepKeeps
<1>11. \A E : ComesTo(s, E, Heirs(r), AllSaid(r))
    BY <1>5, <1>6, <1>7, <1>9, StepComesTo
<1> HIDE DEF W, c
<1>12. Types' /\ Hands(i, Heirs(r), {}, AllSaid(r)) /\ Shares(i, Heirs(r))
    BY <1>1, <1>7, <1>8, <1>9, AfterStepHands DEF IInv
<1>13. Sound'
    BY <1>4, <1>10, <1>12, TurnSound DEF IInv
<1>14. ASSUME NEW E \in SUBSET recorded
       PROVE  Settles(s, E, Heirs(r), {}, recorded \cup AllSaid(r))
    <2>1. E \cup AllSaid(r) \subseteq recorded \cup AllSaid(r)
        OBVIOUS
    <2>. QED
        BY <1>11, <2>1 DEF ComesTo, Settles
<1>15. Complete'
    BY <1>4, <1>12, <1>14, TurnComplete DEF IInv
<1>16. \A x \in Heirs(r) : IsList(x.settings) /\ Descends(s, x)
    BY <1>5, <1>10, WorldSoFarIs DEF IsSub
<1>17. EachOnce'
    BY <1>4, <1>12, <1>16, TurnEachOnce DEF IInv
<1>18. Keeps(AllSaid(r))
    BY <1>7, RecordIs DEF AfterStep, Keeps, IInv, Types
<1>19. DiagnosticsAreKept'
    BY <1>12, <1>18, KeepsDiagnostics DEF IInv, Hands
<1>. QED
    BY <1>12, <1>13, <1>15, <1>17, <1>19 DEF IInv

LEMMA EndKeepsInvariant ==
    ASSUME IInv, EndOfInput
    PROVE  IInv'
<1>1. PICK i : i = running
    OBVIOUS
<1>2. PICK s : s = active[i]
    OBVIOUS
<1>3. Running /\ AtEnd
    BY DEF EndOfInput
<1>4. /\ i \in 1..Len(active) /\ Pends(i) = {s} /\ Stands(i) = <<s>> /\ results[i] = <<>>
    BY <1>1, <1>2, <1>3, RunningIs DEF IInv
<1>5. setup \in Setups /\ s \in Pending
    BY <1>4 DEF IInv, Types, Pending
<1>6. IsWorldSoFar(s)
    BY <1>5 DEF IInv, Sound
<1>7. s.pos = End + 1
    <2>1. s.pos \in 1..(End + 1) /\ End \in Nat
        BY <1>5, <1>6, WorldSoFarIs, SetupIs
    <2>2. s.pos > End
        BY <1>1, <1>2, <1>3 DEF AtEnd, Current, End
    <2>. QED
        BY <2>1, <2>2
<1>8. /\ \A x \in ToSet(Finish(s)) : IsWanted(x) /\ IsList(x.settings) /\ Descends(s, x)
      /\ \A d \in EndSaid(s) : IsReported(d)
    BY <1>5, <1>6, <1>7, EndKeeps
<1>9. Types' /\ Hands(i, {}, ToSet(Finish(s)), EndSaid(s)) /\ Shares(i, ToSet(Finish(s)))
    BY <1>1, <1>2, <1>3, EndHands DEF IInv
<1>10. Sound'
    BY <1>4, <1>8, <1>9, TurnSound DEF IInv
<1>11. ASSUME NEW E \in SUBSET recorded
       PROVE  Settles(s, E, {}, ToSet(Finish(s)), recorded \cup EndSaid(s))
    BY <1>5, <1>7, EndFuture DEF Settles
<1>12. Complete'
    BY <1>4, <1>9, <1>11, TurnComplete DEF IInv
<1>13. EachOnce'
    BY <1>4, <1>8, <1>9, TurnEachOnce DEF IInv
<1>14. Keeps(EndSaid(s))
    <2> DEFINE open    == ToSet(EndReports(s.activity))
               version == When(HasCode(s) /\ ~s.versioned, [kind |-> "MissingModVersion"])
               build   == When(HasCode(s) /\ s.build = NoBuild, [kind |-> "MissingBuildId"])
    <2>1. diags' = Insert(Insert(Insert(diags, open), version), build)
        BY <1>1, <1>2 DEF EndOfInput, Current
    <2>2. EndSaid(s) = open \cup version \cup build
        BY DEF EndSaid
    <2>3. recorded' = recorded \cup EndSaid(s)
        BY <1>9 DEF Hands
    <2> HIDE DEF open, version, build
    <2>. QED
        BY <2>1, <2>2, <2>3, InsertIs DEF Keeps
<1>15. DiagnosticsAreKept'
    BY <1>9, <1>14, KeepsDiagnostics DEF IInv, Hands
<1>. QED
    BY <1>9, <1>10, <1>12, <1>13, <1>15 DEF IInv

-----------------------------------------------------------------------------
(* The four kinds of statement are the cases of Result.                    *)

ReadStatement == SkippedStatement \/ Directive \/ Code \/ \E kind \in OptionKinds : Option(kind)

LEMMA StatementSteps ==
    ASSUME IInv, ReadStatement
    PROVE  Running /\ Current.pos \in 1..End /\ AfterStep(Result(Current, Current.pos))
<1> DEFINE line == Current.pos
           st   == Statements[line]
           here == Past(Current, line)
<1>1. Running /\ ~AtEnd
    BY DEF ReadStatement, SkippedStatement, Directive, Code, Option, Reading
<1>2. Current.pos \in 1..End
    <2>1. Current.pos \in 1..(End + 1) /\ End \in Nat
        BY <1>1, RunningIs, SetupIs DEF Current, IInv, Types
    <2>2. ~(Current.pos > End)
        BY <1>1 DEF AtEnd, End
    <2>. QED
        BY <2>1, <2>2
<1>3. DOMAIN Current = Fields
    <2>1. running \in 1..Len(active) /\ Pends(running) = {active[running]}
        BY <1>1, RunningIs DEF IInv
    <2>2. active[running] \in Pending
        BY <2>1 DEF Pending
    <2>. QED
        BY <2>2 DEF IInv, Sound, IsWorldSoFar, IsSub, Current
<1>4. Consumed(Current) = here /\ here.activity = Current.activity
    BY <1>3 DEF Consumed, Past, Fields
<1>5. Statement = st /\ Line = line
    BY DEF Statement, Line
<1>6. Result(Current, line) =
        IF st.kind = "directive" THEN Continue(ExecDirective(here, [st.d EXCEPT !.at = line]))
        ELSE IF ~Active(Current.activity) THEN Continue(here)
        ELSE IF st.kind = "code" THEN Continue(ExecCodeLine(here, st.text, line))
        ELSE ExecOption(here, st, setup.forced, line)
    BY <1>4 DEF Result
<1> HIDE DEF st, here, line
<1>7. CASE SkippedStatement
    <2>1. /\ st.kind \in OptionKinds \cup {"code"} /\ ~Active(Current.activity)
          /\ AfterStep(Continue(here))
        BY <1>4, <1>5, <1>7 DEF SkippedStatement, Reading
    <2>2. Result(Current, line) = Continue(here)
        BY <1>6, <2>1 DEF OptionKinds
    <2>. QED
        BY <1>1, <1>2, <2>1, <2>2 DEF line
<1>8. CASE Directive
    <2>1. /\ st.kind = "directive"
          /\ AfterStep(Continue(ExecDirective(here, [st.d EXCEPT !.at = line])))
        BY <1>4, <1>5, <1>8 DEF Directive, Reading
    <2>2. Result(Current, line) = Continue(ExecDirective(here, [st.d EXCEPT !.at = line]))
        BY <1>6, <2>1
    <2>. QED
        BY <1>1, <1>2, <2>1, <2>2 DEF line
<1>9. CASE Code
    <2>1. /\ st.kind = "code" /\ Active(Current.activity)
          /\ AfterStep(Continue(ExecCodeLine(here, st.text, line)))
        BY <1>4, <1>5, <1>9 DEF Code, Reading
    <2>2. Result(Current, line) = Continue(ExecCodeLine(here, st.text, line))
        BY <1>6, <2>1
    <2>. QED
        BY <1>1, <1>2, <2>1, <2>2 DEF line
<1>10. CASE \E kind \in OptionKinds : Option(kind)
    <2>1. PICK kind \in OptionKinds : Option(kind)
        BY <1>10
    <2>2. /\ st.kind = kind /\ Active(Current.activity)
          /\ AfterStep(ExecOption(here, st, setup.forced, line))
        BY <1>4, <1>5, <2>1 DEF Option, Reading
    <2>3. Result(Current, line) = ExecOption(here, st, setup.forced, line)
        BY <1>6, <2>1, <2>2 DEF OptionKinds
    <2>. QED
        BY <1>1, <1>2, <2>2, <2>3 DEF line
<1>. QED
    BY <1>7, <1>8, <1>9, <1>10 DEF ReadStatement

\* The thread that takes the mutex changes nothing else.
LEMMA TakeLockKeepsInvariant ==
    ASSUME IInv, NEW i \in todo, TakeLock(i)
    PROVE  IInv'
<1>1. /\ setup' = setup /\ active' = active /\ forks' = forks /\ results' = results
      /\ finished' = finished /\ diags' = diags /\ recorded' = recorded /\ phase' = phase
      /\ running = 0 /\ running' = i /\ todo' = todo \ {i} /\ phase = "rounds"
    BY DEF TakeLock
<1>2. Types
    BY DEF IInv
<1>3. Len(active) \in Nat /\ i \in 1..Len(active) /\ i # 0
    <2>1. IsList(active) /\ todo \subseteq 1..Len(active)
        BY <1>2 DEF Types
    <2>2. Len(active) \in Nat
        BY <2>1, ListIs
    <2>. QED
        BY <2>1, <2>2
<1>4. Waiting' = Waiting
    BY <1>1, <1>3 DEF Waiting
<1>5. End' = End /\ Worlds' = Worlds
    BY <1>1, SameSetup
<1>6. Types'
    BY <1>1, <1>2, <1>3, <1>4, <1>5 DEF Types
<1>7. /\ \A j : Pends(j)' = Pends(j)
      /\ \A j : Stands(j)' = Stands(j)
    BY <1>1, <1>4 DEF Pends, Stands
<1>8. Pending' = Pending /\ Results' = Results
    BY <1>1, <1>7 DEF Pending, Results
<1>9. Sound'
    BY <1>1, <1>8, SameWorlds DEF IInv, Sound
<1>10. Complete'
    <2>1. \A w : Accounted(w)' <=> Accounted(w)
        BY <1>1, <1>8 DEF Accounted
    <2>2. \A s, D : Future(s, D)' = Future(s, D)
        BY <1>1, SameSetup
    <2>3. \A w : Expected(w)' <=> Expected(w)
        BY <1>1, <1>8, <2>2 DEF Expected
    <2>4. \A w : Asked(w)' <=> Asked(w)
        BY <1>1, SameSetup
    <2>. QED
        BY <1>1, <1>5, <2>1, <2>3, <2>4 DEF IInv, Complete
<1>11. EachOnce'
    <2>1. ChoicesDiffer' <=> ChoicesDiffer
        BY <1>1, SameSetup
    <2>. QED
        BY <1>1, <1>7, <2>1 DEF IInv, EachOnce, ApartList
<1>12. DiagnosticsAreKept'
    BY <1>1 DEF IInv, DiagnosticsAreKept, ErrorsFailTheBuild
<1>. QED
    BY <1>6, <1>9, <1>10, <1>11, <1>12 DEF IInv

-----------------------------------------------------------------------------
(* The first round: one sub-state per target.                              *)

FirstForks == MakeForks("target", StartState, setup.targets, 0)

FirstStates ==
    LET all == <<FirstForks.self>> \o FirstForks.new
    IN  [i \in 1..Len(all) |-> Silent(all[i])]

FirstState(v) == Silent(Fork("target", StartState, v, 0))

LEMMA FirstStatesAre ==
    ASSUME setup \in Setups
    PROVE  /\ IsList(FirstStates) /\ Len(FirstStates) = Len(setup.targets)
           /\ \A i \in 1..Len(setup.targets) : FirstStates[i] = FirstState(setup.targets[i])
           /\ \A x : x \in Built(FirstForks) <=> \E v \in ToSet(setup.targets) : x = Fork("target", StartState, v, 0)
           /\ IsList(FirstForks.new)
<1> DEFINE r == FirstForks
           l == <<r.self>>
           all == l \o r.new
           V == setup.targets
<1>1. IsList(V) /\ V # <<>>
    BY SetupIs
<1>2. IsForked(r, "target", StartState, V, 0)
    BY <1>1, MakeForksIs DEF FirstForks
<1> HIDE DEF r, V
<1>3. Len(V) \in Nat /\ Len(V) # 0
    BY <1>1, ListIs
<1>4. /\ IsList(r.new) /\ Len(r.new) = Len(V) - 1
      /\ r.self = Fork("target", StartState, V[1], 0)
      /\ \A i \in 1..(Len(V) - 1) : r.new[i] = Fork("target", StartState, V[i + 1], 0)
      /\ \A x : x \in Built(r) <=> \E v \in ToSet(V) : x = Fork("target", StartState, v, 0)
    BY <1>2 DEF IsForked
<1>5. IsList(l) /\ Len(l) = 1 /\ l[1] = r.self
    BY SingletonList
<1> HIDE DEF l
<1>6. IsConcat(l, r.new, all)
    <2>1. PICK m : m = r.new
        OBVIOUS
    <2>2. IsList(l) /\ IsList(m)
        BY <1>4, <1>5, <2>1
    <2>3. IsConcat(l, m, l \o m)
        BY <2>2, ConcatList DEF IsConcat
    <2>. QED
        BY <2>1, <2>3
<1> HIDE DEF all
<1>7. Len(all) = Len(V)
    BY <1>3, <1>4, <1>5, <1>6 DEF IsConcat
<1>8. ASSUME NEW i \in 1..Len(V)
      PROVE  all[i] = Fork("target", StartState, V[i], 0)
    <2>1. CASE i = 1
        <3>1. 1 \in 1..Len(l)
            BY <1>5
        <3>. QED
            BY <1>4, <1>5, <1>6, <2>1, <3>1 DEF IsConcat
    <2>2. CASE i # 1
        <3>1. i - 1 \in 1..(Len(V) - 1) /\ (i - 1) + 1 = i /\ 1 + (i - 1) = i
            BY <1>3, <2>2
        <3>2. r.new[i - 1] = Fork("target", StartState, V[i], 0)
            BY <1>4, <3>1
        <3>3. all[Len(l) + (i - 1)] = r.new[i - 1]
            BY <1>4, <1>6, <3>1 DEF IsConcat
        <3>. QED
            BY <1>5, <3>1, <3>2, <3>3
    <2>. QED
        BY <2>1, <2>2
<1>9. FirstStates = [i \in 1..Len(V) |-> Silent(all[i])]
    BY <1>7 DEF FirstStates, all, l, r
<1>10. \A i \in 1..Len(V) : FirstStates[i] = FirstState(V[i])
    BY <1>8, <1>9 DEF FirstState
<1>11. IsList(FirstStates) /\ Len(FirstStates) = Len(V)
    <2>1. FirstStates = [i \in 1..Len(V) |-> FirstStates[i]]
        BY <1>9
    <2>. QED
        BY <1>3, <2>1, ListOfFunction
<1>. QED
    BY <1>4, <1>10, <1>11 DEF r, V

FirstWorld(v) == World(Way(Fork("target", StartState, v, 0), TRUE), {})

LEMMA FirstStateIs ==
    ASSUME setup \in Setups, NEW v \in ToSet(setup.targets)
    PROVE  /\ IsWorldSoFar(FirstState(v)) /\ FirstState(v).pos = 1 /\ FirstState(v).target = v
           /\ FirstWorld(v) \in Stage(0) /\ FirstWorld(v).state = FirstState(v)
           /\ FirstWorld(v).said = Fork("target", StartState, v, 0).said
           /\ {FirstWorld(v)} = {[state |-> FirstWorld(v).state, alive |-> TRUE, said |-> FirstWorld(v).said]}
<1> DEFINE t == Fork("target", StartState, v, 0)
           s == FirstState(v)
<1>1. IsSub(t) /\ t.pos = 1 /\ t.target = v /\ Agrees(t)
    BY FirstForkIs
<1>2. IsSub(s) /\ s.pos = 1 /\ s.said = {} /\ SameChoices(t, s)
    BY <1>1, SilentIs DEF FirstState
<1>3. PICK y : y = Way(t, TRUE)
    OBVIOUS
<1>4. PICK w : w = World(y, {})
    OBVIOUS
<1>5. y.state = t /\ y.alive = TRUE
    BY <1>3, WayIs
<1>6. w.state = s /\ w.alive = y.alive
    BY <1>4, <1>5, WorldIs DEF FirstState
<1>12. w.said = t.said
    <2>1. PICK E : E = {}
        OBVIOUS
    <2>2. w = World(y, E)
        BY <1>4, <2>1
    <2>3. w.said = E \cup y.state.said
        BY <2>2, WorldIs
    <2>. QED
        BY <1>5, <2>1, <2>3
<1>13. w = [state |-> w.state, alive |-> w.alive, said |-> w.said]
    BY <1>4, WorldIs
<1>14. {w} = {[state |-> w.state, alive |-> TRUE, said |-> w.said]}
    BY <1>5, <1>6, <1>13
<1>7. w \in FirstWorlds(setup)
    BY <1>3, <1>4, FirstWorldsAre
<1>8. Stage(0) = FirstWorlds(setup)
    BY ReadSteps DEF Stage
<1>9. Agrees(s) /\ s.target = v
    BY <1>1, <1>2, SameAgrees DEF SameChoices
<1>10. s.pos \in 1..(End + 1) /\ s.pos - 1 = 0
    BY <1>2, SetupIs
<1> HIDE DEF s, t
<1>11. IsWorldSoFar(s)
    BY <1>2, <1>5, <1>6, <1>7, <1>8, <1>9, <1>10 DEF IsWorldSoFar
<1>15. w = FirstWorld(v)
    BY <1>3, <1>4 DEF FirstWorld, t
<1>. QED
    BY <1>2, <1>6, <1>7, <1>8, <1>9, <1>11, <1>12, <1>14, <1>15 DEF s, t

LEMMA NoForksAre ==
    ASSUME NEW n \in Nat
    PROVE  /\ IsList(NoForks(n)) /\ Len(NoForks(n)) = n
           /\ \A i \in 1..n : NoForks(n)[i] = <<>>
<1>1. NoForks(n) = [i \in 1..n |-> NoForks(n)[i]] /\ \A i \in 1..n : NoForks(n)[i] = <<>>
    BY DEF NoForks
<1>2. PICK f : f = NoForks(n)
    OBVIOUS
<1>3. IsList(f) /\ Len(f) = n
    BY <1>1, <1>2, ListOfFunction
<1>. QED
    BY <1>1, <1>2, <1>3

\* A round begins with nothing but sub-states that wait.
LEMMA StartRoundIs ==
    ASSUME NEW l, IsList(l), StartRound(l)
    PROVE  /\ active' = l /\ Len(l) \in Nat
           /\ IsList(forks') /\ IsList(results') /\ Len(forks') = Len(l) /\ Len(results') = Len(l)
           /\ todo' = 1..Len(l) /\ running' = 0
           /\ \A i \in 1..Len(l) :
                 /\ forks'[i] = <<>> /\ results'[i] = <<>>
                 /\ Pends(i)' = {l[i]} /\ Stands(i)' = <<l[i]>>
           /\ Pending' = ToSet(l) /\ Results' = ToSet(finished')
<1>1. Len(l) \in Nat
    BY ListIs
<1>2. /\ active' = l /\ todo' = 1..Len(l) /\ running' = 0
      /\ forks' = NoForks(Len(l)) /\ results' = NoForks(Len(l))
    BY DEF StartRound
<1>3. /\ IsList(forks') /\ IsList(results') /\ Len(forks') = Len(l) /\ Len(results') = Len(l)
      /\ \A i \in 1..Len(l) : forks'[i] = <<>> /\ results'[i] = <<>>
    BY <1>1, <1>2, NoForksAre
<1>4. \A i \in 1..Len(l) : Pends(i)' = {l[i]} /\ Stands(i)' = <<l[i]>>
    <2> SUFFICES ASSUME NEW i \in 1..Len(l)
                 PROVE  Pends(i)' = {l[i]} /\ Stands(i)' = <<l[i]>>
        OBVIOUS
    <2>1. i \in Waiting' /\ i # 0
        BY <1>1, <1>2 DEF Waiting
    <2>. QED
        BY <1>2, <2>1 DEF Pends, Stands
<1>5. Pending' = ToSet(l)
    <2>1. \A x : x \in Pending' <=> \E i \in 1..Len(l) : x = l[i]
        BY <1>2, <1>4 DEF Pending
    <2>2. \A x : x \in ToSet(l) <=> \E i \in 1..Len(l) : x = l[i]
        BY ListIs
    <2>. QED
        BY <2>1, <2>2
<1>6. Results' = ToSet(finished')
    BY <1>2, <1>3, EmptyList DEF Results
<1>. QED
    BY <1>1, <1>2, <1>3, <1>4, <1>5, <1>6

LEMMA StartKeepsInvariant ==
    ASSUME IInv, Start
    PROVE  IInv'
<1> DEFINE D == AllSaid(FirstForks)
           l == FirstStates
<1>1. /\ setup \in Setups /\ phase = "start" /\ finished = <<>>
      /\ setup' = setup /\ finished' = <<>> /\ phase' = "rounds"
      /\ recorded' = D /\ diags' = Insert({}, D) /\ StartRound(l)
    BY DEF Start, IInv, Types, FirstStates, FirstForks, StartState
<1>2. /\ IsList(l) /\ Len(l) = Len(setup.targets)
      /\ \A i \in 1..Len(l) : l[i] = FirstState(setup.targets[i])
    BY <1>1, FirstStatesAre
<1>3. \A x : x \in ToSet(l) <=> \E v \in ToSet(setup.targets) : x = FirstState(v)
    <2> HIDE DEF l
    <2>1. \A x : x \in ToSet(l) <=> \E i \in 1..Len(l) : x = l[i]
        BY <1>2, ListIs
    <2>2. PICK V : V = setup.targets
        OBVIOUS
    <2>3. IsList(V)
        BY <1>1, <2>2, SetupIs
    <2>4. \A v : v \in ToSet(V) <=> \E i \in 1..Len(V) : v = V[i]
        BY <2>3, ListIs
    <2>. QED
        BY <1>2, <2>1, <2>2, <2>4
<1>4. \A d : d \in D <=> \E v \in ToSet(setup.targets) : d \in Fork("target", StartState, v, 0).said
    <2>1. \A d : d \in D <=> \E x \in Built(FirstForks) : d \in x.said
        BY <1>1, FirstStatesAre, AllSaidIs
    <2>2. \A x : x \in Built(FirstForks) <=> \E v \in ToSet(setup.targets) : x = Fork("target", StartState, v, 0)
        BY <1>1, FirstStatesAre
    <2>. QED
        BY <2>1, <2>2
<1> HIDE DEF D, l
<1>5. /\ active' = l /\ Len(l) \in Nat
      /\ IsList(forks') /\ IsList(results') /\ Len(forks') = Len(l) /\ Len(results') = Len(l)
      /\ todo' = 1..Len(l) /\ running' = 0
      /\ \A i \in 1..Len(l) :
            /\ forks'[i] = <<>> /\ results'[i] = <<>>
            /\ Pends(i)' = {l[i]} /\ Stands(i)' = <<l[i]>>
      /\ Pending' = ToSet(l) /\ Results' = ToSet(finished')
    BY <1>1, <1>2, StartRoundIs
<1>6. \A v \in ToSet(setup.targets) :
          /\ IsWorldSoFar(FirstState(v)) /\ FirstState(v).pos = 1 /\ FirstState(v).target = v
          /\ FirstWorld(v) \in Stage(0) /\ FirstWorld(v).state = FirstState(v)
          /\ FirstWorld(v).said = Fork("target", StartState, v, 0).said
          /\ {FirstWorld(v)} = {[state |-> FirstWorld(v).state, alive |-> TRUE, said |-> FirstWorld(v).said]}
    BY <1>1, FirstStateIs
<1>7. IsList(<<>>) /\ ToSet(<<>>) = {} /\ Len(<<>>) = 0 /\ ApartList(<<>>)
    BY EmptyList DEF ApartList
<1>8. End' = End /\ Worlds' = Worlds /\ End \in Nat
    BY <1>1, SameSetup, SetupIs
<1>9. diags' \subseteq recorded' /\ \A d \in recorded' : Represented(d, diags')
    BY <1>1, InsertIs
<1>10. Types'
    <2>1. \A i \in 1..Len(l) : active'[i].pos \in 1..(End + 1)
        <3> SUFFICES ASSUME NEW i \in 1..Len(l)
                     PROVE  l[i].pos \in 1..(End + 1)
            BY <1>5
        <3>1. l[i] \in ToSet(l)
            BY <1>2, ListIs
        <3>2. l[i].pos = 1
            BY <1>3, <1>6, <3>1
        <3>. QED
            BY <1>8, <3>2
    <2>. QED
        BY <1>1, <1>2, <1>5, <1>7, <1>8, <1>9, <2>1 DEF Types
<1>11. Sound'
    <2>1. \A s \in Pending' : IsWorldSoFar(s)
        BY <1>3, <1>5, <1>6
    <2>2. Results' = {}
        BY <1>1, <1>5, <1>7
    <2>3. ASSUME NEW d \in recorded'
          PROVE  IsReported(d)
        <3>1. PICK v \in ToSet(setup.targets) : d \in Fork("target", StartState, v, 0).said
            BY <1>1, <1>4
        <3>2. FirstWorld(v) \in Stage(0) /\ d \in FirstWorld(v).said
            BY <1>6, <3>1
        <3>3. 0 \in 0..End
            BY <1>8
        <3>. QED
            BY <1>1, <3>2, <3>3, SaidIsReported
    <2>. QED
        BY <1>1, <2>1, <2>2, <2>3, SameWorlds DEF Sound
<1>12. Complete'
    <2> SUFFICES ASSUME NEW w \in Worlds, Asked(w)
                 PROVE  Expected(w)'
        BY <1>1, <1>8, SameSetup DEF Complete
    <2>1. w \in Read(setup, FirstWorlds(setup), 0)[End] /\ End \in 0..End
        BY <1>8 DEF Worlds, End
    <2>2. PICK x \in FirstWorlds(setup) : w \in Read(setup, {x}, 0)[End]
        BY <1>1, <2>1, OneWorld
    <2>3. PICK v \in ToSet(setup.targets) : x = FirstWorld(v)
        BY <1>1, <2>2, FirstWorldsAre DEF FirstWorld
    <2>8. /\ x.state = FirstState(v) /\ x.said = Fork("target", StartState, v, 0).said
          /\ x.state.pos = 1
        BY <1>6, <2>3
    <2>11. x.state \in Pending' /\ x.said \subseteq recorded'
        BY <1>1, <1>3, <1>4, <1>5, <2>8
    <2>12. x.state.pos - 1 = 0 /\ End - 0 = End
        BY <1>8, <2>8
    <2>13. {x} = {[state |-> x.state, alive |-> TRUE, said |-> x.said]}
        BY <1>6, <2>3
    <2>14. w \in Future(x.state, x.said)
        BY <2>2, <2>12, <2>13 DEF Future
    <2>15. Future(x.state, x.said)' = Future(x.state, x.said)
        BY <1>1, SameSetup
    <2>. QED
        BY <2>11, <2>14, <2>15, <1>1, SameSetup DEF Expected
<1>13. EachOnce'
    <2>1. Stands(0)' = <<>>
        BY <1>1 DEF Stands
    <2>2. \A i \in 0..Len(l) : i = 0 \/ i \in 1..Len(l)
        BY <1>5
    <2>3. \A i \in 1..Len(l) : ApartList(<<l[i]>>) /\ ToSet(<<l[i]>>) = {l[i]}
        BY ApartSingleton
    <2> SUFFICES ASSUME ChoicesDiffer
                 PROVE  /\ \A i \in 0..Len(l) : ApartList(Stands(i)')
                        /\ \A i, j \in 0..Len(l) : i # j =>
                              \A s \in ToSet(Stands(i)'), t \in ToSet(Stands(j)') : Apart(s, t)
        BY <1>1, <1>5, SameSetup DEF EachOnce, ApartList
    <2>4. \A i \in 0..Len(l) : ApartList(Stands(i)')
        BY <1>5, <1>7, <2>1, <2>2, <2>3
    <2>5. ASSUME NEW i \in 1..Len(l), NEW j \in 1..Len(l), i # j
          PROVE  Apart(l[i], l[j])
        <3> DEFINE V == setup.targets
        <3>1. IsList(V) /\ DOMAIN V = 1..Len(V)
            BY <1>1, SetupIs, ListIs
        <3>2. V[i] # V[j]
            BY <1>2, <2>5, <3>1 DEF ChoicesDiffer, IsInjective
        <3>3. V[i] \in ToSet(V) /\ V[j] \in ToSet(V)
            BY <1>2, <3>1, ListIs
        <3>4. l[i].target = V[i] /\ l[j].target = V[j]
            BY <1>2, <1>6, <3>3
        <3>. QED
            BY <3>2, <3>4 DEF Apart
    <2>6. ASSUME NEW i \in 0..Len(l), NEW j \in 0..Len(l), i # j,
                 NEW s \in ToSet(Stands(i)'), NEW t \in ToSet(Stands(j)')
          PROVE  Apart(s, t)
        <3>1. i \in 1..Len(l) /\ j \in 1..Len(l)
            BY <1>7, <2>1, <2>2, <2>6
        <3>2. s = l[i] /\ t = l[j]
            BY <1>5, <2>3, <2>6, <3>1
        <3>. QED
            BY <2>5, <2>6, <3>1, <3>2
    <2>. QED
        BY <2>4, <2>6
<1>14. DiagnosticsAreKept'
    BY <1>1, <1>9 DEF DiagnosticsAreKept, ErrorsFailTheBuild
<1>. QED
    BY <1>10, <1>11, <1>12, <1>13, <1>14 DEF IInv

-----------------------------------------------------------------------------
(* The end of a round: the forks are the next round, in their parents'     *)
(* order, and the results join those there are.                            *)

\* Every sub-state of the round has run.
RoundIsOver == phase = "rounds" /\ running = 0 /\ todo = {}

LEMMA RoundOverIs ==
    ASSUME Types, RoundIsOver
    PROVE  /\ Waiting = {} /\ Len(active) \in Nat
           /\ AllLists(forks) /\ AllLists(results) /\ Len(forks) = Len(active) /\ Len(results) = Len(active)
           /\ \A i \in 1..Len(active) :
                 /\ Pends(i) = ToSet(forks[i])
                 /\ ToSet(Stands(i)) = ToSet(forks[i]) \cup ToSet(results[i])
                 /\ forks[i] # <<>> => Stands(i) = forks[i]
                 /\ results[i] # <<>> => Stands(i) = results[i]
<1>1. Waiting = {}
    BY DEF Waiting, RoundIsOver
<1>2. Len(active) \in Nat /\ AllLists(forks) /\ AllLists(results)
    <2>1. IsList(active) /\ IsList(forks) /\ IsList(results)
        BY DEF Types
    <2>2. Len(active) \in Nat
        BY <2>1, ListIs
    <2>. QED
        BY <2>1, <2>2 DEF Types, AllLists
<1>3. ASSUME NEW i \in 1..Len(active)
      PROVE  /\ Pends(i) = ToSet(forks[i])
             /\ ToSet(Stands(i)) = ToSet(forks[i]) \cup ToSet(results[i])
             /\ forks[i] # <<>> => Stands(i) = forks[i]
             /\ results[i] # <<>> => Stands(i) = results[i]
    <2>1. Pends(i) = ToSet(forks[i])
        BY <1>1 DEF Pends
    <2>2. Stands(i) = IF forks[i] # <<>> THEN forks[i] ELSE results[i]
        BY <1>1, <1>2 DEF Stands
    <2>3. forks[i] = <<>> \/ results[i] = <<>>
        BY DEF Types
    <2>4. ToSet(<<>>) = {}
        BY EmptyList
    <2>. QED
        BY <2>1, <2>2, <2>3, <2>4
<1>. QED
    BY <1>1, <1>2, <1>3 DEF Types

\* The next round, and the results up to now.
IsGathered(nextRound, done) ==
    /\ IsList(nextRound) /\ IsList(done)
    /\ ToSet(nextRound) = Pending /\ ToSet(done) = Results
    /\ EachOnce /\ ChoicesDiffer =>
          /\ ApartList(nextRound) /\ ApartList(done)
          /\ \A s \in ToSet(nextRound), r \in ToSet(done) : Apart(s, r) /\ Apart(r, s)

LEMMA Gathered ==
    ASSUME Types, RoundIsOver
    PROVE  IsGathered(FlattenSeq(forks), finished \o FlattenSeq(results))
<1> DEFINE next == FlattenSeq(forks)
           own  == FlattenSeq(results)
           done == finished \o own
           n    == Len(active)
<1>1. /\ n \in Nat
      /\ AllLists(forks) /\ AllLists(results) /\ Len(forks) = n /\ Len(results) = n
      /\ \A i \in 1..n :
            /\ Pends(i) = ToSet(forks[i])
            /\ ToSet(Stands(i)) = ToSet(forks[i]) \cup ToSet(results[i])
            /\ forks[i] # <<>> => Stands(i) = forks[i]
            /\ results[i] # <<>> => Stands(i) = results[i]
    BY RoundOverIs
<1>2. IsList(next) /\ \A x : x \in ToSet(next) <=> \E i \in 1..n : x \in ToSet(forks[i])
    BY <1>1, FlattenKeeps
<1>3. IsList(own) /\ \A x : x \in ToSet(own) <=> \E i \in 1..n : x \in ToSet(results[i])
    BY <1>1, FlattenKeeps
<1>4. IsList(finished) /\ Stands(0) = finished
    BY DEF Types, Stands
<1>5. (\A i \in 1..n : ApartList(forks[i])) /\
      (\A i, j \in 1..n : i # j => \A x \in ToSet(forks[i]), y \in ToSet(forks[j]) : Apart(x, y))
         => ApartList(next)
    BY <1>1, ApartFlatten
<1>6. (\A i \in 1..n : ApartList(results[i])) /\
      (\A i, j \in 1..n : i # j => \A x \in ToSet(results[i]), y \in ToSet(results[j]) : Apart(x, y))
         => ApartList(own)
    BY <1>1, ApartFlatten
<1> HIDE DEF next, own, n
<1>7. IsList(done) /\ ToSet(done) = ToSet(finished) \cup ToSet(own)
    BY <1>3, <1>4, ConcatList
<1>8. ToSet(next) = Pending
    <2>1. \A x : x \in Pending <=> \E i \in 1..n : x \in ToSet(forks[i])
        BY <1>1 DEF Pending, n
    <2>. QED
        BY <1>2, <2>1
<1>9. ToSet(done) = Results
    <2>1. \A x : x \in Results <=> x \in ToSet(finished) \/ \E i \in 1..n : x \in ToSet(results[i])
        BY <1>1 DEF Results, n
    <2>. QED
        BY <1>3, <1>7, <2>1
<1>10. ASSUME EachOnce, ChoicesDiffer
       PROVE  /\ ApartList(next) /\ ApartList(done)
              /\ \A s \in ToSet(next), r \in ToSet(done) : Apart(s, r) /\ Apart(r, s)
    <2>1. /\ \A i \in 0..n : ApartList(Stands(i))
          /\ \A i, j \in 0..n : i # j =>
                \A s \in ToSet(Stands(i)), t \in ToSet(Stands(j)) : Apart(s, t)
        BY <1>10 DEF EachOnce, n
    <2>2. 0 \in 0..n /\ \A i \in 1..n : i \in 0..n /\ i # 0
        BY <1>1
    <2>3. ApartList(<<>>) /\ ToSet(<<>>) = {}
        BY EmptyList DEF ApartList
    <2>4. \A i \in 1..n : ApartList(forks[i]) /\ ApartList(results[i])
        BY <1>1, <2>1, <2>2, <2>3
    <2>5. \A i, j \in 1..n : i # j =>
              /\ \A x \in ToSet(forks[i]), y \in ToSet(forks[j]) : Apart(x, y)
              /\ \A x \in ToSet(results[i]), y \in ToSet(results[j]) : Apart(x, y)
        BY <1>1, <2>1, <2>2
    <2>6. ApartList(next) /\ ApartList(own)
        BY <1>5, <1>6, <2>4, <2>5
    <2>7. ApartList(finished)
        BY <1>4, <2>1, <2>2
    <2>8. \A x \in ToSet(finished), y \in ToSet(own) : Apart(x, y) /\ Apart(y, x)
        BY <1>1, <1>3, <1>4, <2>1, <2>2
    <2>11. ApartList(done)
        BY <1>3, <1>4, <2>6, <2>7, <2>8, ApartJoin
    <2> HIDE DEF done
    <2>9. \A s \in ToSet(next), r \in ToSet(finished) : Apart(s, r) /\ Apart(r, s)
        BY <1>1, <1>2, <1>4, <2>1, <2>2
    <2>10. \A s \in ToSet(next), r \in ToSet(own) : Apart(s, r) /\ Apart(r, s)
        <3> SUFFICES ASSUME NEW s \in ToSet(next), NEW r \in ToSet(own)
                     PROVE  Apart(s, r) /\ Apart(r, s)
            OBVIOUS
        <3>1. PICK i \in 1..n : s \in ToSet(forks[i])
            BY <1>2
        <3>2. PICK j \in 1..n : r \in ToSet(results[j])
            BY <1>3
        <3>3. i # j
            <4>1. forks[i] # <<>> /\ results[j] # <<>>
                BY <2>3, <3>1, <3>2
            <4>. QED
                BY <4>1 DEF Types, n
        <3>. QED
            BY <1>1, <2>1, <2>2, <3>1, <3>2, <3>3
    <2>. QED
        BY <1>7, <2>6, <2>9, <2>10, <2>11
<1> HIDE DEF done
<1>11. IsGathered(next, done)
    BY <1>2, <1>7, <1>8, <1>9, <1>10 DEF IsGathered
<1>. QED
    BY <1>11 DEF next, done, own

LEMMA EndRoundKeepsInvariant ==
    ASSUME IInv, EndRound
    PROVE  IInv'
<1>1. PICK l : l = FlattenSeq(forks)
    OBVIOUS
<1>2. PICK done : done = finished \o FlattenSeq(results)
    OBVIOUS
<1>3. /\ RoundIsOver /\ setup' = setup /\ diags' = diags /\ recorded' = recorded
      /\ finished' = done /\ StartRound(l)
      /\ phase' = IF active' = <<>> THEN "parsed" ELSE "rounds"
    BY <1>1, <1>2 DEF EndRound, RoundIsOver
<1>4. Types
    BY DEF IInv
<1>5. IsGathered(l, done)
    BY <1>1, <1>2, <1>3, <1>4, Gathered
<1>6. IsList(l) /\ IsList(done) /\ ToSet(l) = Pending /\ ToSet(done) = Results
    BY <1>5 DEF IsGathered
<1>7. /\ active' = l /\ Len(l) \in Nat
      /\ IsList(forks') /\ IsList(results') /\ Len(forks') = Len(l) /\ Len(results') = Len(l)
      /\ todo' = 1..Len(l) /\ running' = 0
      /\ \A i \in 1..Len(l) :
            /\ forks'[i] = <<>> /\ results'[i] = <<>>
            /\ Pends(i)' = {l[i]} /\ Stands(i)' = <<l[i]>>
      /\ Pending' = ToSet(l) /\ Results' = ToSet(finished')
    BY <1>3, <1>6, StartRoundIs
<1>8. Pending' = Pending /\ Results' = Results
    BY <1>3, <1>6, <1>7
<1>9. End' = End /\ Worlds' = Worlds
    BY <1>3, SameSetup
<1>10. IsList(<<>>) /\ Len(<<>>) = 0
    BY EmptyList
<1>11. \A i \in 1..Len(l) : l[i] \in ToSet(l)
    BY <1>6, ListIs
<1>12. Types'
    <2>1. \A i \in 1..Len(l) : active'[i].pos \in 1..(End + 1)
        BY <1>6, <1>7, <1>11 DEF IInv, Sound, IsWorldSoFar
    <2>2. /\ phase' \in {"rounds", "parsed"} /\ (phase' # "rounds" => active' = <<>>)
          /\ setup' \in Setups /\ diags' \subseteq recorded'
        BY <1>3, <1>4 DEF Types
    <2>. QED
        BY <1>3, <1>6, <1>7, <1>9, <1>10, <2>1, <2>2 DEF Types
<1>13. Sound'
    BY <1>3, <1>8, SameWorlds DEF IInv, Sound
<1>14. Complete'
    <2>1. \A w : Accounted(w)' <=> Accounted(w)
        BY <1>3, <1>8 DEF Accounted
    <2>2. \A s, D : Future(s, D)' = Future(s, D)
        BY <1>3, SameSetup
    <2>3. \A w : Expected(w)' <=> Expected(w)
        BY <1>3, <1>8, <2>2 DEF Expected
    <2>4. \A w : Asked(w)' <=> Asked(w)
        BY <1>3, SameSetup
    <2>. QED
        BY <1>3, <1>9, <2>1, <2>3, <2>4 DEF IInv, Complete, RoundIsOver
<1>15. EachOnce'
    <2>1. \A i \in 0..Len(l) : i = 0 \/ i \in 1..Len(l)
        BY <1>7
    <2>2. Stands(0)' = done
        BY <1>3 DEF Stands
    <2>3. \A x : ApartList(<<x>>) /\ ToSet(<<x>>) = {x}
        BY ApartSingleton
    <2>4. \A i \in 1..Len(l) : ApartList(Stands(i)') /\ ToSet(Stands(i)') = {l[i]}
        BY <1>7, <2>3
    <2> SUFFICES ASSUME ChoicesDiffer
                 PROVE  /\ \A i \in 0..Len(l) : ApartList(Stands(i)')
                        /\ \A i, j \in 0..Len(l) : i # j =>
                              \A s \in ToSet(Stands(i)'), t \in ToSet(Stands(j)') : Apart(s, t)
        BY <1>3, <1>7, SameSetup DEF EachOnce, ApartList
    <2>5. /\ ApartList(l) /\ ApartList(done)
          /\ \A s \in ToSet(l), r \in ToSet(done) : Apart(s, r) /\ Apart(r, s)
        BY <1>5 DEF IsGathered, IInv
    <2>6. \A i \in 0..Len(l) : ApartList(Stands(i)')
        BY <2>1, <2>2, <2>4, <2>5
    <2>7. ASSUME NEW i \in 0..Len(l), NEW j \in 0..Len(l), i # j,
                 NEW s \in ToSet(Stands(i)'), NEW t \in ToSet(Stands(j)')
          PROVE  Apart(s, t)
        <3>1. CASE i = 0
            <4>1. j \in 1..Len(l)
                BY <2>1, <2>7, <3>1
            <4>. QED
                BY <1>11, <2>2, <2>4, <2>5, <2>7, <3>1, <4>1
        <3>2. CASE j = 0
            <4>1. i \in 1..Len(l)
                BY <2>1, <2>7, <3>2
            <4>. QED
                BY <1>11, <2>2, <2>4, <2>5, <2>7, <3>2, <4>1
        <3>3. CASE i # 0 /\ j # 0
            <4>1. i \in 1..Len(l) /\ j \in 1..Len(l)
                BY <2>1, <3>3
            <4>2. Apart(l[i], l[j])
                BY <2>5, <2>7, <4>1 DEF ApartList
            <4>. QED
                BY <2>4, <2>7, <4>1, <4>2
        <3>. QED
            BY <3>1, <3>2, <3>3
    <2>. QED
        BY <2>6, <2>7
<1>16. DiagnosticsAreKept'
    <2>1. Keeps({}) /\ phase' \in {"rounds", "parsed"}
        BY <1>3 DEF Keeps
    <2>. QED
        BY <2>1, KeepsDiagnostics DEF IInv
<1>. QED
    BY <1>12, <1>13, <1>14, <1>15, <1>16 DEF IInv

\* Everything but the outcome is as it was.
LEMMA OutcomeKeepsInvariant ==
    ASSUME IInv, UNCHANGED <<setup, active, todo, running, forks, results, finished, diags, recorded>>,
           \/ phase' = phase
           \/ phase = "parsed" /\ phase' \in {"ok", "no output", "failed"},
           DiagnosticsAreKept'
    PROVE  IInv'
<1>1. /\ setup' = setup /\ active' = active /\ forks' = forks /\ results' = results
      /\ finished' = finished /\ diags' = diags /\ recorded' = recorded
      /\ running' = running /\ todo' = todo
    OBVIOUS
<1>2. Waiting' = Waiting
    BY <1>1 DEF Waiting
<1>3. End' = End /\ Worlds' = Worlds
    BY <1>1, SameSetup
<1>4. Types'
    <2>1. /\ phase' \in {"start", "rounds", "parsed", "ok", "no output", "failed"}
          /\ phase' # "rounds" => active' = <<>>
          /\ phase' = "start" => finished' = <<>>
        BY <1>1 DEF IInv, Types
    <2>2. \A i \in 1..Len(active) :
              /\ active'[i].pos \in 1..(End + 1)
              /\ IsList(forks'[i]) /\ IsList(results'[i])
              /\ i \in Waiting' => forks'[i] = <<>> /\ results'[i] = <<>>
              /\ forks'[i] = <<>> \/ results'[i] = <<>>
              /\ Len(results'[i]) <= 1
        BY <1>1, <1>2 DEF IInv, Types
    <2>. QED
        BY <1>1, <1>3, <2>1, <2>2 DEF IInv, Types
<1>5. /\ \A j : Pends(j)' = Pends(j)
      /\ \A j : Stands(j)' = Stands(j)
    BY <1>1, <1>2 DEF Pends, Stands
<1>6. Pending' = Pending /\ Results' = Results
    BY <1>1, <1>5 DEF Pending, Results
<1>7. Sound'
    BY <1>1, <1>6, SameWorlds DEF IInv, Sound
<1>8. Complete'
    <2>1. \A w : Accounted(w)' <=> Accounted(w)
        BY <1>1, <1>6 DEF Accounted
    <2>2. \A s, D : Future(s, D)' = Future(s, D)
        BY <1>1, SameSetup
    <2>3. \A w : Expected(w)' <=> Expected(w)
        BY <1>1, <1>6, <2>2 DEF Expected
    <2>4. \A w : Asked(w)' <=> Asked(w)
        BY <1>1, SameSetup
    <2>5. phase' # "start" => phase # "start"
        OBVIOUS
    <2>. QED
        BY <1>3, <2>1, <2>3, <2>4, <2>5 DEF IInv, Complete
<1>9. EachOnce'
    <2>1. ChoicesDiffer' <=> ChoicesDiffer
        BY <1>1, SameSetup
    <2>. QED
        BY <1>1, <1>5, <2>1 DEF IInv, EachOnce, ApartList
<1>. QED
    BY <1>4, <1>7, <1>8, <1>9 DEF IInv

LEMMA ReportKeepsInvariant ==
    ASSUME IInv, Report
    PROVE  IInv'
<1>1. /\ UNCHANGED <<setup, active, todo, running, forks, results, finished, diags, recorded>>
      /\ phase = "parsed" /\ phase' \in {"ok", "no output", "failed"}
      /\ (\E d \in diags : IsError(d)) => phase' = "failed"
    BY DEF Report
<1>2. \A d \in recorded : Represented(d, diags)
    BY DEF IInv, DiagnosticsAreKept
<1>3. ErrorsFailTheBuild'
    <2>1. SUFFICES ASSUME phase' # "failed", NEW d \in recorded, d.kind \notin Warnings
                   PROVE  Labels(d) = <<>> /\ \E w \in recorded : Labels(w) = <<>> /\ w.kind \in Warnings
        BY <1>1 DEF ErrorsFailTheBuild, Labels
    <2>2. PICK e \in diags : Labels(e) = Labels(d)
        BY <1>2 DEF Represented
    <2>3. e.kind \in Warnings /\ e \in recorded
        BY <1>1, <2>1 DEF IsError, IInv, Types
    <2>4. e # d
        BY <2>1, <2>3
    <2>5. Labels(d) = <<>>
        <3>1. SUFFICES ASSUME Labels(d) # <<>> PROVE FALSE
            OBVIOUS
        <3>2. Labels(d) = <<d>> /\ Labels(e) = <<e>>
            BY <2>2, <3>1 DEF Labels
        <3>3. <<d>>[1] = d /\ <<e>>[1] = e
            OBVIOUS
        <3>. QED
            BY <2>2, <2>4, <3>2, <3>3
    <2>. QED
        BY <2>2, <2>3, <2>5
<1>4. DiagnosticsAreKept'
    <2>1. (\A d \in recorded : Represented(d, diags))'
        BY <1>1, <1>2 DEF Represented, Labels
    <2>. QED
        BY <1>3, <2>1 DEF DiagnosticsAreKept
<1>. QED
    BY <1>1, <1>4, OutcomeKeepsInvariant

LEMMA NothingKeepsInvariant ==
    ASSUME IInv, UNCHANGED vars
    PROVE  IInv'
<1>1. /\ UNCHANGED <<setup, active, todo, running, forks, results, finished, diags, recorded>>
      /\ phase' = phase
    BY DEF vars
<1>2. DiagnosticsAreKept'
    BY <1>1 DEF IInv, DiagnosticsAreKept, ErrorsFailTheBuild, Represented, Labels
<1>. QED
    BY <1>1, <1>2, OutcomeKeepsInvariant

LEMMA InitIsInvariant ==
    ASSUME Init
    PROVE  IInv
<1>1. IsList(<<>>) /\ ToSet(<<>>) = {} /\ Len(<<>>) = 0 /\ ApartList(<<>>)
    BY EmptyList DEF ApartList
<1>2. /\ setup \in Setups /\ active = <<>> /\ todo = {} /\ running = 0 /\ forks = <<>> /\ results = <<>>
      /\ finished = <<>> /\ diags = {} /\ recorded = {} /\ phase = "start"
    BY DEF Init
<1>3. 1..Len(active) = {} /\ 0..Len(active) = {0}
    BY <1>1, <1>2
<1>4. Types
    BY <1>1, <1>2, <1>3 DEF Types
<1>5. Pending = {} /\ Results = {}
    BY <1>1, <1>2, <1>3 DEF Pending, Results
<1>6. Sound
    BY <1>2, <1>5 DEF Sound
<1>7. Complete
    BY <1>2 DEF Complete
<1>8. EachOnce
    <2>1. Stands(0) = <<>>
        BY <1>2 DEF Stands
    <2>. QED
        BY <1>1, <1>3, <2>1 DEF EachOnce
<1>9. DiagnosticsAreKept
    BY <1>2 DEF DiagnosticsAreKept, ErrorsFailTheBuild
<1>. QED
    BY <1>4, <1>6, <1>7, <1>8, <1>9 DEF IInv

-----------------------------------------------------------------------------
(* What the invariant says at the end.                                     *)

LEMMA ApartListCounts ==
    ASSUME NEW l, IsList(l), ApartList(l), \A x \in ToSet(l) : ~Apart(x, x)
    PROVE  Len(l) = Cardinality(ToSet(l))
<1> DEFINE n == Len(l)
           S == ToSet(l)
<1>1. /\ n \in Nat /\ DOMAIN l = 1..n /\ l = [i \in 1..n |-> l[i]]
      /\ \A i \in 1..n : l[i] \in S
      /\ \A x \in S : \E i \in 1..n : l[i] = x
    BY ListIs
<1>2. \A i, j \in 1..n : i # j => l[i] # l[j]
    <2> SUFFICES ASSUME NEW i \in 1..n, NEW j \in 1..n, i # j, l[i] = l[j]
                 PROVE  FALSE
        OBVIOUS
    <2>1. Apart(l[i], l[j]) /\ ~Apart(l[i], l[i])
        BY <1>1 DEF ApartList
    <2>. QED
        BY <2>1
<1> HIDE DEF n, S
<1>3. l \in [1..n -> S]
    BY <1>1
<1>4. l \in Injection(1..n, S)
    BY <1>1, <1>2, <1>3 DEF Injection, IsInjective
<1>5. l \in Surjection(1..n, S)
    BY <1>1, <1>3 DEF Surjection
<1>6. ExistsBijection(1..n, S)
    BY <1>4, <1>5 DEF Bijection, ExistsBijection
<1>. QED
    BY <1>1, <1>6, FS_CountingElements DEF n, S

LEMMA AllHaveRun ==
    ASSUME IInv, phase = "parsed"
    PROVE  Pending = {} /\ Results = ToSet(finished)
<1>1. Len(active) = 0
    BY EmptyList DEF IInv, Types
<1>2. 1..Len(active) = {}
    BY <1>1
<1>. QED
    BY <1>2 DEF Pending, Results

LEMMA FinishedAreCounted ==
    ASSUME IInv, ChoicesDiffer
    PROVE  Len(finished) = Cardinality(ToSet(finished))
<1>1. IsList(finished) /\ setup \in Setups /\ IsList(active)
    BY DEF IInv, Types
<1>2. Len(active) \in Nat
    BY <1>1, ListIs
<1>3. 0 \in 0..Len(active) /\ Stands(0) = finished
    BY <1>2 DEF Stands
<1>4. ApartList(finished)
    BY <1>3 DEF IInv, EachOnce
<1>5. ASSUME NEW r \in ToSet(finished), Apart(r, r)
      PROVE  FALSE
    BY <1>5 DEF Apart
<1>. QED
    BY <1>1, <1>4, <1>5, ApartListCounts

LEMMA ResultsFollow ==
    ASSUME IInv
    PROVE  ResultsAreTheWorlds
<1> SUFFICES ASSUME phase = "parsed"
             PROVE  ResultsAreTheWorlds
    BY DEF ResultsAreTheWorlds
<1> DEFINE wanted == UNION {ToSet(Finish(w.state)) : w \in {x \in Worlds : Asked(x)}}
<1>1. Pending = {} /\ Results = ToSet(finished)
    BY AllHaveRun
<1>2. \A r : r \in wanted <=> IsWanted(r)
    BY DEF IsWanted
<1> HIDE DEF wanted
<1>3. ASSUME NEW r, IsWanted(r)
      PROVE  r \in Results
    <2>1. PICK w \in Worlds : Asked(w) /\ r \in ToSet(Finish(w.state))
        BY <1>3 DEF IsWanted
    <2>2. Accounted(w) \/ Expected(w)
        BY <2>1 DEF IInv, Complete
    <2>3. Accounted(w)
        BY <1>1, <2>2 DEF Expected
    <2>. QED
        BY <2>1, <2>3 DEF Accounted
<1>4. \A r : r \in ToSet(finished) <=> r \in wanted
    BY <1>1, <1>2, <1>3 DEF IInv, Sound
<1>5. ToSet(finished) = wanted
    BY <1>4
<1>6. ChoicesDiffer => Len(finished) = Cardinality(wanted)
    BY <1>5, FinishedAreCounted
<1>. QED
    BY <1>5, <1>6 DEF ResultsAreTheWorlds, wanted

LEMMA DiagnosticsFollow ==
    ASSUME IInv
    PROVE  DiagnosticsAreTheWorlds
<1> SUFFICES ASSUME phase = "parsed"
             PROVE  /\ \A w \in Worlds : Asked(w) => Reports(w) \subseteq recorded
                    /\ \A d \in recorded : \E w \in Worlds : d \in Reports(w)
    BY DEF DiagnosticsAreTheWorlds
<1>1. Pending = {}
    BY AllHaveRun
<1>2. \A w \in Worlds : Asked(w) => Reports(w) \subseteq recorded
    BY <1>1 DEF IInv, Complete, Accounted, Expected
<1>3. \A d \in recorded : \E w \in Worlds : d \in Reports(w)
    BY DEF IInv, Sound, IsReported
<1>. QED
    BY <1>2, <1>3

LEMMA TypesFollow ==
    ASSUME Types
    PROVE  NoPanic
<1>1. /\ IsList(active) /\ IsList(forks) /\ IsList(results)
      /\ Len(forks) = Len(active) /\ Len(results) = Len(active)
    BY DEF Types
<1>2. /\ DOMAIN active = 1..Len(active) /\ DOMAIN forks = 1..Len(forks)
      /\ DOMAIN results = 1..Len(results) /\ Len(active) \in Nat
    BY <1>1, ListIs
<1>3. DOMAIN forks = DOMAIN active /\ DOMAIN results = DOMAIN active
    BY <1>1, <1>2
<1>4. \A i \in DOMAIN active :
          /\ active[i].pos \in 1..(Len(Statements) + 1)
          /\ i \in todo \cup {running} => forks[i] = <<>> /\ results[i] = <<>>
          /\ forks[i] = <<>> \/ results[i] = <<>>
          /\ Len(results[i]) <= 1
    <2> SUFFICES ASSUME NEW i \in 1..Len(active)
                 PROVE  /\ active[i].pos \in 1..(End + 1)
                        /\ i \in todo \cup {running} => forks[i] = <<>> /\ results[i] = <<>>
                        /\ forks[i] = <<>> \/ results[i] = <<>>
                        /\ Len(results[i]) <= 1
        BY <1>2 DEF End
    <2>1. i # 0
        BY <1>2
    <2>2. i \in todo \cup {running} => i \in Waiting
        BY <2>1 DEF Waiting
    <2>. QED
        BY <2>2 DEF Types
<1>5. todo \subseteq DOMAIN active /\ running \in {0} \cup (DOMAIN active \ todo)
    BY <1>2 DEF Types
<1>6. phase \in {"start", "rounds", "parsed"} \cup Outcomes /\ phase # "panicked" /\ diags \subseteq recorded
    BY DEF Types, Outcomes
<1>7. TypeOK
    BY <1>3, <1>4, <1>5, <1>6 DEF TypeOK
<1>. QED
    BY <1>6, <1>7 DEF NoPanic

-----------------------------------------------------------------------------
(* Every step keeps the invariant: the options, directives and code lines  *)
(* a sub-state reads, the end of its input, the scheduler's choice of the  *)
(* next thread, the rounds and the outcome.                                *)
THEOREM Invariance == Spec => []IInv
<1>1. Init => IInv
    BY InitIsInvariant
<1>2. IInv /\ [Next]_vars => IInv'
    <2> SUFFICES ASSUME IInv, [Next]_vars
                 PROVE  IInv'
        OBVIOUS
    <2>1. CASE Start
        BY <2>1, StartKeepsInvariant
    <2>2. CASE \E i \in todo : TakeLock(i)
        BY <2>2, TakeLockKeepsInvariant
    <2>3. CASE RunSubState
        <3>1. ReadStatement \/ EndOfInput
            BY <2>3 DEF RunSubState, ReadStatement, OptionKinds
        <3>2. CASE ReadStatement
            BY <3>2, StatementSteps, StepKeepsInvariant
        <3>3. CASE EndOfInput
            BY <3>3, EndKeepsInvariant
        <3>. QED
            BY <3>1, <3>2, <3>3
    <2>4. CASE EndRound
        BY <2>4, EndRoundKeepsInvariant
    <2>5. CASE Report
        BY <2>5, ReportKeepsInvariant
    <2>6. CASE Done \/ UNCHANGED vars
        BY <2>6, NothingKeepsInvariant DEF Done
    <2>. QED
        BY <2>1, <2>2, <2>3, <2>4, <2>5, <2>6 DEF Next
<1>. QED
    BY <1>1, <1>2, PTL DEF Spec

(* Whatever order the sub-states of each round run in, a finished parse    *)
(* has exactly the results of the worlds the command line asks for, and,   *)
(* when no statement offers the same choice twice, each of them once.      *)
THEOREM ResultsAreTheWorldsAlways == Spec => []ResultsAreTheWorlds
<1>1. IInv => ResultsAreTheWorlds
    BY ResultsFollow
<1>. QED
    BY <1>1, Invariance, PTL

(* A finished parse has recorded every diagnostic of every world asked     *)
(* for, and nothing that no world would report.                            *)
THEOREM DiagnosticsAreTheWorldsAlways == Spec => []DiagnosticsAreTheWorlds
<1>1. IInv => DiagnosticsAreTheWorlds
    BY DiagnosticsFollow
<1>. QED
    BY <1>1, Invariance, PTL

(* A sub-state leaves forks or a result, never both, and the assertion of  *)
(* ParseSubState::step never fails.                                        *)
THEOREM NoPanicAlways == Spec => []NoPanic
<1>1. IInv => NoPanic
    BY TypesFollow DEF IInv
<1>. QED
    BY <1>1, Invariance, PTL

(* A program is generated in spite of an error only when the error has no  *)
(* label and a warning without any was recorded: merging by labels loses   *)
(* no other error.                                                         *)
THEOREM ErrorsFailTheBuildAlways == Spec => []ErrorsFailTheBuild
<1>1. IInv => ErrorsFailTheBuild
    BY DEF IInv, DiagnosticsAreKept
<1>. QED
    BY <1>1, Invariance, PTL
=============================================================================
