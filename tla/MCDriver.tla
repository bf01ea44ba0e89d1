----------------------------- MODULE MCDriver -----------------------------
(* For the zips, up to two builds per target, of every format and every    *)
(* fate of their code, with equal and different settings, names, versions. *)
EXTENDS Driver

CONSTANTS b1, s1, s2, n1, n2, v1, v2

Patch(settings, name, version, format, assembles, refused) ==
    [settings |-> settings, build |-> b1, name |-> name, version |-> version,
     format |-> format, assembles |-> assembles, refused |-> refused, trap |-> "none"]

\* Builds that break an assertion, before the zip is begun and while it is written.
Trapped == {[Patch(<<s1>>, n1, v1, f, TRUE, FALSE) EXCEPT !.trap = x] :
               f \in {NoFormat, "Pchtxt"}, x \in {"assemble", "ips"}}

Formats == {NoFormat, "Ips", "Pchtxt"}

\* The first build of a target.
First == {Patch(<<s1>>, n1, v1, f, a, r) : f \in Formats, a \in BOOLEAN, r \in BOOLEAN}

\* The second: other settings, or the same (two choices of one name); another name or version.
Second ==
    {Patch(<<s2>>, n1, v1, f, TRUE, r) : f \in Formats, r \in BOOLEAN} \cup
    {Patch(<<s2>>, n2, v2, NoFormat, a, FALSE) : a \in BOOLEAN} \cup
    {Patch(<<s1>>, n1, v2, f, TRUE, FALSE) : f \in {NoFormat, "Pchtxt"}}

MCPatches == First \cup Second \cup Trapped

Lists == {<<>>} \cup {<<p>> : p \in First} \cup {<<p, q>> : p \in First, q \in Second}
         \cup {<<p, q>> : p \in Trapped, q \in {x \in Second : x.assembles}}

\* The other target has one build, or none.
Few == {<<>>} \cup {<<p>> : p \in {x \in First : x.assembles} \cup Trapped}

MCInputs ==
    {[t \in Targets |-> IF t = "hardware" THEN h ELSE e] : h \in Lists, e \in Few} \cup
    {[t \in Targets |-> IF t = "emulator" THEN e ELSE h] : e \in Lists, h \in Few}
=============================================================================
