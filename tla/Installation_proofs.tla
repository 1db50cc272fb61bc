-------------------------- MODULE Installation_proofs --------------------------
(***************************************************************************)
(* Proofs about Installation, for any keys, contents, edits and kills.     *)
(* What Configured makes of a configuration is shown first, by induction   *)
(* over its lines; the invariant of an installation rests on that.         *)
(***************************************************************************)
EXTENDS Installation, Induction, SequenceTheorems

-------------------------------------------------------------------------------
(* What Configured makes of any configuration. *)

(* Scan is defined: after no line, and after one more than that.           *)
LEMMA Scanned ==
    ASSUME NEW c \in Seq(Line)
    PROVE  /\ Scan(c)[0] = [out |-> <<>>, inside |-> FALSE, saw |-> FALSE, on |-> FALSE]
           /\ \A i \in 0..Len(c) :
                 i + 1 \in 0..Len(c) => Scan(c)[i + 1] = Take(Scan(c)[i], c[i + 1])
<1> DEFINE Start == [out |-> <<>>, inside |-> FALSE, saw |-> FALSE, on |-> FALSE]
           Loop(k, f) == f = [i \in 0..k |-> IF i = 0 THEN Start ELSE Take(f[i - 1], c[i])]
           S == {k \in Nat : \E f : Loop(k, f)}
<1> HIDE DEF Start
<1>1. 0 \in S
  <2>1. Loop(0, [i \in 0..0 |-> Start]) OBVIOUS
  <2>2. QED BY <2>1
<1>2. ASSUME NEW k \in Nat, k \in S PROVE k + 1 \in S
  <2>1. PICK f : Loop(k, f) BY <1>2
  <2> DEFINE g == [i \in 0..k + 1 |-> IF i = k + 1 THEN Take(f[k], c[k + 1]) ELSE f[i]]
  <2>2. \A i \in 0..k : g[i] = f[i] OBVIOUS
  <2>3. ASSUME NEW i \in 0..k + 1
        PROVE  g[i] = IF i = 0 THEN Start ELSE Take(g[i - 1], c[i])
    <3>1. CASE i = 0 BY <2>1, <2>2, <3>1
    <3>2. CASE i # 0
      <4>1. i - 1 \in 0..k /\ g[i - 1] = f[i - 1] BY <2>2, <3>2
      <4>2. CASE i = k + 1
        <5>1. g[i] = Take(f[k], c[k + 1]) /\ i - 1 = k BY <4>2
        <5>2. QED BY <3>2, <4>1, <4>2, <5>1
      <4>3. CASE i # k + 1
        <5>1. i \in 0..k BY <4>3
        <5>2. f[i] = Take(f[i - 1], c[i]) BY <2>1, <3>2, <5>1
        <5>3. QED BY <2>2, <3>2, <4>1, <5>1, <5>2
      <4>4. QED BY <4>2, <4>3
    <3>3. QED BY <3>1, <3>2
  <2>4. Loop(k + 1, g)
    <3> HIDE DEF g
    <3>1. DOMAIN g = 0..k + 1 /\ g = [i \in 0..k + 1 |-> g[i]] BY DEF g
    <3>2. QED BY <2>3, <3>1
  <2>5. k + 1 \in S
    <3> HIDE DEF g, Loop
    <3>1. QED BY <2>4
  <2>6. QED BY <2>5
<1>3. Len(c) \in Nat BY LenProperties
<1>4. Len(c) \in S
  <2> HIDE DEF S
  <2>1. QED BY <1>1, <1>2, <1>3, Induct
<1>5. \E f : Loop(Len(c), f) BY <1>4
<1>6. Scan(c) = CHOOSE f : Loop(Len(c), f) BY DEF Scan, Start
<1>7. Loop(Len(c), Scan(c)) BY <1>5, <1>6
<1>8. \A i \in 0..Len(c) :
         Scan(c)[i] = IF i = 0 THEN Start ELSE Take(Scan(c)[i - 1], c[i])
      BY <1>7
<1>9. ASSUME NEW i \in 0..Len(c), i + 1 \in 0..Len(c)
      PROVE  Scan(c)[i + 1] = Take(Scan(c)[i], c[i + 1])
  <2>1. i + 1 # 0 /\ (i + 1) - 1 = i BY <1>3
  <2>2. QED BY <1>8, <1>9, <2>1
<1>10. Scan(c)[0] = Start BY <1>3, <1>8
<1>11. QED BY <1>9, <1>10 DEF Start

-------------------------------------------------------------------------------
(* Contents. *)

LEMMA PrefixOf ==
    ASSUME NEW S, NEW s \in Seq(S), NEW k \in 0..Len(s)
    PROVE  /\ SubSeq(s, 1, k) \in Seq(S) /\ Len(SubSeq(s, 1, k)) = k
           /\ \A i \in 1..k : SubSeq(s, 1, k)[i] = s[i]
<1>1. Len(s) \in Nat /\ k \in Nat /\ k <= Len(s) /\ 1 \in Int /\ k \in Int BY LenProperties
<1>2. \A i \in 1..k : s[i] \in S BY <1>1, ElementOfSeq
<1>3. /\ SubSeq(s, 1, k) \in Seq(S)
      /\ Len(SubSeq(s, 1, k)) = IF 1 <= k THEN k - 1 + 1 ELSE 0
      /\ \A i \in 1..k - 1 + 1 : SubSeq(s, 1, k)[i] = s[1 + i - 1]
      BY <1>1, <1>2, SubSeqProperties
<1>4. QED BY <1>1, <1>3

(* A sequence with another one behind it. *)
LEMMA BehindOf ==
    ASSUME NEW s \in Seq(Line), NEW t \in Seq(Line)
    PROVE  /\ s \o t \in Seq(Line) /\ Len(s \o t) = Len(s) + Len(t)
           /\ \A i \in 1..Len(s) : (s \o t)[i] = s[i]
           /\ \A i \in 1..Len(t) : (s \o t)[Len(s) + i] = t[i]
           /\ Len(s) \in Nat /\ Len(t) \in Nat
<1>1. Len(s) \in Nat /\ Len(t) \in Nat BY LenProperties
<1>2. /\ s \o t \in Seq(Line) /\ Len(s \o t) = Len(s) + Len(t)
      /\ \A i \in 1..Len(s) + Len(t) : (s \o t)[i] = IF i <= Len(s) THEN s[i] ELSE t[i - Len(s)]
      BY ConcatProperties, Zenon
<1>3. ASSUME NEW i \in 1..Len(s) PROVE (s \o t)[i] = s[i] BY <1>1, <1>2
<1>4. ASSUME NEW i \in 1..Len(t) PROVE (s \o t)[Len(s) + i] = t[i]
  <2>1. Len(s) + i \in 1..Len(s) + Len(t) /\ ~(Len(s) + i <= Len(s)) /\ Len(s) + i - Len(s) = i
        BY <1>1
  <2>2. QED BY <1>2, <2>1
<1>5. QED BY <1>1, <1>2, <1>3, <1>4

LEMMA KindsOfLines ==
    /\ Key \subseteq Line /\ Flag \subseteq Line /\ Header \subseteq Line /\ Silent \subseteq Line
    /\ Key \cap Flag = {} /\ Key \cap Header = {} /\ Key \cap Silent = {}
    /\ Flag \cap Header = {} /\ Flag \cap Silent = {} /\ Header \cap Silent = {}
    /\ On \in Flag
    /\ "<features>" \in Header /\ "<<hooks>>" \in Header /\ "<features>" # "<<hooks>>"
    /\ "blank" \in Silent /\ "hook" \in Silent /\ "permission" \in Silent
    /\ {"part", "hook_part"} \subseteq Silent
<1>1. Key \cap Flag = {} /\ Key \cap Header = {} /\ Key \cap Silent = {} BY KeysAreOwn
<1>2. Flag \cap Header = {} /\ Flag \cap Silent = {} /\ Header \cap Silent = {}
      BY DEF Flag, On, Header, Silent
<1>3. QED BY <1>1, <1>2 DEF Line, Flag, On, Header, Silent

(* The section of a line depends on the lines up to it. *)
LEMMA SameSection ==
    ASSUME NEW c, NEW d, NEW i \in Nat, \A k \in 1..i : c[k] = d[k]
    PROVE  SectionOf(c, i) = SectionOf(d, i)
<1> DEFINE Open(b) == {h \in 1..i : b[h] \in Header /\ \A k \in h + 1 .. i : b[k] \notin Header}
<1>1. ASSUME NEW h \in 1..i PROVE c[h] = d[h] /\ \A k \in h + 1 .. i : c[k] = d[k] OBVIOUS
<1>2. \A h \in 1..i : h \in Open(c) <=> h \in Open(d) BY <1>1
<1>3. Open(c) = Open(d) BY <1>2
<1>4. \A h \in Open(c) : c[h] = d[h] BY <1>1
<1>5. SectionOf(c, i) = {c[h] : h \in Open(c)} /\ SectionOf(d, i) = {d[h] : h \in Open(d)}
      BY DEF SectionOf
<1> HIDE DEF Open
<1>6. QED BY <1>3, <1>4, <1>5

(* A header opens a section, and any other line stays in the one it is in. *)
LEMMA NextSection ==
    ASSUME NEW c, NEW n \in Nat
    PROVE  /\ SectionOf(c, 0) = {}
           /\ SectionOf(c, n + 1) = IF c[n + 1] \in Header THEN {c[n + 1]} ELSE SectionOf(c, n)
<1> DEFINE Open(i) == {h \in 1..i : c[h] \in Header /\ \A k \in h + 1 .. i : c[k] \notin Header}
<1>1. \A i \in Nat : SectionOf(c, i) = {c[h] : h \in Open(i)} BY DEF SectionOf
<1>2. Open(0) = {} OBVIOUS
<1>3. ASSUME c[n + 1] \in Header PROVE Open(n + 1) = {n + 1}
  <2>1. n + 1 \in Open(n + 1) BY <1>3
  <2>2. ASSUME NEW h \in Open(n + 1) PROVE h = n + 1
    <3>1. h # n + 1 => n + 1 \in h + 1 .. n + 1 OBVIOUS
    <3>2. QED BY <1>3, <3>1
  <2>3. QED BY <2>1, <2>2
<1>4. ASSUME c[n + 1] \notin Header PROVE Open(n + 1) = Open(n)
  <2>1. ASSUME NEW h \in Open(n + 1) PROVE h \in Open(n)
    <3>1. h \in 1..n BY <1>4
    <3>2. \A k \in h + 1 .. n : k \in h + 1 .. n + 1 OBVIOUS
    <3>3. QED BY <3>1, <3>2
  <2>2. ASSUME NEW h \in Open(n) PROVE h \in Open(n + 1)
    <3>1. \A k \in h + 1 .. n + 1 : k \in h + 1 .. n \/ k = n + 1 OBVIOUS
    <3>2. QED BY <1>4, <3>1
  <2>3. QED BY <2>1, <2>2
<1> HIDE DEF Open
<1>5. SectionOf(c, 0) = {} BY <1>1, <1>2
<1>6. CASE c[n + 1] \in Header
  <2>1. SectionOf(c, n + 1) = {c[h] : h \in {n + 1}} BY <1>1, <1>3, <1>6
  <2>2. QED BY <1>5, <1>6, <2>1
<1>7. CASE c[n + 1] \notin Header
  <2>1. Open(n + 1) = Open(n) BY <1>4, <1>7
  <2>2. n + 1 \in Nat OBVIOUS
  <2>3. SectionOf(c, n + 1) = {c[h] : h \in Open(n + 1)} BY <1>1, <2>2, Zenon
  <2>4. SectionOf(c, n) = {c[h] : h \in Open(n)} BY <1>1, Zenon
  <2>5. SectionOf(c, n + 1) = SectionOf(c, n) BY <2>1, <2>3, <2>4, Zenon
  <2>6. QED BY <1>5, <1>7, <2>5
<1>8. QED BY <1>6, <1>7

-------------------------------------------------------------------------------
(* One more line. *)

(* The section that a further line would be in. *)
End(c) == SectionOf(c, Len(c))

Tables(c) == {i \in DOMAIN c : c[i] = "<features>"}

(* The lines that say something to the user. *)
Sayings(c) ==
    {i \in DOMAIN c : c[i] \in Key \/ (c[i] \in Flag /\ SectionOf(c, i) # {"<features>"})}

LEMMA Appended ==
    ASSUME NEW c \in Seq(Line), NEW line \in Line
    PROVE  LET d == Append(c, line)
               n == Len(c)
           IN  /\ n \in Nat /\ d \in Seq(Line) /\ Len(d) = n + 1
               /\ \A i \in 1..n : d[i] = c[i]
               /\ d[n + 1] = line
               /\ DOMAIN c = 1..n /\ DOMAIN d = 1..n + 1
<1>1. QED BY AppendProperties, LenProperties

LEMMA OneMore ==
    ASSUME NEW c \in Seq(Line), NEW line \in Line
    PROVE  LET d == Append(c, line)
               n == Len(c) + 1
           IN  /\ End(d) = IF line \in Header THEN {line} ELSE End(c)
               /\ Switches(d) = Switches(c) \cup IF line \in Flag /\ End(c) = {"<features>"}
                                                THEN {n} ELSE {}
               /\ Tables(d) = Tables(c) \cup IF line = "<features>" THEN {n} ELSE {}
               /\ Meaning(d) = Meaning(c) \cup
                                  IF line \in Key \/ (line \in Flag /\ End(c) # {"<features>"})
                                  THEN {<<End(c), line>>} ELSE {}
               /\ n \notin Switches(c) /\ n \notin Tables(c)
<1> DEFINE d == Append(c, line)
           n == Len(c)
<1>1. /\ n \in Nat /\ d \in Seq(Line) /\ Len(d) = n + 1
      /\ \A i \in 1..n : d[i] = c[i]
      /\ d[n + 1] = line
      /\ DOMAIN c = 1..n /\ DOMAIN d = 1..n + 1
      BY Appended
<1> HIDE DEF d
<1>2. \A i \in 0..n : SectionOf(d, i) = SectionOf(c, i)
  <2>1. ASSUME NEW i \in 0..n PROVE SectionOf(d, i) = SectionOf(c, i)
    <3>1. i \in Nat /\ \A k \in 1..i : d[k] = c[k] BY <1>1
    <3>2. QED BY <3>1, SameSection
  <2>2. QED BY <2>1
<1>3. SectionOf(d, n + 1) = IF line \in Header THEN {line} ELSE End(c)
  <2>1. SectionOf(d, n + 1) = IF line \in Header THEN {line} ELSE SectionOf(d, n)
        BY <1>1, NextSection
  <2>2. QED BY <1>1, <1>2, <2>1 DEF End
<1>4. End(d) = IF line \in Header THEN {line} ELSE End(c) BY <1>1, <1>3 DEF End
<1>5. line \in Flag \cup Key => SectionOf(d, n + 1) = End(c) BY <1>3, KindsOfLines
<1>6. \A i \in 1..n : SectionOf(d, i) = SectionOf(c, i) /\ d[i] = c[i] BY <1>1, <1>2
<1>7. 1..n + 1 = 1..n \cup {n + 1} /\ n + 1 \notin 1..n BY <1>1
<1> HIDE DEF n
<1>8. Switches(d) = Switches(c) \cup IF line \in Flag /\ End(c) = {"<features>"}
                                     THEN {n + 1} ELSE {}
      BY <1>1, <1>5, <1>6, <1>7 DEF Switches
<1>9. Tables(d) = Tables(c) \cup IF line = "<features>" THEN {n + 1} ELSE {}
      BY <1>1, <1>6, <1>7 DEF Tables
<1>10. Sayings(d) = Sayings(c) \cup
          IF line \in Key \/ (line \in Flag /\ End(c) # {"<features>"}) THEN {n + 1} ELSE {}
       BY <1>1, <1>5, <1>6, <1>7 DEF Sayings
<1>11. Sayings(c) \subseteq 1..n BY <1>1 DEF Sayings
<1>12. Meaning(c) = {<<SectionOf(c, i), c[i]>> : i \in Sayings(c)} BY DEF Meaning, Sayings
<1>13. Meaning(d) = {<<SectionOf(d, i), d[i]>> : i \in Sayings(d)} BY DEF Meaning, Sayings
<1>14. {<<SectionOf(d, i), d[i]>> : i \in Sayings(c)} = Meaning(c) BY <1>6, <1>11, <1>12
<1>15. Meaning(d) = Meaning(c) \cup
          IF line \in Key \/ (line \in Flag /\ End(c) # {"<features>"})
          THEN {<<End(c), line>>} ELSE {}
  <2>1. CASE line \in Key \/ (line \in Flag /\ End(c) # {"<features>"})
    <3>1. Sayings(d) = Sayings(c) \cup {n + 1} BY <1>10, <2>1
    <3>2. <<SectionOf(d, n + 1), d[n + 1]>> = <<End(c), line>> BY <1>1, <1>5, <2>1
    <3>3. QED BY <1>13, <1>14, <2>1, <3>1, <3>2
  <2>2. CASE ~(line \in Key \/ (line \in Flag /\ End(c) # {"<features>"}))
    <3>1. Sayings(d) = Sayings(c) BY <1>10, <2>2
    <3>2. QED BY <1>13, <1>14, <2>2, <3>1
  <2>3. QED BY <2>1, <2>2
<1>16. n + 1 \notin Switches(c) /\ n + 1 \notin Tables(c) BY <1>1, <1>7 DEF Switches, Tables
<1>17. QED BY <1>4, <1>8, <1>9, <1>15, <1>16 DEF d, n

LEMMA OneMoreTable ==
    ASSUME NEW c \in Seq(Line)
    PROVE  LET d == Append(c, "<features>")
           IN  /\ d \in Seq(Line)
               /\ End(d) = {"<features>"} /\ Switches(d) = Switches(c) /\ Meaning(d) = Meaning(c)
               /\ Tables(d) = Tables(c) \cup {Len(c) + 1} /\ Len(c) + 1 \notin Tables(c)
<1> DEFINE d == Append(c, "<features>")
<1>1. /\ "<features>" \in Header /\ "<features>" \in Line
      /\ "<features>" \notin Flag /\ "<features>" \notin Key
      BY KindsOfLines
<1>2. d \in Seq(Line) BY <1>1, Appended
<1>3. End(d) = {"<features>"} BY <1>1, OneMore, ZenonT(20)
<1>4. Switches(d) = Switches(c) BY <1>1, OneMore, ZenonT(20)
<1>5. Meaning(d) = Meaning(c) BY <1>1, OneMore, ZenonT(20)
<1>6. Tables(d) = Tables(c) \cup {Len(c) + 1} /\ Len(c) + 1 \notin Tables(c)
  BY <1>1, OneMore, ZenonT(20)
<1> HIDE DEF d
<1>7. QED BY <1>2, <1>3, <1>4, <1>5, <1>6 DEF d

LEMMA OneMoreHeader ==
    ASSUME NEW c \in Seq(Line), NEW line \in Header \ {"<features>"}
    PROVE  LET d == Append(c, line)
           IN  /\ d \in Seq(Line)
               /\ End(d) = {line} /\ Switches(d) = Switches(c) /\ Meaning(d) = Meaning(c)
               /\ Tables(d) = Tables(c)
<1> DEFINE d == Append(c, line)
<1>1. line \in Line /\ line \notin Flag /\ line \notin Key BY KindsOfLines
<1>2. d \in Seq(Line) BY <1>1, Appended
<1>3. End(d) = {line} BY <1>1, OneMore, ZenonT(20)
<1>4. Switches(d) = Switches(c) BY <1>1, OneMore, ZenonT(20)
<1>5. Meaning(d) = Meaning(c)
  <2>1. ~(line \in Key \/ (line \in Flag /\ End(c) # {"<features>"})) BY <1>1
  <2>2. Meaning(d) = Meaning(c) \cup
           IF line \in Key \/ (line \in Flag /\ End(c) # {"<features>"})
           THEN {<<End(c), line>>} ELSE {}
        BY <1>1, OneMore, ZenonT(20)
  <2> HIDE DEF d
  <2>3. QED BY <2>1, <2>2
<1>6. Tables(d) = Tables(c) BY <1>1, OneMore, ZenonT(20)
<1> HIDE DEF d
<1>7. QED BY <1>2, <1>3, <1>4, <1>5, <1>6 DEF d

LEMMA OneMoreSwitch ==
    ASSUME NEW c \in Seq(Line), NEW line \in Flag, End(c) = {"<features>"}
    PROVE  LET d == Append(c, line)
           IN  /\ d \in Seq(Line)
               /\ End(d) = End(c) /\ Meaning(d) = Meaning(c) /\ Tables(d) = Tables(c)
               /\ Switches(d) = Switches(c) \cup {Len(c) + 1} /\ Len(c) + 1 \notin Switches(c)
<1> DEFINE d == Append(c, line)
<1>1. line \in Line /\ line \notin Header /\ line \notin Key /\ line # "<features>"
      BY KindsOfLines
<1>2. d \in Seq(Line) BY <1>1, Appended
<1>3. End(d) = End(c) BY <1>1, OneMore, ZenonT(20)
<1>4. Tables(d) = Tables(c) BY <1>1, OneMore, ZenonT(20)
<1>5. Switches(d) = Switches(c) \cup {Len(c) + 1} /\ Len(c) + 1 \notin Switches(c)
      BY <1>1, OneMore, ZenonT(20)
<1>6. Meaning(d) = Meaning(c)
  <2>1. ~(line \in Key \/ (line \in Flag /\ End(c) # {"<features>"})) BY <1>1
  <2>2. Meaning(d) = Meaning(c) \cup
           IF line \in Key \/ (line \in Flag /\ End(c) # {"<features>"})
           THEN {<<End(c), line>>} ELSE {}
        BY <1>1, OneMore, ZenonT(20)
  <2> HIDE DEF d
  <2>3. QED BY <2>1, <2>2
<1> HIDE DEF d
<1>7. QED BY <1>2, <1>3, <1>4, <1>5, <1>6 DEF d

(* Any other line is the user's, or says nothing. *)
LEMMA OneMoreOther ==
    ASSUME NEW c \in Seq(Line), NEW line \in Line \ Header,
           ~(line \in Flag /\ End(c) = {"<features>"})
    PROVE  LET d == Append(c, line)
           IN  /\ d \in Seq(Line)
               /\ End(d) = End(c) /\ Tables(d) = Tables(c) /\ Switches(d) = Switches(c)
               /\ Meaning(d) = Meaning(c) \cup IF line \in Silent THEN {} ELSE {<<End(c), line>>}
<1>1. line # "<features>" /\ (line \in Silent <=> line \notin Key \cup Flag)
      BY KindsOfLines DEF Line
<1>2. line \notin Silent <=> line \in Key \/ (line \in Flag /\ End(c) # {"<features>"})
      BY <1>1
<1> DEFINE d == Append(c, line)
<1>3. d \in Seq(Line) BY Appended
<1>4. /\ End(d) = End(c)
      /\ Tables(d) = Tables(c)
      /\ Switches(d) = Switches(c)
  <2>1. End(d) = End(c) BY <1>1, OneMore, ZenonT(20)
  <2>2. Tables(d) = Tables(c) BY <1>1, OneMore, ZenonT(20)
  <2>3. Switches(d) = Switches(c) BY <1>1, OneMore, ZenonT(20)
  <2>4. QED BY <2>1, <2>2, <2>3
<1>5. Meaning(d) = Meaning(c) \cup
         IF line \in Key \/ (line \in Flag /\ End(c) # {"<features>"})
         THEN {<<End(c), line>>} ELSE {}
      BY <1>1, OneMore, ZenonT(20)
<1> HIDE DEF d
<1>6. Meaning(d) = Meaning(c) \cup IF line \in Silent THEN {} ELSE {<<End(c), line>>}
      BY <1>2, <1>5
<1>7. QED BY <1>3, <1>4, <1>6 DEF d

LEMMA Prefix ==
    ASSUME NEW c \in Seq(Line), NEW n \in 0..Len(c)
    PROVE  /\ SubSeq(c, 1, n) \in Seq(Line) /\ Len(SubSeq(c, 1, n)) = n
           /\ \A i \in 1..n : SubSeq(c, 1, n)[i] = c[i]
           /\ n \in Nat /\ Len(c) \in Nat /\ DOMAIN c = 1..Len(c) /\ DOMAIN SubSeq(c, 1, n) = 1..n
<1>1. n \in Nat /\ Len(c) \in Nat /\ DOMAIN c = 1..Len(c) BY LenProperties
<1>2. /\ SubSeq(c, 1, n) \in Seq(Line) /\ Len(SubSeq(c, 1, n)) = n
      /\ \A i \in 1..n : SubSeq(c, 1, n)[i] = c[i]
      BY PrefixOf
<1>3. DOMAIN SubSeq(c, 1, n) = 1..n BY <1>2, LenProperties
<1>4. QED BY <1>1, <1>2, <1>3

(* What the first lines have of each kind, the whole has as well.          *)
LEMMA PrefixHasLess ==
    ASSUME NEW c \in Seq(Line), NEW n \in 0..Len(c)
    PROVE  LET d == SubSeq(c, 1, n)
           IN  /\ Switches(d) = Switches(c) \cap 1..n
               /\ Tables(d) = Tables(c) \cap 1..n
               /\ Sayings(d) = Sayings(c) \cap 1..n
               /\ Meaning(d) = {<<SectionOf(c, i), c[i]>> : i \in Sayings(c) \cap 1..n}
<1> DEFINE d == SubSeq(c, 1, n)
<1>1. /\ d \in Seq(Line) /\ Len(d) = n
      /\ \A i \in 1..n : d[i] = c[i]
      /\ n \in Nat /\ Len(c) \in Nat /\ DOMAIN c = 1..Len(c) /\ DOMAIN d = 1..n
      BY Prefix
<1> HIDE DEF d
<1>2. ASSUME NEW i \in 1..n PROVE SectionOf(d, i) = SectionOf(c, i)
  <2>1. i \in Nat /\ \A k \in 1..i : d[k] = c[k] BY <1>1
  <2>2. QED BY <2>1, SameSection
<1>3. 1..n \subseteq DOMAIN c BY <1>1
<1>4. Switches(d) = Switches(c) \cap 1..n BY <1>1, <1>2, <1>3 DEF Switches
<1>5. Tables(d) = Tables(c) \cap 1..n BY <1>1, <1>3 DEF Tables
<1>6. Sayings(d) = Sayings(c) \cap 1..n BY <1>1, <1>2, <1>3 DEF Sayings
<1>7. Meaning(d) = {<<SectionOf(d, i), d[i]>> : i \in Sayings(d)} BY DEF Meaning, Sayings
<1>8. Meaning(d) = {<<SectionOf(c, i), c[i]>> : i \in Sayings(c) \cap 1..n}
      BY <1>1, <1>2, <1>6, <1>7
<1>9. QED BY <1>4, <1>5, <1>6, <1>8 DEF d

LEMMA InFormIs ==
    ASSUME NEW c
    PROVE  InForm(c) <=> /\ c \in Seq(Line)
                         /\ \A i, j \in Tables(c) : i = j
                         /\ \A i, j \in Switches(c) : i = j
BY DEF InForm, Tables

LEMMA PrefixInForm ==
    ASSUME NEW c, InForm(c), NEW n \in 0..Len(c)
    PROVE  InForm(SubSeq(c, 1, n))
<1>1. c \in Seq(Line) BY InFormIs
<1>2. SubSeq(c, 1, n) \in Seq(Line) BY <1>1, Prefix
<1>3. /\ Switches(SubSeq(c, 1, n)) = Switches(c) \cap 1..n
      /\ Tables(SubSeq(c, 1, n)) = Tables(c) \cap 1..n
      BY <1>1, PrefixHasLess
<1>4. QED BY <1>2, <1>3, InFormIs

(* A part of a line is no header of [features], and sets codex_hooks only  *)
(* where the line does.                                                    *)
LEMMA PartsOf ==
    ASSUME NEW line \in Line, NEW p \in Parts(line)
    PROVE  p \in Line /\ p # "<features>" /\ (p \in Flag => line \in Flag)
<1>1. CASE line \in Flag
  <2>1. line \in {"codex_hooks=true", "codex_hooks=false"} BY <1>1 DEF Flag, On
  <2>2. p \in {"part", "codex_hooks=false"} BY <1>1, <2>1 DEF Parts
  <2>3. QED BY <1>1, <2>2 DEF Line, Flag, On, Silent
<1>2. CASE line \notin Flag
  <2>1. p \in {"part", "hook_part"} \/ (p = line /\ line \in {"<other>", "<<hooks>>"})
        BY <1>2 DEF Parts
  <2>2. CASE p \in {"part", "hook_part"}
    <3>1. p \in Silent BY <2>2, KindsOfLines
    <3>2. p \in Line /\ p \notin Flag BY <3>1, KindsOfLines
    <3>3. p # "<features>" BY <2>2
    <3>4. QED BY <3>2, <3>3
  <2>3. CASE p = line /\ line \in {"<other>", "<<hooks>>"}
    <3>1. p # "<features>" BY <2>3
    <3>2. QED BY <2>3, <3>1
  <2>4. QED BY <2>1, <2>2, <2>3
<1>3. QED BY <1>1, <1>2

(* Where a text may be cut. *)
LEMMA CutIs ==
    ASSUME NEW t \in Seq(Line), NEW c \in Cut(t)
    PROVE  \/ \E n \in 0..Len(t) : c = SubSeq(t, 1, n)
           \/ \E n \in 1..Len(t) : \E p \in Parts(t[n]) : c = Append(SubSeq(t, 1, n - 1), p)
BY DEF Cut, CutBetween, CutWithin

LEMMA CutOfLines ==
    ASSUME NEW t \in Seq(Line), NEW c \in Cut(t)
    PROVE  c \in Seq(Line)
<1>1. ASSUME NEW n \in 0..Len(t), c = SubSeq(t, 1, n) PROVE c \in Seq(Line)
  BY <1>1, Prefix
<1>2. ASSUME NEW n \in 1..Len(t), NEW p \in Parts(t[n]), c = Append(SubSeq(t, 1, n - 1), p)
      PROVE  c \in Seq(Line)
  <2>1. n - 1 \in 0..Len(t) BY LenProperties
  <2>2. SubSeq(t, 1, n - 1) \in Seq(Line) BY <2>1, Prefix
  <2>3. t[n] \in Line BY ElementOfSeq
  <2>4. p \in Line BY <2>3, PartsOf
  <2>5. QED BY <1>2, <2>2, <2>4, Appended
<1>3. QED BY <1>1, <1>2, CutIs

LEMMA CutInForm ==
    ASSUME NEW c, InForm(c), NEW d \in Cut(c)
    PROVE  InForm(d)
<1>1. c \in Seq(Line) BY InFormIs
<1>2. ASSUME NEW n \in 0..Len(c), d = SubSeq(c, 1, n) PROVE InForm(d)
  BY <1>2, PrefixInForm
<1>3. ASSUME NEW n \in 1..Len(c), NEW p \in Parts(c[n]), d = Append(SubSeq(c, 1, n - 1), p)
      PROVE  InForm(d)
  <2> DEFINE x == SubSeq(c, 1, n - 1)
             line == c[n]
             full == Append(x, line)
  <2>1. n - 1 \in 0..Len(c) /\ n \in 0..Len(c) BY <1>1, LenProperties
  <2>2. x \in Seq(Line) /\ InForm(x) BY <1>1, <2>1, Prefix, PrefixInForm
  <2>3. line \in Line BY <1>1, ElementOfSeq
  <2>4. p \in Line /\ p # "<features>" /\ (p \in Flag => line \in Flag) BY <2>3, PartsOf
  <2>5. full = SubSeq(c, 1, n) BY <1>1
  <2>6. InForm(full) BY <2>1, <2>5, PrefixInForm
  <2> HIDE DEF x, line
  <2> DEFINE k == Len(x) + 1
  <2>7. Switches(full) = Switches(x) \cup IF line \in Flag /\ End(x) = {"<features>"}
                                          THEN {k} ELSE {}
    BY <2>2, <2>3, OneMore, ZenonT(20)
  <2>8. Switches(d) = Switches(x) \cup IF p \in Flag /\ End(x) = {"<features>"}
                                       THEN {k} ELSE {}
    BY <1>3, <2>2, <2>4, OneMore, ZenonT(20) DEF x
  <2>9. Tables(d) = Tables(x) \cup IF p = "<features>" THEN {k} ELSE {}
    BY <1>3, <2>2, <2>4, OneMore, ZenonT(20) DEF x
  <2>10. d \in Seq(Line) BY <1>1, <1>3, CutOfLines
  <2> HIDE DEF full, k
  <2>11. Switches(d) \subseteq Switches(full) BY <2>4, <2>7, <2>8
  <2>12. Tables(d) = Tables(x) BY <2>4, <2>9
  <2>13. \A i, j \in Switches(full) : i = j BY <2>6, InFormIs
  <2>14. \A i, j \in Tables(x) : i = j BY <2>2, InFormIs
  <2>15. QED BY <2>10, <2>11, <2>12, <2>13, <2>14, InFormIs
<1>4. QED BY <1>1, <1>2, <1>3, CutIs

-------------------------------------------------------------------------------
(* The loop of _ensure_codex_hooks_feature. *)

AllOn(c) == \A i \in Switches(c) : c[i] = On

State == [out : Seq(Line), inside : BOOLEAN, saw : BOOLEAN, on : BOOLEAN]

(* What is known when the loop has read x: what it has written says the    *)
(* same, and sets codex_hooks once the section [features] has been left.   *)
Agrees(x, s) ==
    /\ s \in State
    /\ End(s.out) = End(x)
    /\ s.inside <=> End(x) = {"<features>"}
    /\ s.saw <=> Tables(x) # {}
    /\ s.saw <=> Tables(s.out) # {}
    /\ \A i, j \in Tables(s.out) : i = j
    /\ Meaning(s.out) = Meaning(x)
    /\ AllOn(s.out)
    /\ s.saw /\ (s.inside => s.on) => \E i : Switches(s.out) = {i}
    /\ ~s.saw \/ (s.inside /\ ~s.on) => Switches(s.out) = {}
    /\ s.inside /\ s.on => Switches(x) # {}

(* A line is written as it is. *)
LEMMA Copied ==
    ASSUME NEW c \in Seq(Line), NEW line \in Line, AllOn(c),
           line \in Flag /\ End(c) = {"<features>"} => line = On
    PROVE  AllOn(Append(c, line))
<1> DEFINE d == Append(c, line)
           n == Len(c)
<1>1. /\ \A i \in 1..n : d[i] = c[i]
      /\ d[n + 1] = line /\ DOMAIN c = 1..n
      BY Appended
<1>2. Switches(d) = Switches(c) \cup IF line \in Flag /\ End(c) = {"<features>"}
                                     THEN {n + 1} ELSE {}
      BY OneMore
<1>3. Switches(c) \subseteq 1..n BY <1>1 DEF Switches
<1> HIDE DEF d, n
<1>4. \A i \in Switches(c) : d[i] = On BY <1>1, <1>3 DEF AllOn
<1>5. QED BY <1>1, <1>2, <1>4 DEF AllOn, d

(* Only the header opens the section. *)
LEMMA EndedBy ==
    ASSUME NEW x \in Seq(Line), End(x) = {"<features>"}
    PROVE  Tables(x) # {}
<1>1. Len(x) \in Nat /\ DOMAIN x = 1..Len(x) BY LenProperties
<1>2. PICK h \in 1..Len(x) : x[h] = "<features>" BY DEF End, SectionOf
<1>3. h \in Tables(x) BY <1>1, <1>2 DEF Tables
<1>4. QED BY <1>3

LEMMA TakeIs ==
    ASSUME NEW s \in State, NEW line \in Line
    PROVE  /\ line = "<features>" =>
                Take(s, line) =
                    [out |-> Append(s.out, line), inside |-> TRUE, saw |-> TRUE, on |-> FALSE]
           /\ s.inside /\ line \in Header \ {"<features>"} =>
                Take(s, line) =
                    [out |-> Append(IF s.on THEN s.out ELSE Append(s.out, On), line),
                     inside |-> FALSE, saw |-> s.saw, on |-> s.on]
           /\ s.inside /\ line \in Flag =>
                Take(s, line) =
                    [out |-> Append(s.out, On), inside |-> TRUE, saw |-> s.saw, on |-> TRUE]
           /\ ~(line = "<features>" \/ (s.inside /\ line \in Header \cup Flag)) =>
                Take(s, line) = [s EXCEPT !.out = Append(s.out, line)]
<1> DEFINE z == IF s.on THEN s.out ELSE Append(s.out, On)
<1>1. /\ "<features>" \in Header /\ Header \cap Flag = {} /\ On \in Line BY KindsOfLines
<1>2. s.out \in Seq(Line) /\ s.inside \in BOOLEAN /\ s.saw \in BOOLEAN /\ s.on \in BOOLEAN
      BY DEF State
<1>3. z \in Seq(Line) BY <1>1, <1>2, Appended
<1>4. z \o <<line>> = Append(z, line) BY <1>3
<1> HIDE DEF z
<1>5. CASE line = "<features>"
  <2>1. line \notin Flag BY <1>1, <1>5
  <2>2. QED BY <1>5, <2>1 DEF Take
<1>6. CASE s.inside /\ line \in Header \ {"<features>"}
  <2>1. line \notin Flag BY <1>1, <1>6
  <2>2. Take(s, line) = [s EXCEPT !.out = z \o <<line>>, !.inside = FALSE]
        BY <1>6, <2>1 DEF Take, z
  <2>3. Take(s, line) = [out |-> Append(z, line), inside |-> FALSE, saw |-> s.saw, on |-> s.on]
        BY <1>4, <2>2 DEF State
  <2>4. QED BY <1>6, <2>1, <2>3 DEF z
<1>7. CASE s.inside /\ line \in Flag
  <2>1. line \notin Header BY <1>1, <1>7
  <2>2. Take(s, line) = [s EXCEPT !.out = Append(s.out, On), !.on = TRUE]
        BY <1>1, <1>7, <2>1 DEF Take
  <2>3. QED BY <1>1, <1>7, <2>1, <2>2 DEF State
<1>8. CASE ~(line = "<features>" \/ (s.inside /\ line \in Header \cup Flag))
      BY <1>8 DEF Take
<1>9. QED BY <1>5, <1>6, <1>7, <1>8

LEMMA HeaderTaken ==
    ASSUME NEW x \in Seq(Line), NEW s, Agrees(x, s), InForm(Append(x, "<features>"))
    PROVE  Agrees(Append(x, "<features>"), Take(s, "<features>"))
<1> DEFINE X == Append(x, "<features>")
           y == s.out
           Y == Append(y, "<features>")
           t == Take(s, "<features>")
<1>1. "<features>" \in Line BY KindsOfLines
<1>2. y \in Seq(Line) /\ s \in State BY DEF Agrees, State
<1>3. t = [out |-> Y, inside |-> TRUE, saw |-> TRUE, on |-> FALSE] BY <1>1, <1>2, TakeIs
<1>4. /\ End(X) = {"<features>"} /\ Switches(X) = Switches(x)
      /\ Tables(X) = Tables(x) \cup {Len(x) + 1} /\ Len(x) + 1 \notin Tables(x)
      /\ Meaning(X) = Meaning(x)
      BY OneMoreTable
<1>5. /\ Y \in Seq(Line)
      /\ End(Y) = {"<features>"} /\ Switches(Y) = Switches(y)
      /\ Tables(Y) = Tables(y) \cup {Len(y) + 1}
      /\ Meaning(Y) = Meaning(y)
      BY <1>2, OneMoreTable
<1>6. Tables(x) = {}
  <2>1. \A i, j \in Tables(X) : i = j BY InFormIs
  <2>2. QED BY <1>4, <2>1
<1>7. Tables(y) = {} /\ Switches(y) = {} /\ Meaning(y) = Meaning(x) BY <1>6 DEF Agrees
<1>8. AllOn(Y) BY <1>5, <1>7 DEF AllOn
<1> HIDE DEF X, Y, t, y
<1>9. /\ t \in State /\ t.out = Y /\ t.inside = TRUE /\ t.saw = TRUE /\ t.on = FALSE
      BY <1>3, <1>5 DEF State
<1>10. Agrees(X, t) BY <1>4, <1>5, <1>7, <1>8, <1>9 DEF Agrees
<1>11. QED BY <1>10 DEF X, t

(* [features] ends.  *)
LEMMA SectionLeft ==
    ASSUME NEW x \in Seq(Line), NEW s, Agrees(x, s), s.inside,
           NEW line \in Header \ {"<features>"}
    PROVE  Agrees(Append(x, line), Take(s, line))
<1> DEFINE X == Append(x, line)
           y == s.out
           z == IF s.on THEN y ELSE Append(y, On)
           Y == Append(z, line)
           t == Take(s, line)
<1>1. line \in Line /\ line \notin Flag /\ On \in Flag /\ On \in Line BY KindsOfLines
<1>2. y \in Seq(Line) /\ s \in State BY DEF Agrees, State
<1>3. z \in Seq(Line) BY <1>1, <1>2, Appended
<1>4. t = [out |-> Y, inside |-> FALSE, saw |-> s.saw, on |-> s.on] BY <1>1, <1>2, TakeIs
<1>5. /\ End(X) = {line} /\ Switches(X) = Switches(x) /\ Tables(X) = Tables(x)
      /\ Meaning(X) = Meaning(x)
      BY OneMoreHeader
<1>6. /\ Y \in Seq(Line)
      /\ End(Y) = {line} /\ Switches(Y) = Switches(z) /\ Tables(Y) = Tables(z)
      /\ Meaning(Y) = Meaning(z)
  <2> HIDE DEF z
  <2>1. QED BY <1>3, OneMoreHeader
<1>7. End(x) = {"<features>"} /\ End(y) = {"<features>"} /\ Tables(x) # {} /\ s.saw
  <2>1. End(x) = {"<features>"} /\ End(y) = {"<features>"} BY DEF Agrees
  <2>2. Tables(x) # {} BY <2>1, EndedBy
  <2>3. QED BY <2>1, <2>2 DEF Agrees
<1>8. Tables(z) = Tables(y) /\ Meaning(z) = Meaning(x) /\ AllOn(z)
  <2>1. CASE s.on BY <2>1 DEF Agrees
  <2>2. CASE ~s.on
    <3>1. Tables(z) = Tables(y) /\ Meaning(z) = Meaning(y)
          BY <1>1, <1>2, <1>7, <2>2, OneMoreSwitch
    <3>2. AllOn(z) BY <1>1, <1>2, <2>2, Copied DEF Agrees
    <3>3. QED BY <3>1, <3>2 DEF Agrees
  <2>3. QED BY <2>1, <2>2
<1>9. \E i : Switches(z) = {i}
  <2>1. CASE s.on BY <1>7, <2>1 DEF Agrees
  <2>2. CASE ~s.on
    <3>1. Switches(y) = {} BY <2>2 DEF Agrees
    <3>2. Switches(z) = Switches(y) \cup {Len(y) + 1} BY <1>1, <1>2, <1>7, <2>2, OneMoreSwitch
    <3>3. QED BY <3>1, <3>2
  <2>3. QED BY <2>1, <2>2
<1>10. AllOn(Y)
  <2> HIDE DEF z
  <2>1. QED BY <1>1, <1>3, <1>8, Copied
<1> HIDE DEF X, Y, t, y, z
<1>11. t \in State /\ t.out = Y /\ t.inside = FALSE /\ t.saw = s.saw /\ t.on = s.on
       BY <1>2, <1>4, <1>6 DEF State
<1>12. Tables(y) # {} /\ \A i, j \in Tables(y) : i = j BY <1>7 DEF Agrees, y
<1>13. {line} # {"<features>"} OBVIOUS
<1>14. Agrees(X, t) BY <1>5, <1>6, <1>7, <1>8, <1>9, <1>10, <1>11, <1>12, <1>13 DEF Agrees
<1>15. QED BY <1>14 DEF X, t

(* The line that sets codex_hooks is replaced by one that sets it to true. *)
LEMMA FlagTaken ==
    ASSUME NEW x \in Seq(Line), NEW s, Agrees(x, s), s.inside,
           NEW line \in Flag, InForm(Append(x, line))
    PROVE  Agrees(Append(x, line), Take(s, line))
<1> DEFINE X == Append(x, line)
           y == s.out
           Y == Append(y, On)
           t == Take(s, line)
<1>1. line \in Line /\ On \in Flag /\ On \in Line BY KindsOfLines
<1>2. y \in Seq(Line) /\ s \in State BY DEF Agrees, State
<1>3. t = [out |-> Y, inside |-> TRUE, saw |-> s.saw, on |-> TRUE] BY <1>1, <1>2, TakeIs
<1>4. End(x) = {"<features>"} /\ End(y) = {"<features>"} BY DEF Agrees
<1>5. /\ End(X) = End(x) /\ Switches(X) = Switches(x) \cup {Len(x) + 1}
      /\ Tables(X) = Tables(x) /\ Meaning(X) = Meaning(x) /\ Len(x) + 1 \notin Switches(x)
      BY <1>4, OneMoreSwitch
<1>6. /\ Y \in Seq(Line)
      /\ End(Y) = End(y) /\ Switches(Y) = Switches(y) \cup {Len(y) + 1}
      /\ Tables(Y) = Tables(y) /\ Meaning(Y) = Meaning(y)
      BY <1>1, <1>2, <1>4, OneMoreSwitch
<1>7. Switches(x) = {}
  <2>1. \A i, j \in Switches(X) : i = j BY InFormIs
  <2>2. QED BY <1>5, <2>1
<1>8. ~s.on /\ Switches(y) = {} BY <1>7 DEF Agrees
<1>9. AllOn(Y) BY <1>1, <1>2, Copied DEF Agrees
<1>10. /\ End(y) = End(x) /\ (s.saw <=> Tables(x) # {}) /\ (s.saw <=> Tables(y) # {})
       /\ \A i, j \in Tables(y) : i = j
       /\ Meaning(y) = Meaning(x)
       /\ s.saw
  <2>1. Tables(x) # {} BY <1>4, EndedBy
  <2>2. QED BY <2>1 DEF Agrees
<1> HIDE DEF X, Y, t, y
<1>11. t \in State /\ t.out = Y /\ t.inside = TRUE /\ t.saw = s.saw /\ t.on = TRUE
       BY <1>2, <1>3, <1>6 DEF State
<1>12. Switches(Y) = {Len(y) + 1} /\ Switches(X) # {} BY <1>5, <1>6, <1>8
<1>13. Agrees(X, t) BY <1>4, <1>5, <1>6, <1>9, <1>10, <1>11, <1>12 DEF Agrees
<1>14. QED BY <1>13 DEF X, t

(* Any other line is kept. *)
LEMMA OtherTaken ==
    ASSUME NEW x \in Seq(Line), NEW s, Agrees(x, s), NEW line \in Line,
           ~(line = "<features>" \/ (s.inside /\ line \in Header \cup Flag))
    PROVE  Agrees(Append(x, line), Take(s, line))
<1> DEFINE X == Append(x, line)
           y == s.out
           Y == Append(y, line)
           t == Take(s, line)
<1>1. y \in Seq(Line) /\ s \in State BY DEF Agrees, State
<1>2. t = [s EXCEPT !.out = Y] BY <1>1, TakeIs
<1>3. Y \in Seq(Line) BY <1>1, Appended
<1>4. End(y) = End(x) /\ (s.inside <=> End(x) = {"<features>"}) /\ Meaning(y) = Meaning(x)
      BY DEF Agrees
<1>5. line \in Flag => End(y) # {"<features>"} BY <1>4
<1>6. AllOn(Y) BY <1>1, <1>5, Copied DEF Agrees
<1>7. /\ End(Y) = End(X) /\ (s.inside <=> End(X) = {"<features>"}) /\ Meaning(Y) = Meaning(X)
      /\ Switches(X) = Switches(x) /\ Tables(X) = Tables(x)
      /\ Switches(Y) = Switches(y) /\ Tables(Y) = Tables(y)
  <2>1. CASE line \in Header
    <3>1. ~s.inside /\ line # "<features>" BY <2>1
    <3>2. /\ End(X) = {line} /\ Switches(X) = Switches(x) /\ Meaning(X) = Meaning(x)
          /\ Tables(X) = Tables(x)
          BY <2>1, <3>1, OneMoreHeader
    <3>3. /\ End(Y) = {line} /\ Switches(Y) = Switches(y) /\ Meaning(Y) = Meaning(y)
          /\ Tables(Y) = Tables(y)
          BY <1>1, <2>1, <3>1, OneMoreHeader
    <3>4. {line} # {"<features>"} BY <3>1
    <3> HIDE DEF X, Y, y
    <3>5. QED BY <1>4, <3>1, <3>2, <3>3, <3>4
  <2>2. CASE line \notin Header
    <3>1. /\ End(X) = End(x) /\ Tables(X) = Tables(x) /\ Switches(X) = Switches(x)
          /\ Meaning(X) = Meaning(x) \cup IF line \in Silent THEN {} ELSE {<<End(x), line>>}
          BY <1>4, <1>5, <2>2, OneMoreOther
    <3>2. /\ End(Y) = End(y) /\ Tables(Y) = Tables(y) /\ Switches(Y) = Switches(y)
          /\ Meaning(Y) = Meaning(y) \cup IF line \in Silent THEN {} ELSE {<<End(y), line>>}
          BY <1>1, <1>5, <2>2, OneMoreOther
    <3> HIDE DEF X, Y, y
    <3>3. QED BY <1>4, <3>1, <3>2
  <2>3. QED BY <2>1, <2>2
<1> HIDE DEF X, Y, t
<1>8. t \in State /\ t.out = Y /\ t.inside = s.inside /\ t.saw = s.saw /\ t.on = s.on
      BY <1>1, <1>2, <1>3 DEF State
<1>9. /\ (s.saw <=> Tables(x) # {}) /\ (s.saw <=> Tables(y) # {})
      /\ \A i, j \in Tables(y) : i = j
      /\ s.saw /\ (s.inside => s.on) => \E i : Switches(y) = {i}
      /\ ~s.saw \/ (s.inside /\ ~s.on) => Switches(y) = {}
      /\ s.inside /\ s.on => Switches(x) # {}
      BY DEF Agrees
<1> HIDE DEF y
<1>10. Agrees(X, t) BY <1>6, <1>7, <1>8, <1>9 DEF Agrees
<1>11. QED BY <1>10 DEF X, t

LEMMA Begun ==
    Agrees(<<>>, [out |-> <<>>, inside |-> FALSE, saw |-> FALSE, on |-> FALSE])
<1>1. <<>> \in Seq(Line) /\ Len(<<>>) = 0 /\ DOMAIN <<>> = {} BY EmptySeq
<1>2. End(<<>>) = {} BY <1>1, NextSection DEF End
<1>3. Tables(<<>>) = {} /\ Switches(<<>>) = {} BY <1>1 DEF Tables, Switches
<1> DEFINE s == [out |-> <<>>, inside |-> FALSE, saw |-> FALSE, on |-> FALSE]
<1>4. /\ s \in State
      /\ s.out = <<>> /\ s.inside = FALSE /\ s.saw = FALSE /\ s.on = FALSE
      BY <1>1 DEF State
<1>5. {} # {"<features>"} OBVIOUS
<1> HIDE DEF s
<1>6. Agrees(<<>>, s) BY <1>2, <1>3, <1>4, <1>5 DEF Agrees, AllOn
<1>7. QED BY <1>6 DEF s

(* So the loop keeps to it, line by line. *)
LEMMA ScanAgrees ==
    ASSUME NEW c, InForm(c)
    PROVE  Agrees(c, Scan(c)[Len(c)])
<1> DEFINE S == {i \in Nat : i <= Len(c) => Agrees(SubSeq(c, 1, i), Scan(c)[i])}
<1>1. c \in Seq(Line) /\ Len(c) \in Nat BY LenProperties, InFormIs
<1>2. 0 \in S
  <2>1. SubSeq(c, 1, 0) = <<>> BY <1>1
  <2>2. QED BY <1>1, <2>1, Begun, Scanned
<1>3. ASSUME NEW i \in Nat, i \in S PROVE i + 1 \in S
  <2> SUFFICES ASSUME i + 1 <= Len(c)
               PROVE  Agrees(SubSeq(c, 1, i + 1), Scan(c)[i + 1])
      OBVIOUS
  <2> DEFINE x == SubSeq(c, 1, i)
             s == Scan(c)[i]
             line == c[i + 1]
  <2>1. i \in 0..Len(c) /\ i + 1 \in 0..Len(c) /\ i + 1 \in 1..Len(c) BY <1>1
  <2>2. Agrees(x, s) BY <1>1, <1>3
  <2>3. x \in Seq(Line) BY <1>1, <2>1, Prefix
  <2>4. line \in Line BY <1>1, <2>1, ElementOfSeq
  <2>5. SubSeq(c, 1, i + 1) = Append(x, line) BY <1>1
  <2>6. InForm(Append(x, line)) BY <2>1, <2>5, PrefixInForm
  <2>7. Scan(c)[i + 1] = Take(s, line) BY <1>1, <2>1, Scanned
  <2> HIDE DEF x, s, line
  <2>8. Agrees(Append(x, line), Take(s, line))
    <3>1. CASE line = "<features>" BY <2>2, <2>3, <2>6, <3>1, HeaderTaken
    <3>2. CASE s.inside /\ line \in Header \ {"<features>"} BY <2>2, <2>3, <3>2, SectionLeft
    <3>3. CASE s.inside /\ line \in Flag BY <2>2, <2>3, <2>6, <3>3, FlagTaken
    <3>4. CASE ~(line = "<features>" \/ (s.inside /\ line \in Header \cup Flag))
          BY <2>2, <2>3, <2>4, <3>4, OtherTaken
    <3>5. QED BY <3>1, <3>2, <3>3, <3>4
  <2>9. QED BY <2>5, <2>7, <2>8
<1>4. Len(c) \in S
  <2> HIDE DEF S
  <2>1. QED BY <1>1, <1>2, <1>3, Induct
<1>5. Agrees(SubSeq(c, 1, Len(c)), Scan(c)[Len(c)])
  <2>1. Len(c) <= Len(c) BY <1>1
  <2>2. QED BY <1>4, <2>1, Zenon
<1>6. SubSeq(c, 1, Len(c)) = c BY <1>1
<1>7. QED BY <1>5, <1>6, Zenon

-------------------------------------------------------------------------------
(* What is made of it. *)

(* A configuration in which hooks are enabled, and that says what c says.  *)
Serves(d, c) ==
    /\ d \in Seq(Line)
    /\ \A i, j \in Tables(d) : i = j
    /\ AllOn(d)
    /\ \E i : Switches(d) = {i}
    /\ Meaning(d) = Meaning(c)

LEMMA Serving ==
    ASSUME NEW c, NEW d, Serves(d, c)
    PROVE  InForm(d) /\ Enabled(d)
<1>1. PICK i : Switches(d) = {i} BY DEF Serves
<1>2. i \in DOMAIN d /\ d[i] = On BY <1>1 DEF Serves, AllOn, Switches
<1>3. Enabled(d) BY <1>1, <1>2 DEF Enabled
<1>4. InForm(d) BY <1>1, InFormIs DEF Serves
<1>5. QED BY <1>3, <1>4

(* A line that says nothing changes nothing of that. *)
LEMMA ServesWith ==
    ASSUME NEW c, NEW d, Serves(d, c), NEW line \in Silent \cup {"<<hooks>>"}
    PROVE  Serves(Append(d, line), c)
<1>1. d \in Seq(Line) /\ AllOn(d) BY DEF Serves
<1>2. line \in Line /\ line \notin Flag /\ line # "<features>" BY KindsOfLines
<1> DEFINE e == Append(d, line)
<1>3. /\ e \in Seq(Line)
      /\ Tables(e) = Tables(d) /\ Switches(e) = Switches(d) /\ Meaning(e) = Meaning(d)
  <2>1. CASE line \in Header BY <1>1, <1>2, <2>1, OneMoreHeader
  <2>2. CASE line \notin Header
    <3>1. line \in Silent BY <2>2, KindsOfLines
    <3>2. Meaning(e) = Meaning(d) \cup IF line \in Silent THEN {} ELSE {<<End(d), line>>}
          BY <1>1, <1>2, <2>2, OneMoreOther
    <3>3. /\ e \in Seq(Line)
          /\ Tables(e) = Tables(d) /\ Switches(e) = Switches(d)
          BY <1>1, <1>2, <2>2, OneMoreOther
    <3> HIDE DEF e
    <3>4. QED BY <3>1, <3>2, <3>3
  <2>3. QED BY <2>1, <2>2
<1>4. AllOn(e) BY <1>1, <1>2, Copied
<1> HIDE DEF e
<1>5. Serves(e, c) BY <1>3, <1>4 DEF Serves
<1>6. QED BY <1>5 DEF e

(* There is a last line that is not blank, or none is there at all.        *)
LEMMA TrimmedIs ==
    ASSUME NEW c \in Seq(Line)
    PROVE  \E n \in 0..Len(c) :
               Trimmed(c) = SubSeq(c, 1, n) /\ \A i \in n + 1 .. Len(c) : c[i] = "blank"
<1> DEFINE S == {n \in 0..Len(c) : \A i \in n + 1 .. Len(c) : c[i] = "blank"}
           P(n) == (n > 0 => c[n] # "blank") /\ \A i \in n + 1 .. Len(c) : c[i] = "blank"
<1>1. Len(c) \in Nat BY LenProperties
<1>2. S \subseteq Nat BY <1>1
<1>3. Len(c) \in S BY <1>1
<1>4. PICK n \in S : \A m \in S : n <= m
  <2> HIDE DEF S
  <2>1. QED BY <1>2, <1>3, Least
<1>5. ASSUME n > 0, c[n] = "blank" PROVE FALSE
  <2>1. n - 1 \in 0..Len(c) BY <1>1, <1>5
  <2>2. \A i \in (n - 1) + 1 .. Len(c) : i = n \/ i \in n + 1 .. Len(c) BY <1>1
  <2>3. n - 1 \in S BY <1>5, <2>1, <2>2
  <2>4. n <= n - 1
    <3> HIDE DEF S
    <3>1. QED BY <1>4, <2>3
  <2>5. QED BY <1>1, <1>5, <2>4
<1>6. n \in 0..Len(c) /\ P(n) BY <1>5
<1> DEFINE m == CHOOSE k \in 0..Len(c) : P(k)
<1>7. m \in 0..Len(c) /\ P(m)
  <2> HIDE DEF P
  <2>1. QED BY <1>6
<1>8. Trimmed(c) = SubSeq(c, 1, m) BY DEF Trimmed
<1> HIDE DEF m
<1>9. QED BY <1>7, <1>8

LEMMA TrimmedSays ==
    ASSUME NEW c \in Seq(Line)
    PROVE  /\ Trimmed(c) \in Seq(Line)
           /\ Tables(Trimmed(c)) = Tables(c)
           /\ Switches(Trimmed(c)) = Switches(c)
           /\ Meaning(Trimmed(c)) = Meaning(c)
           /\ AllOn(c) => AllOn(Trimmed(c))
<1>1. PICK n \in 0..Len(c) :
          Trimmed(c) = SubSeq(c, 1, n) /\ \A i \in n + 1 .. Len(c) : c[i] = "blank"
      BY TrimmedIs
<1> DEFINE d == SubSeq(c, 1, n)
<1>2. /\ d \in Seq(Line)
      /\ \A i \in 1..n : d[i] = c[i]
      /\ n \in Nat /\ Len(c) \in Nat /\ DOMAIN c = 1..Len(c) /\ DOMAIN d = 1..n
      BY Prefix
<1>3. "blank" \notin Key /\ "blank" \notin Flag /\ "blank" # "<features>" BY KindsOfLines
<1>4. \A i \in DOMAIN c : i \notin 1..n => c[i] = "blank" BY <1>1, <1>2
<1>5. Tables(c) \subseteq 1..n BY <1>3, <1>4 DEF Tables
<1>6. Switches(c) \subseteq 1..n BY <1>3, <1>4 DEF Switches
<1>7. Sayings(c) \subseteq 1..n BY <1>3, <1>4 DEF Sayings
<1>8. /\ Switches(d) = Switches(c) \cap 1..n
      /\ Tables(d) = Tables(c) \cap 1..n
      /\ Meaning(d) = {<<SectionOf(c, i), c[i]>> : i \in Sayings(c) \cap 1..n}
      BY PrefixHasLess
<1> HIDE DEF d
<1>9. Tables(d) = Tables(c) /\ Switches(d) = Switches(c) BY <1>5, <1>6, <1>8
<1>10. Meaning(d) = Meaning(c)
  <2>1. Sayings(c) \cap 1..n = Sayings(c) BY <1>7
  <2>2. Meaning(c) = {<<SectionOf(c, i), c[i]>> : i \in Sayings(c)} BY DEF Meaning, Sayings
  <2>3. QED BY <1>8, <2>1, <2>2
<1>11. AllOn(c) => AllOn(d) BY <1>2, <1>6, <1>9 DEF AllOn
<1>12. QED BY <1>1, <1>2, <1>9, <1>10, <1>11 DEF d

LEMMA FeatureEnsured ==
    ASSUME NEW c, InForm(c)
    PROVE  Serves(EnsureFeature(c), c)
<1> DEFINE s == Scan(c)[Len(c)]
           y == s.out
           z == IF s.inside /\ ~s.on THEN Append(y, On) ELSE y
           t == Trimmed(z)
<1>1. Agrees(c, s) BY ScanAgrees
<1> HIDE DEF s
<1>2. y \in Seq(Line) /\ s \in State BY <1>1 DEF Agrees, State
<1>3. On \in Flag /\ On \in Line BY KindsOfLines
<1>4. /\ z \in Seq(Line) /\ Tables(z) = Tables(y) /\ Meaning(z) = Meaning(c) /\ AllOn(z)
      /\ s.saw => \E i : Switches(z) = {i}
      /\ ~s.saw => Switches(z) = {}
  <2>1. CASE s.inside /\ ~s.on
    <3>1. End(y) = {"<features>"} /\ Switches(y) = {} /\ Meaning(y) = Meaning(c) /\ AllOn(y)
          BY <1>1, <2>1 DEF Agrees
    <3>2. /\ z \in Seq(Line) /\ Tables(z) = Tables(y) /\ Meaning(z) = Meaning(y)
          /\ Switches(z) = Switches(y) \cup {Len(y) + 1}
          BY <1>2, <1>3, <2>1, <3>1, OneMoreSwitch
    <3>3. AllOn(z) BY <1>2, <1>3, <2>1, <3>1, Copied
    <3>4. s.saw
      <4>1. End(c) = {"<features>"} BY <1>1, <2>1 DEF Agrees
      <4>2. Tables(c) # {} BY <4>1, EndedBy, InFormIs
      <4>3. QED BY <1>1, <4>2 DEF Agrees
    <3> HIDE DEF z
    <3>5. Switches(z) = {Len(y) + 1} BY <3>1, <3>2
    <3>6. QED BY <3>1, <3>2, <3>3, <3>4, <3>5
  <2>2. CASE ~(s.inside /\ ~s.on)
    <3>1. z = y BY <2>2
    <3> HIDE DEF z
    <3>2. QED BY <1>1, <1>2, <2>2, <3>1 DEF Agrees, State
  <2>3. QED BY <2>1, <2>2
<1>5. \A i, j \in Tables(y) : i = j BY <1>1 DEF Agrees
<1>6. ~s.saw => Tables(y) = {} BY <1>1 DEF Agrees
<1> HIDE DEF z, y
<1>7. /\ t \in Seq(Line) /\ Tables(t) = Tables(z) /\ Switches(t) = Switches(z)
      /\ Meaning(t) = Meaning(z) /\ AllOn(t)
      BY <1>4, TrimmedSays
<1>8. EnsureFeature(c) = t \o IF s.saw THEN <<>> ELSE <<"blank", "<features>", On>>
      BY DEF EnsureFeature, s, y, z
<1> HIDE DEF t
<1>9. CASE s.saw
  <2>1. EnsureFeature(c) = t BY <1>7, <1>8, <1>9
  <2>2. QED BY <1>4, <1>5, <1>7, <1>9, <2>1 DEF Serves
<1>10. CASE ~s.saw
  <2>1. Tables(t) = {} /\ Switches(t) = {} /\ Meaning(t) = Meaning(c) BY <1>4, <1>6, <1>7, <1>10
  <2> DEFINE u == Append(t, "blank")
             v == Append(u, "<features>")
             w == Append(v, On)
  <2>2. "blank" \in Line /\ "blank" \in Silent /\ "blank" \notin Header /\ "blank" \notin Flag
        /\ "<features>" \in Line /\ "<features>" \notin Flag
        BY KindsOfLines
  <2>3. EnsureFeature(c) = w BY <1>3, <1>7, <1>8, <1>10, <2>2
  <2>4. u \in Seq(Line) /\ Tables(u) = {} /\ Switches(u) = {} /\ Meaning(u) = Meaning(c)
    <3>1. Meaning(u) = Meaning(t) \cup IF "blank" \in Silent THEN {} ELSE {<<End(t), "blank">>}
          BY <1>7, <2>2, OneMoreOther
    <3>2. u \in Seq(Line) /\ Tables(u) = Tables(t) /\ Switches(u) = Switches(t)
          BY <1>7, <2>2, OneMoreOther
    <3>3. QED BY <2>1, <2>2, <3>1, <3>2
  <2>5. AllOn(u) BY <1>7, <2>2, Copied
  <2> HIDE DEF u
  <2>6. /\ v \in Seq(Line) /\ End(v) = {"<features>"} /\ Switches(v) = {}
        /\ Meaning(v) = Meaning(c) /\ Tables(v) = {Len(u) + 1}
        BY <2>4, OneMoreTable
  <2>7. AllOn(v) BY <2>2, <2>4, <2>5, Copied
  <2> HIDE DEF v
  <2>8. /\ w \in Seq(Line) /\ Switches(w) = {Len(v) + 1}
        /\ Meaning(w) = Meaning(c) /\ Tables(w) = {Len(u) + 1}
        BY <1>3, <2>6, OneMoreSwitch
  <2>9. AllOn(w) BY <1>3, <2>6, <2>7, Copied
  <2> HIDE DEF w
  <2>10. QED BY <2>3, <2>8, <2>9 DEF Serves
<1>11. QED BY <1>9, <1>10

-------------------------------------------------------------------------------
(* What stays whole. *)

(* The lines that ozm's tables consist of, and parts of lines. *)
Ours == {"<<hooks>>", "hook", "permission", "part", "hook_part"}

OursIn(c) == {line \in Ours : \E i \in DOMAIN c : c[i] = line}

LEMMA WholeIs ==
    ASSUME NEW c \in Seq(Line)
    PROVE  /\ \A line \in Ours : Has(c, line) <=> line \in OursIn(c)
           /\ Whole(c) <=> OursIn(c) \in {{}, {"<<hooks>>", "hook", "permission"}}
           /\ Mentioned(c) <=> OursIn(c) \cap {"hook", "permission", "hook_part"} # {}
<1>1. c # Missing BY MissingIsFresh
<1>2. \A line \in Ours : Has(c, line) <=> line \in OursIn(c) BY <1>1 DEF Has, OursIn
<1>3. OursIn(c) \subseteq Ours BY DEF OursIn
<1>4. Mentioned(c) <=> OursIn(c) \cap {"hook", "permission", "hook_part"} # {}
  <2>1. {"hook", "permission", "hook_part"} \subseteq Ours BY DEF Ours
  <2>2. QED BY <1>2, <2>1 DEF Mentioned
<1>5. Whole(c) <=> /\ "part" \notin OursIn(c) /\ "hook_part" \notin OursIn(c)
                   /\ "<<hooks>>" \in OursIn(c) <=> "hook" \in OursIn(c)
                   /\ "hook" \in OursIn(c) <=> "permission" \in OursIn(c)
  BY <1>2 DEF Whole, Ours
<1> DEFINE O == OursIn(c)
<1>6. Whole(c) <=> OursIn(c) \in {{}, {"<<hooks>>", "hook", "permission"}}
  <2>1. ASSUME Whole(c), "hook" \in O PROVE O = {"<<hooks>>", "hook", "permission"}
    <3> HIDE DEF O
    <3>1. QED BY <1>3, <1>5, <2>1 DEF Ours, O
  <2>2. ASSUME Whole(c), "hook" \notin O PROVE O = {}
    <3> HIDE DEF O
    <3>1. QED BY <1>3, <1>5, <2>2 DEF Ours, O
  <2>3. ASSUME O = {"<<hooks>>", "hook", "permission"} PROVE Whole(c)
    BY <1>5, <2>3
  <2>4. ASSUME O = {} PROVE Whole(c) BY <1>5, <2>4
  <2>5. QED BY <2>1, <2>2, <2>3, <2>4
<1>7. QED BY <1>2, <1>4, <1>6

LEMMA OneMoreOfOurs ==
    ASSUME NEW c \in Seq(Line), NEW line \in Line
    PROVE  OursIn(Append(c, line)) = OursIn(c) \cup ({line} \cap Ours)
<1> DEFINE d == Append(c, line)
           n == Len(c)
<1>1. /\ n \in Nat /\ DOMAIN c = 1..n /\ DOMAIN d = 1..n + 1
      /\ \A i \in 1..n : d[i] = c[i]
      /\ d[n + 1] = line
  BY Appended
<1> HIDE DEF d, n
<1>2. \A l : (\E i \in DOMAIN d : d[i] = l) <=> (\E i \in DOMAIN c : c[i] = l) \/ l = line
  BY <1>1
<1>3. QED BY <1>2 DEF OursIn, d

(* What codex_hooks says is no concern of ours here, nor headers of others.*)
LEMMA NotOurs ==
    /\ Flag \cap Ours = {} /\ Key \cap Ours = {}
    /\ On \in Line /\ On \notin Ours
    /\ "<features>" \in Line /\ "<features>" \notin Ours
    /\ "blank" \in Line /\ "blank" \notin Ours
    /\ Ours \subseteq Line
<1>1. Ours \subseteq Silent \cup {"<<hooks>>"} BY DEF Ours, Silent
<1>2. Flag \cap Ours = {} /\ Key \cap Ours = {} BY <1>1, KindsOfLines
<1>3. On \in Line /\ On \notin Ours BY <1>2, KindsOfLines
<1>4. "<features>" \in Line /\ "blank" \in Line BY KindsOfLines
<1>5. "<features>" \notin Ours /\ "blank" \notin Ours BY DEF Ours
<1>6. Ours \subseteq Line BY <1>1, KindsOfLines
<1>7. QED BY <1>2, <1>3, <1>4, <1>5, <1>6

LEMMA NotMoreOfOurs ==
    ASSUME NEW c \in Seq(Line), NEW line \in Line \ Ours
    PROVE  Append(c, line) \in Seq(Line) /\ OursIn(Append(c, line)) = OursIn(c)
<1>1. Append(c, line) \in Seq(Line) BY Appended
<1>2. OursIn(Append(c, line)) = OursIn(c) \cup ({line} \cap Ours)
  BY OneMoreOfOurs
<1>3. {line} \cap Ours = {} OBVIOUS
<1>4. QED BY <1>1, <1>2, <1>3

(* A line more of the loop. *)
LEMMA TakesOurs ==
    ASSUME NEW s \in State, NEW line \in Line
    PROVE  /\ Take(s, line).out \in Seq(Line) /\ Take(s, line) \in State
           /\ OursIn(Take(s, line).out) = OursIn(s.out) \cup ({line} \cap Ours)
<1>1. s.out \in Seq(Line) BY DEF State
<1>2. OursIn(Append(s.out, line)) = OursIn(s.out) \cup ({line} \cap Ours)
      /\ Append(s.out, line) \in Seq(Line)
  BY <1>1, OneMoreOfOurs, Appended
<1>3. OursIn(Append(s.out, On)) = OursIn(s.out) /\ Append(s.out, On) \in Seq(Line)
  BY <1>1, NotOurs, NotMoreOfOurs
<1>4. CASE line = "<features>"
  <2>1. Take(s, line) = [out |-> Append(s.out, line), inside |-> TRUE, saw |-> TRUE,
                         on |-> FALSE]
    BY <1>4, TakeIs
  <2>2. QED BY <1>2, <2>1 DEF State
<1>5. CASE s.inside /\ line \in Header \ {"<features>"}
  <2> DEFINE y == IF s.on THEN s.out ELSE Append(s.out, On)
             Y == Append(y, line)
  <2>1. Take(s, line) = [out |-> Y, inside |-> FALSE, saw |-> s.saw, on |-> s.on]
    BY <1>5, TakeIs
  <2>2. y \in Seq(Line) /\ OursIn(y) = OursIn(s.out) BY <1>1, <1>3
  <2> HIDE DEF y
  <2>3. Y \in Seq(Line) /\ OursIn(Y) = OursIn(y) \cup ({line} \cap Ours)
    BY <2>2, OneMoreOfOurs, Appended
  <2> HIDE DEF Y
  <2>4. QED BY <2>1, <2>2, <2>3 DEF State
<1>6. CASE s.inside /\ line \in Flag
  <2>1. Take(s, line) = [out |-> Append(s.out, On), inside |-> TRUE, saw |-> s.saw,
                         on |-> TRUE]
    BY <1>6, TakeIs
  <2>2. {line} \cap Ours = {} BY <1>6, NotOurs
  <2>3. QED BY <1>3, <2>1, <2>2 DEF State
<1>7. CASE ~(line = "<features>" \/ (s.inside /\ line \in Header \cup Flag))
  <2>1. Take(s, line) = [s EXCEPT !.out = Append(s.out, line)] BY <1>7, TakeIs
  <2>2. QED BY <1>2, <2>1 DEF State
<1>8. QED BY <1>4, <1>5, <1>6, <1>7

LEMMA ScanKeepsOurs ==
    ASSUME NEW c \in Seq(Line)
    PROVE  LET s == Scan(c)[Len(c)]
           IN  s \in State /\ OursIn(s.out) = OursIn(c)
<1> DEFINE S == {i \in Nat : i <= Len(c) =>
                   /\ Scan(c)[i] \in State
                   /\ OursIn(Scan(c)[i].out) = OursIn(SubSeq(c, 1, i))}
<1>1. Len(c) \in Nat BY LenProperties
<1>2. 0 \in S
  <2>1. SubSeq(c, 1, 0) = <<>> BY <1>1
  <2>2. Scan(c)[0] = [out |-> <<>>, inside |-> FALSE, saw |-> FALSE, on |-> FALSE]
    BY Scanned
  <2>3. Scan(c)[0] \in State /\ Scan(c)[0].out = <<>> BY <2>2, EmptySeq DEF State
  <2>4. QED BY <2>1, <2>3
<1>3. ASSUME NEW i \in Nat, i \in S PROVE i + 1 \in S
  <2> SUFFICES ASSUME i + 1 <= Len(c)
               PROVE  /\ Scan(c)[i + 1] \in State
                      /\ OursIn(Scan(c)[i + 1].out) = OursIn(SubSeq(c, 1, i + 1))
      OBVIOUS
  <2> DEFINE x == SubSeq(c, 1, i)
             s == Scan(c)[i]
             line == c[i + 1]
  <2>1. i \in 0..Len(c) /\ i + 1 \in 0..Len(c) /\ i + 1 \in 1..Len(c) BY <1>1
  <2>2. s \in State /\ OursIn(s.out) = OursIn(x) BY <1>1, <1>3
  <2>3. x \in Seq(Line) BY <2>1, Prefix
  <2>4. line \in Line BY <2>1, ElementOfSeq
  <2>5. SubSeq(c, 1, i + 1) = Append(x, line) BY <1>1
  <2>6. Scan(c)[i + 1] = Take(s, line) BY <1>1, <2>1, Scanned
  <2> HIDE DEF x, s, line
  <2>7. OursIn(Append(x, line)) = OursIn(x) \cup ({line} \cap Ours)
    BY <2>3, <2>4, OneMoreOfOurs
  <2>8. Take(s, line) \in State /\ OursIn(Take(s, line).out) = OursIn(s.out) \cup ({line} \cap Ours)
    BY <2>2, <2>4, TakesOurs
  <2>9. QED BY <2>2, <2>5, <2>6, <2>7, <2>8
<1>4. Len(c) \in S
  <2> HIDE DEF S
  <2>1. QED BY <1>1, <1>2, <1>3, Induct
<1>5. Scan(c)[Len(c)] \in State /\ OursIn(Scan(c)[Len(c)].out) = OursIn(SubSeq(c, 1, Len(c)))
  <2>1. Len(c) <= Len(c) BY <1>1
  <2>2. QED BY <1>4, <2>1, Zenon
<1>6. SubSeq(c, 1, Len(c)) = c BY <1>1
<1>7. QED BY <1>5, <1>6, Zenon

LEMMA TrimmedKeepsOurs ==
    ASSUME NEW c \in Seq(Line)
    PROVE  Trimmed(c) \in Seq(Line) /\ OursIn(Trimmed(c)) = OursIn(c)
<1>1. PICK n \in 0..Len(c) :
          Trimmed(c) = SubSeq(c, 1, n) /\ \A i \in n + 1 .. Len(c) : c[i] = "blank"
      BY TrimmedIs
<1> DEFINE d == SubSeq(c, 1, n)
<1>2. /\ d \in Seq(Line)
      /\ \A i \in 1..n : d[i] = c[i]
      /\ n \in Nat /\ Len(c) \in Nat /\ DOMAIN c = 1..Len(c) /\ DOMAIN d = 1..n
      BY Prefix
<1> HIDE DEF d
<1>3. \A i \in DOMAIN c : i \in DOMAIN d \/ c[i] = "blank" BY <1>1, <1>2
<1>4. DOMAIN d \subseteq DOMAIN c BY <1>2
<1>5. \A l \in Ours : (\E i \in DOMAIN d : d[i] = l) <=> (\E i \in DOMAIN c : c[i] = l)
  <2>1. ASSUME NEW l \in Ours, NEW i \in DOMAIN c, c[i] = l PROVE i \in DOMAIN d /\ d[i] = l
    <3>1. l # "blank" BY NotOurs
    <3>2. QED BY <1>2, <1>3, <2>1, <3>1
  <2>2. ASSUME NEW l \in Ours, NEW i \in DOMAIN d, d[i] = l PROVE i \in DOMAIN c /\ c[i] = l
    BY <1>2, <1>4, <2>2
  <2>3. QED BY <2>1, <2>2
<1>6. QED BY <1>1, <1>2, <1>5 DEF OursIn, d

LEMMA WholeEnsured ==
    ASSUME NEW c, InForm(c)
    PROVE  Whole(c) => Whole(EnsureFeature(c))
<1> DEFINE s == Scan(c)[Len(c)]
           y == s.out
           z == IF s.inside /\ ~s.on THEN Append(y, On) ELSE y
           t == Trimmed(z)
<1>1. c \in Seq(Line) BY InFormIs
<1>2. s \in State /\ OursIn(y) = OursIn(c) BY <1>1, ScanKeepsOurs
<1> HIDE DEF s
<1>3. y \in Seq(Line) BY <1>2 DEF State
<1>4. z \in Seq(Line) /\ OursIn(z) = OursIn(y)
  <2>1. Append(y, On) \in Seq(Line) /\ OursIn(Append(y, On)) = OursIn(y)
    <3> HIDE DEF y
    <3>1. QED BY <1>3, NotOurs, NotMoreOfOurs
  <2>2. QED BY <1>3, <2>1
<1> HIDE DEF y, z
<1>5. t \in Seq(Line) /\ OursIn(t) = OursIn(z) BY <1>4, TrimmedKeepsOurs
<1>6. EnsureFeature(c) = t \o IF s.saw THEN <<>> ELSE <<"blank", "<features>", On>>
      BY DEF EnsureFeature, s, y, z
<1> HIDE DEF t
<1>7. EnsureFeature(c) \in Seq(Line) /\ OursIn(EnsureFeature(c)) = OursIn(t)
  <2>1. CASE s.saw
    <3>1. EnsureFeature(c) = t BY <1>5, <1>6, <2>1
    <3>2. QED BY <1>5, <3>1
  <2>2. CASE ~s.saw
    <3> DEFINE u == Append(t, "blank")
               v == Append(u, "<features>")
               w == Append(v, On)
    <3>1. EnsureFeature(c) = w BY <1>5, <1>6, <2>2, NotOurs
    <3>2. u \in Seq(Line) /\ OursIn(u) = OursIn(t) BY <1>5, NotOurs, NotMoreOfOurs
    <3> HIDE DEF u
    <3>3. v \in Seq(Line) /\ OursIn(v) = OursIn(u) BY <3>2, NotOurs, NotMoreOfOurs
    <3> HIDE DEF v
    <3>4. w \in Seq(Line) /\ OursIn(w) = OursIn(v) BY <3>3, NotOurs, NotMoreOfOurs
    <3> HIDE DEF w
    <3>5. QED BY <3>1, <3>2, <3>3, <3>4
  <2>3. QED BY <2>1, <2>2
<1>8. QED BY <1>1, <1>2, <1>4, <1>5, <1>7, WholeIs

LEMMA BehindOurs ==
    ASSUME NEW s \in Seq(Line), NEW t \in Seq(Line)
    PROVE  OursIn(s \o t) = OursIn(s) \cup OursIn(t)
<1> DEFINE d == s \o t
           m == Len(s)
           n == Len(t)
<1>1. /\ d \in Seq(Line) /\ Len(d) = m + n
      /\ \A i \in 1..m : d[i] = s[i]
      /\ \A i \in 1..n : d[m + i] = t[i]
      /\ m \in Nat /\ n \in Nat
  BY BehindOf
<1>2. DOMAIN s = 1..m /\ DOMAIN t = 1..n BY LenProperties
<1>3. DOMAIN d = 1..m + n BY <1>1, LenProperties
<1> HIDE DEF d, m, n
<1>4. ASSUME NEW i \in 1..m + n
      PROVE  (\E k \in 1..m : s[k] = d[i]) \/ (\E k \in 1..n : t[k] = d[i])
  <2>1. CASE i \in 1..m BY <1>1, <2>1
  <2>2. CASE i \notin 1..m
    <3>1. i - m \in 1..n /\ m + (i - m) = i BY <1>1, <2>2
    <3>2. QED BY <1>1, <3>1
  <2>3. QED BY <2>1, <2>2
<1>5. ASSUME NEW k \in 1..m PROVE k \in 1..m + n /\ d[k] = s[k] BY <1>1
<1>6. ASSUME NEW k \in 1..n PROVE m + k \in 1..m + n /\ d[m + k] = t[k] BY <1>1
<1>7. \A l : (\E i \in DOMAIN d : d[i] = l) <=>
               (\E k \in DOMAIN s : s[k] = l) \/ (\E k \in DOMAIN t : t[k] = l)
  BY <1>2, <1>3, <1>4, <1>5, <1>6, Zenon
<1>8. QED BY <1>7 DEF OursIn, d

(* Where the path is not mentioned, all of the tables are put. *)
LEMMA TablesBehind ==
    ASSUME NEW c \in Seq(Line), ~Mentioned(c)
    PROVE  Whole(c) => Whole(Trimmed(c) \o HookTables)
<1> DEFINE t == Trimmed(c)
<1> SUFFICES ASSUME Whole(c) PROVE Whole(t \o HookTables) OBVIOUS
<1>1. OursIn(c) = {} BY WholeIs
<1>2. t \in Seq(Line) /\ OursIn(t) = {} BY <1>1, TrimmedKeepsOurs
<1> HIDE DEF t
<1>3. HookTables \in Seq(Line)
  <2>1. "blank" \in Line /\ "<<hooks>>" \in Line /\ "hook" \in Line /\ "permission" \in Line
    BY KindsOfLines
  <2>2. QED BY <2>1 DEF HookTables
<1>4. OursIn(HookTables) = {"<<hooks>>", "hook", "permission"}
  <2> DEFINE h == HookTables
  <2>1. DOMAIN h = 1..5 BY DEF HookTables
  <2>2. h[1] = "blank" /\ h[2] = "<<hooks>>" /\ h[3] = "hook" /\ h[4] = "permission"
        /\ h[5] = "blank"
    BY DEF HookTables
  <2> HIDE DEF h
  <2>3. \A l : (\E i \in DOMAIN h : h[i] = l) <=>
                 l \in {"blank", "<<hooks>>", "hook", "permission"}
    BY <2>1, <2>2
  <2>4. OursIn(h) = {l \in Ours : l \in {"blank", "<<hooks>>", "hook", "permission"}}
    BY <2>3 DEF OursIn
  <2>5. {"<<hooks>>", "hook", "permission"} \subseteq Ours /\ "blank" \notin Ours BY DEF Ours
  <2>6. QED BY <2>4, <2>5 DEF h
<1>5. t \o HookTables \in Seq(Line) BY <1>2, <1>3, BehindOf
<1>6. OursIn(t \o HookTables) = {"<<hooks>>", "hook", "permission"}
  BY <1>2, <1>3, <1>4, BehindOurs
<1>7. QED BY <1>5, <1>6, WholeIs

-------------------------------------------------------------------------------
(* A configuration of Codex that there may be. *)
Configuration == {c \in Content : c = Missing \/ InForm(c)}

(* Configured makes of any configuration in the form that the code knows,  *)
(* whole or cut, one in which [features] sets codex_hooks once, to true,   *)
(* and the path of the hook is mentioned; everything else is as it was. If *)
(* it was whole, so is what is made of it. Whatever a kill leaves of that  *)
(* is in the form again (install.py:479-545).                              *)
THEOREM ConfiguredServes ==
    ASSUME NEW c \in Configuration
    PROVE  LET n == Configured(c)
           IN  /\ n \in Configuration /\ n \in Seq(Line) /\ Enabled(n) /\ Mentioned(n)
               /\ c # Missing => Meaning(n) = Meaning(c)
               /\ Whole(c) => Whole(n)
               /\ Cut(n) \subseteq Configuration
<1> DEFINE b == IF c = Missing THEN <<>> ELSE c
           e == EnsureFeature(b)
           t == Trimmed(e)
           n == Configured(c)
<1>1. InForm(b)
  <2>1. CASE c = Missing
    <3>1. <<>> \in Seq(Line) /\ DOMAIN <<>> = {} BY EmptySeq
    <3>2. InForm(<<>>) BY <3>1 DEF InForm, Switches
    <3>3. QED BY <2>1, <3>2
  <2>2. CASE c # Missing BY <2>2 DEF Configuration
  <2>3. QED BY <2>1, <2>2
<1>2. n = IF Mentioned(e) THEN e ELSE t \o HookTables BY DEF Configured
<1>3. c # Missing => b = c OBVIOUS
<1> HIDE DEF b
<1>4. Serves(e, b) BY <1>1, FeatureEnsured
<1> HIDE DEF e
<1>5. e \in Seq(Line) BY <1>4 DEF Serves
<1>6. Serves(t, b) BY <1>4, <1>5, TrimmedSays DEF Serves
<1> HIDE DEF t, n
<1>7. Serves(n, b) /\ Mentioned(n)
  <2>1. CASE Mentioned(e) BY <1>2, <1>4, <2>1
  <2>2. CASE ~Mentioned(e)
    <3> DEFINE u == Append(t, "blank")
               v == Append(u, "<<hooks>>")
               h == Append(v, "hook")
               w == Append(h, "permission")
    <3>1. /\ "blank" \in Silent /\ "hook" \in Silent /\ "permission" \in Silent
          /\ "blank" \in Line /\ "hook" \in Line /\ "<<hooks>>" \in Line
          /\ "permission" \in Line
          BY KindsOfLines
    <3>2. t \in Seq(Line) BY <1>6 DEF Serves
    <3>3. n = Append(w, "blank") BY <1>2, <2>2, <3>1, <3>2 DEF HookTables
    <3>4. Serves(u, b) BY <1>6, <3>1, ServesWith
    <3> HIDE DEF u
    <3>5. Serves(v, b) BY <3>4, ServesWith
    <3> HIDE DEF v
    <3>6. Serves(h, b) BY <3>1, <3>5, ServesWith
    <3> HIDE DEF h
    <3>7. Serves(w, b) BY <3>1, <3>6, ServesWith
    <3>8. w \in Seq(Line) /\ Len(w) = Len(h) + 1 /\ Len(h) \in Nat /\ w[Len(w)] = "permission"
      <4>1. h \in Seq(Line) BY <3>6 DEF Serves
      <4>2. QED BY <3>1, <4>1, Appended
    <3> HIDE DEF w
    <3>9. Serves(n, b) BY <3>1, <3>3, <3>7, ServesWith
    <3>10. /\ n \in Seq(Line) /\ DOMAIN n = 1..Len(w) + 1
           /\ \A i \in 1..Len(w) : n[i] = w[i]
           BY <3>1, <3>3, <3>8, Appended
    <3>11. Len(w) \in DOMAIN n /\ n[Len(w)] = "permission" BY <3>8, <3>10
    <3>12. n # Missing BY <3>10, MissingIsFresh
    <3>13. QED BY <3>9, <3>11, <3>12 DEF Has, Mentioned
  <2>3. QED BY <2>1, <2>2
<1>8. n \in Seq(Line) /\ InForm(n) /\ Enabled(n) /\ Meaning(n) = Meaning(b)
      BY <1>7, Serving DEF Serves
<1>9. ASSUME NEW d \in Cut(n) PROVE d \in Configuration
  <2>1. d \in Seq(Line) BY <1>8, CutOfLines
  <2>2. InForm(d) BY <1>8, CutInForm
  <2>3. QED BY <2>1, <2>2 DEF Configuration, Content
<1>10. n \in Configuration BY <1>8 DEF Configuration, Content
<1>11. Whole(c) => Whole(n)
  <2>1. Whole(c) => Whole(b)
    <3>1. CASE c = Missing
      <4>1. b = <<>> BY <3>1 DEF b
      <4>2. \A line : ~Has(b, line) BY <4>1 DEF Has
      <4>3. QED BY <4>2 DEF Whole
    <3>2. CASE c # Missing BY <1>3, <3>2
    <3>3. QED BY <3>1, <3>2
  <2>2. Whole(b) => Whole(e) BY <1>1, WholeEnsured DEF e
  <2>3. Whole(e) => Whole(n)
    <3>1. CASE Mentioned(e) BY <1>2, <3>1
    <3>2. CASE ~Mentioned(e) BY <1>2, <1>5, <3>2, TablesBehind DEF t
    <3>3. QED BY <3>1, <3>2
  <2>4. QED BY <2>1, <2>2, <2>3
<1>12. QED BY <1>3, <1>7, <1>8, <1>9, <1>10, <1>11 DEF n

-------------------------------------------------------------------------------
(* Places an installation goes through. *)

Shared == {"settings", "config", "CLAUDE.md", "AGENTS.md"}
Guides == {"CLAUDE.md", "AGENTS.md"}
Loaded == {"backup", "copy", "open", "write"}

-------------------------------------------------------------------------------
(* The inductive invariant. *)

(* Where an installation is in which file. *)
PlacesKnown ==
    /\ pc = "idle" => at = 1
    /\ pc = "done" => at = (IF project THEN 6 ELSE 4)
    /\ pc # "idle" /\ at > 4 => project
    /\ pc \in {"backup", "copy"} => Here \in {"rules", "config"}
    /\ pc = "append" => Here \in Guides
    /\ pc = "chmod" => Here = "hook"

(* What is going to be written is what belongs there. *)
TextRight ==
    /\ pc \in Loaded =>
         /\ Here = "hook" => text = Script
         /\ Here = "settings" => IsJson(text) /\ Has(text, "hook")
         /\ Here = "rules" => text = Rules
         /\ Here = "config" => \E c \in Configuration : text = Configured(c)
         /\ Here \in Guides => text = Guide
    /\ pc = "append" => text = Guide

ConfigKnown == file["config"] \in Configuration \/ (pc = "write" /\ Here = "config")

CodexEnabled == Mentioned(file["config"]) /\ Enabled(file["config"])

(* The files before the n-th are in order. *)
Behind(n) ==
    /\ n > 1 => HookScriptOK
    /\ n > 2 => SettingsOK
    /\ n > 3 => RulesOK
    /\ n > 4 => CodexEnabled
    /\ n > 6 => ProjectDocsOK

(* So it is behind an installation during which nobody edits. *)
BehindInstalled ==
    calm /\ pc # "idle" =>
        /\ pc = "chmod" => file["hook"] = Script
        /\ Behind(IF pc = "done" THEN at + 1 ELSE at)

(* Neither what a file holds nor what will be written loses anything. *)
ContentHeld(f) ==
    f \notin lost =>
        /\ Keeps(f)
        /\ Here = f /\ pc \in Loaded =>
              mine[f] = Missing \/ (f \notin Guides /\ Meaning(text) = Meaning(mine[f]))

Own(f) == f \notin aged /\ mine[f] # Missing

(* The backup holds what the user had, or that is in the file yet. *)
BackedUp(f) ==
    Own(f) =>
        /\ kills = 0 /\ ~(pc = "copy" /\ Here = f) => backup[f] \in {Missing, mine[f]}
        /\ backup[f] = Missing =>
              file[f] = mine[f] /\ ~(Here = f /\ pc \in {"copy", "open", "write"})
        /\ pc = "copy" /\ Here = f => file[f] = mine[f]

(* One kill destroys the configuration or its backup, but not both. *)
ConfigSurvives ==
    Own("config") /\ kills <= 1 =>
        /\ Keeps("config") \/ backup["config"] = mine["config"]
        /\ Here = "config" /\ pc \in Loaded =>
              \/ Meaning(text) = Meaning(mine["config"])
              \/ backup["config"] = mine["config"]
              \/ pc = "backup" /\ backup["config"] = Missing
              \/ pc = "copy"

IInv ==
    /\ TypeOK
    /\ PlacesKnown
    /\ ConfigKnown
    /\ TextRight
    /\ BehindInstalled
    /\ \A f \in Shared : ContentHeld(f)
    /\ \A f \in {"rules", "config"} : BackedUp(f)
    /\ ConfigSurvives

-------------------------------------------------------------------------------
(* What contents mean. *)

(* Lines that say nothing to the user, behind the ones that do.            *)
LEMMA SameMeaning ==
    ASSUME NEW s \in Seq(Line), NEW t \in Seq(Line), NEW n \in Nat,
           n <= Len(s), n <= Len(t),
           \A i \in 1..n : s[i] = t[i],
           \A i \in n + 1 .. Len(s) : s[i] \notin Key \cup Flag,
           \A i \in n + 1 .. Len(t) : t[i] \notin Key \cup Flag
    PROVE  Meaning(s) = Meaning(t)
<1>1. ASSUME NEW i \in 1..n PROVE SectionOf(s, i) = SectionOf(t, i)
  <2>1. i \in Nat /\ \A k \in 1..i : s[k] = t[k] OBVIOUS
  <2>2. QED BY <2>1, SameSection
<1> DEFINE Says(c, j) == c[j] \in Key \/ (c[j] \in Flag /\ SectionOf(c, j) # {"<features>"})
           S(c) == {j \in DOMAIN c : Says(c, j)}
<1>2. S(s) \subseteq 1..n /\ S(t) \subseteq 1..n
  <2>1. DOMAIN s = 1..Len(s) /\ DOMAIN t = 1..Len(t) /\ Len(s) \in Nat /\ Len(t) \in Nat OBVIOUS
  <2>2. \A j \in 1..Len(s) : Says(s, j) => j \in 1..n BY <2>1
  <2>3. \A j \in 1..Len(t) : Says(t, j) => j \in 1..n BY <2>1
  <2>4. QED BY <2>1, <2>2, <2>3
<1>3. \A j \in 1..n : Says(s, j) <=> Says(t, j) BY <1>1
<1>4. 1..n \subseteq DOMAIN s /\ 1..n \subseteq DOMAIN t OBVIOUS
<1>5. S(s) = S(t) BY <1>2, <1>3, <1>4
<1>6. Meaning(s) = {<<SectionOf(s, i), s[i]>> : i \in S(s)} BY DEF Meaning
<1>7. Meaning(t) = {<<SectionOf(t, i), t[i]>> : i \in S(t)} BY DEF Meaning
<1> HIDE DEF S
<1>8. \A i \in S(s) : SectionOf(s, i) = SectionOf(t, i) /\ s[i] = t[i] BY <1>1, <1>2
<1>9. QED BY <1>5, <1>6, <1>7, <1>8

LEMMA SilentLines == Silent \cap (Key \cup Flag) = {} /\ Silent \subseteq Line
BY KindsOfLines

LEMMA OneLess ==
    ASSUME NEW m \in Nat \ {0}, m # 1
    PROVE  m - 1 \in Nat /\ m - 1 >= 1 /\ m = (m - 1) + 1 /\ m - 1 \in 0..m
OBVIOUS

(* The hook is put into settings and takes nothing out of them. *)
LEMMA HookedRight ==
    ASSUME NEW c \in Content, c = Missing \/ IsJson(c)
    PROVE  /\ Hooked(c) \in Seq(Line)
           /\ IsJson(Hooked(c)) /\ Has(Hooked(c), "hook")
           /\ c # Missing => Meaning(Hooked(c)) = Meaning(c)
<1>0. Missing \notin Seq(Line) BY MissingIsFresh
<1>1. CASE c = Missing
  <2> DEFINE h == <<"lbrace", "hook", "rbrace">>
  <2>1. h \in Seq(Line) /\ Len(h) = 3 /\ h[1] = "lbrace" /\ h[2] = "hook" /\ h[3] = "rbrace"
        /\ h # <<>>
        /\ 2 \in DOMAIN h
        BY DEF Line, Silent
  <2>2. Hooked(c) = h BY <1>1 DEF Hooked
  <2> HIDE DEF h
  <2>3. QED BY <1>0, <1>1, <2>1, <2>2 DEF IsJson, Has
<1>2. CASE c # Missing /\ Has(c, "hook")
      BY <1>2 DEF Hooked, Content
<1>3. CASE c # Missing /\ ~Has(c, "hook")
  <2>1. c \in Seq(Line) /\ c # <<>> /\ c[1] = "lbrace" /\ c[Len(c)] = "rbrace"
        BY <1>3 DEF Content, IsJson
  <2> DEFINE n == Len(c) - 1
             f == SubSeq(c, 1, n)
             e == <<"hook", "rbrace">>
             h == f \o e
  <2>2. n \in Nat /\ n >= 1 /\ Len(c) = n + 1 /\ n \in 0..Len(c)
    <3>1. Len(c) \in Nat \ {0} BY <2>1, EmptySeq
    <3>2. Len(c) # 1 BY <2>1
    <3>3. QED BY <3>1, <3>2, OneLess
  <2>3. h = Hooked(c) BY <1>3 DEF Hooked, Front
  <2> HIDE DEF n
  <2>4. f \in Seq(Line) /\ Len(f) = n /\ \A i \in 1..n : f[i] = c[i]
        BY <2>1, <2>2, PrefixOf
  <2>5. e \in Seq(Line) /\ Len(e) = 2 /\ e[1] = "hook" /\ e[2] = "rbrace"
        BY DEF Line, Silent
  <2> HIDE DEF f, e
  <2>6. /\ h \in Seq(Line) /\ Len(h) = n + 2
        /\ \A i \in 1..n : h[i] = c[i]
        /\ h[n + 1] = "hook" /\ h[n + 2] = "rbrace"
    <3>1. /\ f \o e \in Seq(Line) /\ Len(f \o e) = Len(f) + Len(e)
          /\ \A i \in 1..Len(f) : (f \o e)[i] = f[i]
          /\ \A i \in 1..Len(e) : (f \o e)[Len(f) + i] = e[i]
          BY <2>4, <2>5, BehindOf, Zenon
    <3>2. 1 \in 1..Len(e) /\ 2 \in 1..Len(e) BY <2>5
    <3>3. QED BY <2>4, <2>5, <3>1, <3>2
  <2> HIDE DEF h
  <2>7. h # <<>> /\ h[1] = "lbrace" /\ h[Len(h)] = "rbrace" /\ DOMAIN h = 1..n + 2
    <3>1. DOMAIN h = 1..n + 2 BY <2>6, LenProperties
    <3>2. Len(h) # 0 BY <2>2, <2>6
    <3>3. h # <<>> BY <3>2, EmptySeq
    <3>4. h[1] = c[1] BY <2>2, <2>6
    <3>5. QED BY <2>1, <2>6, <3>1, <3>3, <3>4
  <2>8. Has(h, "hook")
    <3>1. n + 1 \in DOMAIN h BY <2>2, <2>7
    <3>2. h # Missing BY <1>0, <2>6
    <3>3. QED BY <3>1, <3>2, <2>6 DEF Has
  <2>9. IsJson(h) BY <1>0, <2>6, <2>7 DEF IsJson
  <2>10. Meaning(h) = Meaning(c)
    <3>1. "hook" \notin Key \cup Flag /\ "rbrace" \notin Key \cup Flag BY SilentLines DEF Silent
    <3>2. \A i \in n + 1 .. Len(h) : h[i] \notin Key \cup Flag
      <4>1. ASSUME NEW i \in n + 1 .. Len(h) PROVE i = n + 1 \/ i = n + 2
            BY <2>2, <2>6
      <4>2. QED BY <3>1, <4>1, <2>6
    <3>3. \A i \in n + 1 .. Len(c) : c[i] \notin Key \cup Flag
      <4>1. ASSUME NEW i \in n + 1 .. Len(c) PROVE i = Len(c) BY <2>2
      <4>2. QED BY <3>1, <4>1, <2>1
    <3>4. n <= Len(h) /\ n <= Len(c) BY <2>2, <2>6
    <3>5. \A i \in 1..n : h[i] = c[i] BY <2>6
    <3>6. QED BY <2>1, <2>2, <2>6, <3>2, <3>3, <3>4, <3>5, SameMeaning
  <2>11. QED BY <2>3, <2>6, <2>8, <2>9, <2>10
<1>4. QED BY <1>1, <1>2, <1>3

(* So are instructions, or a part of them. *)
LEMMA AppendedRight ==
    ASSUME NEW c \in Content, NEW t \in Seq(Silent)
    PROVE  /\ AppendTo(c, t) \in Seq(Line)
           /\ c # Missing => Meaning(AppendTo(c, t)) = Meaning(c)
           /\ Len(t) > 0 /\ t[1] = "marker" => Has(AppendTo(c, t), "marker")
<1> DEFINE b == IF c = Missing THEN <<>> ELSE c
           e == <<"blank">>
           u == b \o e
           r == u \o t
<1>0. AppendTo(c, t) = r BY DEF AppendTo
<1>1. e \in Seq(Silent) /\ Len(e) = 1 /\ e[1] = "blank" BY DEF Silent
<1>2. Silent \subseteq Line BY SilentLines
<1>3. t \in Seq(Silent) OBVIOUS
<1>4. t \in Seq(Line) /\ e \in Seq(Line) BY <1>1, <1>2, <1>3, SeqMonotonic
<1>5. b \in Seq(Line) /\ (c # Missing => b = c) BY EmptySeq DEF Content
<1> HIDE DEF b, e
<1>6. /\ u \in Seq(Line) /\ Len(u) = Len(b) + 1 /\ Len(b) \in Nat
      /\ \A i \in 1..Len(b) : u[i] = b[i]
      /\ u[Len(b) + 1] = "blank"
  <2>1. /\ b \o e \in Seq(Line) /\ Len(b \o e) = Len(b) + Len(e)
        /\ \A i \in 1..Len(b) : (b \o e)[i] = b[i]
        /\ \A i \in 1..Len(e) : (b \o e)[Len(b) + i] = e[i]
        /\ Len(b) \in Nat
        BY <1>4, <1>5, BehindOf, Zenon
  <2>2. 1 \in 1..Len(e) BY <1>1
  <2>3. QED BY <1>1, <2>1, <2>2
<1> HIDE DEF u
<1>7. /\ r \in Seq(Line) /\ Len(r) = Len(u) + Len(t) /\ Len(t) \in Nat
      /\ \A i \in 1..Len(u) : r[i] = u[i]
      /\ \A i \in 1..Len(t) : r[Len(u) + i] = t[i]
  <2>1. /\ u \o t \in Seq(Line) /\ Len(u \o t) = Len(u) + Len(t) /\ Len(t) \in Nat
        /\ \A i \in 1..Len(u) : (u \o t)[i] = u[i]
        /\ \A i \in 1..Len(t) : (u \o t)[Len(u) + i] = t[i]
        BY <1>4, <1>6, BehindOf, Zenon
  <2>2. QED BY <2>1
<1> HIDE DEF r
<1>8. \A i \in 1..Len(b) : r[i] = b[i] BY <1>6, <1>7
<1>9. \A i \in Len(b) + 1 .. Len(r) : r[i] \notin Key \cup Flag
  <2> SUFFICES ASSUME NEW i \in Len(b) + 1 .. Len(r) PROVE r[i] \in Silent
      BY SilentLines
  <2>1. CASE i = Len(b) + 1
    <3>1. i \in 1..Len(u) BY <1>6, <2>1
    <3>2. r[i] = "blank" BY <1>6, <1>7, <2>1, <3>1
    <3>3. QED BY <3>2 DEF Silent
  <2>2. CASE i # Len(b) + 1
    <3> DEFINE j == i - Len(u)
    <3>1. j \in 1..Len(t) /\ i = Len(u) + j BY <1>6, <1>7, <2>2
    <3> HIDE DEF j
    <3>2. r[i] = t[j] BY <1>7, <3>1
    <3>3. QED BY <1>3, <3>1, <3>2, ElementOfSeq
  <2>3. QED BY <2>1, <2>2
<1>10. Meaning(r) = Meaning(b)
  <2>1. Len(b) <= Len(r) BY <1>6, <1>7
  <2>2. \A i \in Len(b) + 1 .. Len(b) : b[i] \notin Key \cup Flag BY <1>6
  <2>3. Len(b) <= Len(b) BY <1>6
  <2>4. QED BY <1>5, <1>6, <1>7, <1>8, <1>9, <2>1, <2>2, <2>3, SameMeaning
<1>11. Len(t) > 0 /\ t[1] = "marker" => Has(r, "marker")
  <2> SUFFICES ASSUME Len(t) > 0, t[1] = "marker" PROVE Has(r, "marker") OBVIOUS
  <2>1. Len(t) \in Nat BY <1>7
  <2>2. 1 \in 1..Len(t) BY <2>1
  <2>3. r[Len(u) + 1] = "marker" BY <1>7, <2>1, <2>2
  <2>4. Len(u) + 1 \in DOMAIN r
    <3>1. DOMAIN r = 1..Len(r) BY <1>7, LenProperties
    <3>2. QED BY <1>6, <1>7, <2>1, <2>2, <3>1
  <2>5. r # Missing BY <1>7, MissingIsFresh
  <2>6. QED BY <2>3, <2>4, <2>5 DEF Has
<1>12. QED BY <1>0, <1>5, <1>7, <1>10, <1>11

LEMMA CutOfGuide ==
    ASSUME NEW t \in Cut(Guide)
    PROVE  t \in Seq(Silent)
<1>1. /\ Guide \in Seq(Silent) /\ Guide \in Seq(Line) /\ Len(Guide) = 2
      /\ Guide[1] = "marker" /\ Guide[2] = "guide"
  BY DEF Guide, Silent, Line
<1>2. ASSUME NEW n \in 0..Len(Guide), t = SubSeq(Guide, 1, n) PROVE t \in Seq(Silent)
  BY <1>1, <1>2, PrefixOf
<1>3. ASSUME NEW n \in 1..Len(Guide), NEW p \in Parts(Guide[n]),
             t = Append(SubSeq(Guide, 1, n - 1), p)
      PROVE  t \in Seq(Silent)
  <2>1. n - 1 \in 0..Len(Guide) BY <1>1
  <2>2. SubSeq(Guide, 1, n - 1) \in Seq(Silent) BY <1>1, <2>1, PrefixOf
  <2>3. Guide[n] \in {"marker", "guide"} BY <1>1
  <2>4. Guide[n] \notin {"blank", "lbrace", "rbrace", "hook", "permission", "<other>", "<<hooks>>"}
    BY <2>3
  <2>5. Guide[n] \notin Flag BY <2>3, KindsOfLines DEF Silent
  <2>6. p = "part" BY <2>4, <2>5 DEF Parts
  <2>7. p \in Silent BY <2>6 DEF Silent
  <2>8. QED BY <1>3, <2>2, <2>7, AppendProperties
<1>4. QED BY <1>1, <1>2, <1>3, CutIs
-------------------------------------------------------------------------------
(* Places. *)

LEMMA PlaceOf ==
    \A n \in 1..6 :
        /\ Order[n] \in File
        /\ Order[n] = "hook" <=> n = 1
        /\ Order[n] = "settings" <=> n = 2
        /\ Order[n] = "rules" <=> n = 3
        /\ Order[n] = "config" <=> n = 4
        /\ Order[n] = "CLAUDE.md" <=> n = 5
        /\ Order[n] = "AGENTS.md" <=> n = 6
<1> SUFFICES ASSUME NEW n \in 1..6
             PROVE  /\ Order[n] \in File
                    /\ Order[n] = "hook" <=> n = 1
                    /\ Order[n] = "settings" <=> n = 2
                    /\ Order[n] = "rules" <=> n = 3
                    /\ Order[n] = "config" <=> n = 4
                    /\ Order[n] = "CLAUDE.md" <=> n = 5
                    /\ Order[n] = "AGENTS.md" <=> n = 6
    OBVIOUS
<1>1. n = 1 \/ n = 2 \/ n = 3 \/ n = 4 \/ n = 5 \/ n = 6 OBVIOUS
<1>2. QED BY <1>1 DEF Order, File

(* Where an installation is when it has dealt with a file. *)
LEMMA Onward ==
    ASSUME TypeOK, PlacesKnown, pc # "idle", Advance
    PROVE  /\ \/ pc' = "read" /\ at' = at + 1
              \/ pc' = "done" /\ at' = at
           /\ at' \in 1..6 /\ text' = <<>> /\ text' \in Seq(Line) /\ project' = project
           /\ PlacesKnown'
<1>1. text' = <<>> /\ text' \in Seq(Line) /\ project' = project BY EmptySeq DEF Advance
<1>2. at \in 1..6 /\ project \in BOOLEAN /\ (at > 4 => project) BY DEF TypeOK, PlacesKnown
<1>3. CASE at < IF project THEN 6 ELSE 4
  <2>1. pc' = "read" /\ at' = at + 1 BY <1>3 DEF Advance
  <2>2. at' \in 1..6 /\ (at' > 4 => project) BY <1>2, <1>3, <2>1
  <2>3. QED BY <1>1, <2>1, <2>2 DEF PlacesKnown
<1>4. CASE ~(at < IF project THEN 6 ELSE 4)
  <2>1. pc' = "done" /\ at' = at BY <1>4 DEF Advance
  <2>2. at = IF project THEN 6 ELSE 4 BY <1>2, <1>4
  <2>3. QED BY <1>1, <1>2, <2>1, <2>2 DEF PlacesKnown
<1>5. QED BY <1>3, <1>4

-------------------------------------------------------------------------------
(* Steps that look at a file and leave all files alone. *)

(* What is true of the files stays true.  *)
LEMMA LooksKeep ==
    ASSUME IInv, pc = "read", UNCHANGED <<disk, history>>,
           pc' \in {"idle", "read", "done", "backup", "open", "append"}
    PROVE  /\ ConfigKnown'
           /\ \A f \in Shared : Keeps(f) => Keeps(f)'
           /\ \A n \in Nat : Behind(n) => Behind(n)'
<1>1. file' = file /\ executable' = executable /\ kills' = kills /\ mine' = mine
      BY DEF disk, history
<1>2. ConfigKnown' BY <1>1 DEF IInv, ConfigKnown
<1>3. ASSUME NEW f \in Shared, Keeps(f) PROVE Keeps(f)'
  <2>1. Held(f) = file[f] BY DEF Held
  <2>2. Held(f)' = file[f] BY <1>1 DEF Held
  <2>3. QED BY <1>1, <1>3, <2>1, <2>2 DEF Keeps
<1>4. ASSUME NEW n \in Nat, Behind(n) PROVE Behind(n)'
      BY <1>1, <1>4
      DEF Behind, HookScriptOK, SettingsOK, RulesOK, CodexEnabled, ProjectDocsOK
<1>5. QED BY <1>2, <1>3, <1>4

(* When nothing is to be written, nothing is lost. *)
LEMMA IdlesKeep ==
    ASSUME IInv, pc = "read", UNCHANGED <<disk, history>>,
           pc' \in {"idle", "read", "done"}
    PROVE  /\ \A f \in Shared : ContentHeld(f)'
           /\ \A f \in {"rules", "config"} : BackedUp(f)'
           /\ ConfigSurvives'
           /\ TextRight'
<1>1. /\ file' = file /\ backup' = backup /\ kills' = kills /\ mine' = mine /\ lost' = lost
      /\ aged' = aged /\ torn' = torn
      BY DEF disk, history
<1>2. ASSUME NEW f \in Shared PROVE ContentHeld(f)'
      BY <1>1, LooksKeep DEF IInv, ContentHeld, Loaded
<1>3. ASSUME NEW f \in {"rules", "config"} PROVE BackedUp(f)'
      BY <1>1 DEF IInv, BackedUp, Own
<1>4. ConfigSurvives'
  <2>1. Keeps("config") => Keeps("config")' BY LooksKeep DEF Shared
  <2>2. QED BY <1>1, <2>1 DEF IInv, ConfigSurvives, Own, Loaded
<1>5. TextRight' BY DEF TextRight, Loaded
<1>6. QED BY <1>2, <1>3, <1>4, <1>5

LEMMA QuitKeeps ==
    ASSUME IInv, pc = "read", Quit, UNCHANGED <<disk, history>>
    PROVE  IInv'
<1>1. pc' = "idle" /\ at' = 1 /\ text' = <<>> /\ project' = FALSE BY DEF Quit
<1>2. TypeOK'
  <2>1. project' \in BOOLEAN BY <1>1
  <2>2. text' \in Seq(Line) BY <1>1, EmptySeq
  <2>3. pc' \in PC /\ at' \in 1..6 BY <1>1 DEF PC
  <2>4. QED BY <2>1, <2>2, <2>3 DEF IInv, TypeOK, disk, history
<1>3. PlacesKnown' BY <1>1 DEF PlacesKnown
<1>4. BehindInstalled' BY <1>1 DEF BehindInstalled
<1>5. QED BY <1>1, <1>2, <1>3, <1>4, LooksKeep, IdlesKeep DEF IInv

(* The file is in order as it is. *)
LEMMA PassKeeps ==
    ASSUME IInv, pc = "read", Advance, UNCHANGED <<disk, history>>,
           calm => Behind(at + 1)
    PROVE  IInv'
<1>1. /\ \/ pc' = "read" /\ at' = at + 1
         \/ pc' = "done" /\ at' = at
      /\ at' \in 1..6 /\ text' \in Seq(Line) /\ project' = project
      /\ PlacesKnown'
      BY Onward DEF IInv
<1>2. TypeOK' BY <1>1 DEF IInv, TypeOK, disk, history, PC
<1>3. BehindInstalled'
  <2>1. calm' = calm BY DEF history
  <2>2. PICK n \in Nat : n = at + 1 BY DEF IInv, TypeOK
  <2>3. calm => Behind(n)' BY <1>1, <2>2, LooksKeep
  <2>4. (IF pc' = "done" THEN at' + 1 ELSE at') = n /\ pc' # "chmod" BY <1>1, <2>2
  <2>5. QED BY <1>1, <2>1, <2>3, <2>4 DEF BehindInstalled, Behind
<1>4. QED BY <1>1, <1>2, <1>3, LooksKeep, IdlesKeep DEF IInv

LEMMA BeginKeeps ==
    ASSUME IInv, NEW withProject \in BOOLEAN, Begin(withProject)
    PROVE  IInv'
<1>1. /\ pc \in {"idle", "done"} /\ pc' = "read" /\ at' = 1 /\ text' = <<>>
      /\ project' = withProject /\ calm' = TRUE
      /\ UNCHANGED <<disk, kills, edits, mine, lost, aged, torn>>
      BY DEF Begin
<1>2. file' = file /\ executable' = executable /\ backup' = backup BY <1>1 DEF disk
<1>3. TypeOK'
  <2>1. project' \in BOOLEAN BY <1>1
  <2>2. calm' \in BOOLEAN BY <1>1
  <2>3. text' \in Seq(Line) BY <1>1, EmptySeq
  <2>4. pc' \in PC /\ at' \in 1..6 BY <1>1 DEF PC
  <2>5. QED BY <1>1, <1>2, <2>1, <2>2, <2>3, <2>4 DEF IInv, TypeOK
<1>4. PlacesKnown' BY <1>1 DEF PlacesKnown
<1>5. ConfigKnown' BY <1>1, <1>2 DEF IInv, ConfigKnown
<1>6. TextRight' BY <1>1 DEF TextRight, Loaded
<1>7. BehindInstalled' BY <1>1 DEF BehindInstalled, Behind
<1>8. ASSUME NEW f \in Shared, Keeps(f) PROVE Keeps(f)'
  <2>1. Held(f) = file[f] BY <1>1 DEF Held
  <2>2. Held(f)' = file[f] BY <1>1, <1>2 DEF Held
  <2>3. QED BY <1>1, <1>8, <2>1, <2>2 DEF Keeps
<1>9. ASSUME NEW f \in Shared PROVE ContentHeld(f)'
      BY <1>1, <1>8 DEF IInv, ContentHeld, Loaded
<1>10. ASSUME NEW f \in {"rules", "config"} PROVE BackedUp(f)'
      BY <1>1, <1>2 DEF IInv, BackedUp, Own
<1>11. ConfigSurvives'
  <2>1. Keeps("config") => Keeps("config")' BY <1>8 DEF Shared
  <2>2. QED BY <1>1, <1>2, <2>1 DEF IInv, ConfigSurvives, Own, Loaded
<1>12. QED BY <1>3, <1>4, <1>5, <1>6, <1>7, <1>9, <1>10, <1>11 DEF IInv

(* What belongs in the file that is being dealt with. *)
Fits(t) ==
    /\ Here = "hook" => t = Script
    /\ Here = "settings" => IsJson(t) /\ Has(t, "hook")
    /\ Here = "rules" => t = Rules
    /\ Here = "config" => \E c \in Configuration : t = Configured(c)
    /\ Here \in Guides => t = Guide

(* Writing it loses nothing of the user's. *)
Spares(t) ==
    /\ \A f \in Shared :
         Here = f /\ f \notin lost =>
             mine[f] = Missing \/ (f \notin Guides /\ Meaning(t) = Meaning(mine[f]))
    /\ Here = "config" /\ Own("config") /\ kills <= 1 =>
         Meaning(t) = Meaning(mine["config"]) \/ backup["config"] = mine["config"]

LEMMA PrepareKeeps ==
    ASSUME IInv, pc = "read", UNCHANGED <<disk, history>>,
           NEW t \in Seq(Line), NEW place \in {"backup", "open", "append"}, Prepare(t, place),
           place = "backup" <=> Here \in {"rules", "config"},
           place = "append" => Here \in Guides /\ t = Guide,
           Fits(t),
           place # "append" => Spares(t)
    PROVE  IInv'
<1>1. pc' = place /\ text' = t /\ at' = at /\ project' = project /\ Here' = Here
      BY DEF Prepare, Here
<1>2. /\ file' = file /\ executable' = executable /\ backup' = backup
      /\ kills' = kills /\ edits' = edits /\ calm' = calm /\ mine' = mine /\ lost' = lost
      /\ aged' = aged /\ torn' = torn
      BY DEF disk, history
<1>3. TypeOK' BY <1>1, <1>2 DEF IInv, TypeOK, PC
<1>4. PlacesKnown' BY <1>1 DEF IInv, PlacesKnown
<1>5. ConfigKnown' BY <1>1, LooksKeep
<1>6. TextRight' BY <1>1, <1>2 DEF TextRight, Fits, Loaded
<1>7. BehindInstalled'
  <2>1. PICK n \in Nat : n = at BY DEF IInv, TypeOK
  <2>2. Behind(n) => Behind(n)' BY <1>1, LooksKeep
  <2>3. QED BY <1>1, <1>2, <2>1, <2>2 DEF IInv, BehindInstalled, Behind
<1>8. \A f \in Shared : Keeps(f) => Keeps(f)' BY <1>1, LooksKeep
<1>9. ASSUME NEW f \in Shared PROVE ContentHeld(f)'
      BY <1>1, <1>2, <1>8 DEF IInv, ContentHeld, Spares, Loaded
<1>10. ASSUME NEW f \in {"rules", "config"} PROVE BackedUp(f)'
  <2>1. ~(Here = f /\ place = "open") OBVIOUS
  <2>2. QED BY <1>1, <1>2, <2>1 DEF IInv, BackedUp, Own
<1>11. ConfigSurvives'
  <2>1. Keeps("config") => Keeps("config")' BY <1>8 DEF Shared
  <2>2. QED BY <1>1, <1>2, <2>1 DEF IInv, ConfigSurvives, Own, Loaded, Spares
<1>12. QED BY <1>3, <1>4, <1>5, <1>6, <1>7, <1>9, <1>10, <1>11 DEF IInv

LEMMA StartHookKeeps ==
    ASSUME IInv, StartHook
    PROVE  IInv'
<1>1. /\ pc = "read" /\ Here = "hook" /\ UNCHANGED <<disk, history>>
      /\ Prepare(Script, "open")
      BY DEF StartHook, Reading
<1>2. Script \in Seq(Line) BY DEF Script, Line, Silent
<1>3. Fits(Script) /\ Spares(Script) BY <1>1 DEF Fits, Spares, Shared, Guides
<1>4. QED BY <1>1, <1>2, <1>3, PrepareKeeps DEF Guides

LEMMA ReadSettingsKeeps ==
    ASSUME IInv, ReadSettings
    PROVE  IInv'
<1> DEFINE c == file["settings"]
           t == Hooked(c)
<1>1. pc = "read" /\ Here = "settings" /\ UNCHANGED <<disk, history>>
      BY DEF ReadSettings, Reading
<1>2. CASE ~(c = Missing \/ IsJson(c)) BY <1>1, <1>2, QuitKeeps DEF ReadSettings
<1>3. CASE c = Missing \/ IsJson(c)
  <2>1. c \in Content BY DEF IInv, TypeOK, File
  <2>2. Prepare(t, "open") BY <1>3 DEF ReadSettings
  <2> HIDE DEF c
  <2>3. /\ t \in Seq(Line) /\ IsJson(t) /\ Has(t, "hook")
        /\ c # Missing => Meaning(t) = Meaning(c)
        BY <1>3, <2>1, HookedRight
  <2>4. Fits(t) BY <1>1, <2>3 DEF Fits, Guides
  <2>5. Keeps("settings") => mine["settings"] = Missing
                             \/ (c # Missing /\ Meaning(c) = Meaning(mine["settings"]))
        BY <1>1 DEF Keeps, Held, c
  <2> HIDE DEF t
  <2>6. Spares(t)
    <3>1. "settings" \notin lost => Keeps("settings") BY DEF IInv, ContentHeld, Shared
    <3>2. "settings" \notin Guides BY DEF Guides
    <3>3. QED BY <1>1, <2>3, <2>5, <3>1, <3>2 DEF Spares
  <2>7. QED BY <1>1, <2>2, <2>3, <2>4, <2>6, PrepareKeeps DEF Guides
<1>4. QED BY <1>2, <1>3

LEMMA ReadRulesKeeps ==
    ASSUME IInv, ReadRules
    PROVE  IInv'
<1>1. pc = "read" /\ Here = "rules" /\ at = 3 /\ UNCHANGED <<disk, history>>
      BY PlaceOf DEF ReadRules, Reading, IInv, TypeOK, Here
<1>2. CASE file["rules"] = Rules
  <2>1. calm => Behind(at + 1)
        BY <1>1, <1>2 DEF IInv, BehindInstalled, Behind, RulesOK
  <2>2. QED BY <1>1, <1>2, <2>1, PassKeeps DEF ReadRules
<1>3. CASE file["rules"] # Rules
  <2>1. Prepare(Rules, "backup") BY <1>3 DEF ReadRules
  <2>2. Rules \in Seq(Line) BY DEF Rules, Line, Silent
  <2>3. Fits(Rules) /\ Spares(Rules) BY <1>1 DEF Fits, Spares, Shared, Guides
  <2>4. QED BY <1>1, <2>1, <2>2, <2>3, PrepareKeeps
<1>4. QED BY <1>2, <1>3

LEMMA ReadConfigKeeps ==
    ASSUME IInv, ReadConfig
    PROVE  IInv'
<1> DEFINE c == file["config"]
           t == Configured(c)
<1>1. pc = "read" /\ Here = "config" /\ at = 4 /\ UNCHANGED <<disk, history>>
      BY PlaceOf DEF ReadConfig, Reading, IInv, TypeOK, Here
<1>2. c \in Configuration /\ kills \in 0..MaxFaults
      BY <1>1 DEF IInv, ConfigKnown, TypeOK
<1>3. /\ t \in Seq(Line) /\ Enabled(t) /\ Mentioned(t)
      /\ c # Missing => Meaning(t) = Meaning(c)
      BY <1>2, ConfiguredServes
<1>4. CASE c = t
  <2>1. CodexEnabled BY <1>3, <1>4 DEF CodexEnabled
  <2>2. calm => Behind(at + 1) BY <1>1, <2>1 DEF IInv, BehindInstalled, Behind
  <2>3. Advance BY <1>4 DEF ReadConfig
  <2>4. QED BY <1>1, <2>2, <2>3, PassKeeps
<1>5. CASE c # t
  <2>1. Prepare(t, "backup") BY <1>5 DEF ReadConfig
  <2>2. Fits(t) BY <1>1, <1>2 DEF Fits, Guides
  <2>3. Keeps("config") => mine["config"] = Missing
                           \/ (c # Missing /\ Meaning(c) = Meaning(mine["config"]))
        BY <1>1 DEF Keeps, Held
  <2> HIDE DEF c, t
  <2>4. Spares(t)
    <3>1. "config" \notin lost => Keeps("config") BY DEF IInv, ContentHeld, Shared
    <3>2. Own("config") /\ kills <= 1 =>
              Keeps("config") \/ backup["config"] = mine["config"]
          BY DEF IInv, ConfigSurvives
    <3>3. "config" \notin Guides BY DEF Guides
    <3>4. QED BY <1>1, <1>3, <2>3, <3>1, <3>2, <3>3 DEF Spares, Own
  <2>5. QED BY <1>1, <1>3, <2>1, <2>2, <2>4, PrepareKeeps
<1>6. QED BY <1>4, <1>5

LEMMA ReadGuideKeeps ==
    ASSUME IInv, ReadGuide
    PROVE  IInv'
<1>1. PICK f \in Guides :
        /\ Reading(f)
        /\ IF file[f] = Missing THEN Prepare(Guide, "open")
           ELSE IF Has(file[f], "marker") THEN Advance
           ELSE Prepare(Guide, "append")
      BY DEF ReadGuide, Guides
<1>2. pc = "read" /\ Here = f /\ UNCHANGED <<disk, history>> BY <1>1 DEF Reading
<1>3. at \in {5, 6} /\ (f = "AGENTS.md" <=> at = 6)
      BY <1>2, PlaceOf DEF IInv, TypeOK, Here, Guides
<1>4. Guide \in Seq(Line) /\ Fits(Guide)
      BY <1>2 DEF Guide, Line, Silent, Fits, Guides
<1>5. CASE file[f] = Missing
  <2>1. Keeps(f) => mine[f] = Missing BY <1>2, <1>5 DEF Keeps, Held
  <2>2. f \notin lost => Keeps(f) BY DEF IInv, ContentHeld, Shared, Guides
  <2>3. Spares(Guide) BY <1>2, <2>1, <2>2 DEF Spares, Guides
  <2>4. Prepare(Guide, "open") BY <1>1, <1>5
  <2>5. QED BY <1>2, <1>4, <2>3, <2>4, PrepareKeeps DEF Guides
<1>6. CASE file[f] # Missing /\ Has(file[f], "marker")
  <2>1. at = 6 => ProjectDocsOK BY <1>3, <1>6 DEF ProjectDocsOK
  <2>2. calm => Behind(at + 1)
        BY <1>2, <1>3, <2>1 DEF IInv, BehindInstalled, Behind
  <2>3. QED BY <1>1, <1>2, <1>6, <2>2, PassKeeps
<1>7. CASE file[f] # Missing /\ ~Has(file[f], "marker")
  <2>1. Prepare(Guide, "append") BY <1>1, <1>7
  <2>2. QED BY <1>2, <1>4, <2>1, PrepareKeeps DEF Guides
<1>8. QED BY <1>5, <1>6, <1>7

-------------------------------------------------------------------------------
(* Backups. *)

(* All but what is said of backups. *)
LEMMA BackupsAside ==
    ASSUME IInv, pc \in {"backup", "copy"}, pc' \in {"copy", "open"},
           at' = at, text' = text, project' = project,
           backup' \in [File -> Content], UNCHANGED <<file, executable, history>>
    PROVE  /\ TypeOK' /\ PlacesKnown' /\ ConfigKnown' /\ TextRight' /\ BehindInstalled'
           /\ \A f \in Shared : ContentHeld(f)'
           /\ Here' = Here /\ Here \in {"rules", "config"}
           /\ kills' = kills /\ mine' = mine /\ aged' = aged /\ torn' = torn
           /\ Keeps("config")' <=> Keeps("config")
<1>1. /\ Here' = Here /\ Here \in {"rules", "config"} BY DEF Here, IInv, PlacesKnown
<1>2. /\ file' = file /\ executable' = executable
      /\ kills' = kills /\ edits' = edits /\ calm' = calm /\ mine' = mine /\ lost' = lost
      /\ aged' = aged /\ torn' = torn
      BY DEF history
<1>3. TypeOK' BY <1>2 DEF IInv, TypeOK, PC
<1>4. PlacesKnown' BY <1>1 DEF IInv, PlacesKnown
<1>5. ConfigKnown' BY <1>2 DEF IInv, ConfigKnown
<1>6. TextRight' BY <1>1, <1>2 DEF IInv, TextRight, Loaded
<1>7. BehindInstalled'
  <2>1. Behind(at) => Behind(at)'
        BY <1>2 DEF Behind, HookScriptOK, SettingsOK, RulesOK, CodexEnabled, ProjectDocsOK
  <2>2. QED BY <1>2, <2>1 DEF IInv, BehindInstalled
<1>8. ASSUME NEW f \in File PROVE Keeps(f)' <=> Keeps(f)
  <2>1. Held(f) = file[f] /\ Held(f)' = file[f] BY <1>2 DEF Held
  <2>2. QED BY <1>2, <2>1 DEF Keeps
<1>9. ASSUME NEW f \in Shared PROVE ContentHeld(f)'
  <2>1. Keeps(f)' <=> Keeps(f) BY <1>8 DEF Shared, File
  <2>2. QED BY <1>1, <1>2, <2>1 DEF IInv, ContentHeld, Loaded
<1>10. QED BY <1>1, <1>2, <1>3, <1>4, <1>5, <1>6, <1>7, <1>8, <1>9 DEF File

LEMMA BackUpKeeps ==
    ASSUME IInv, BackUp
    PROVE  IInv'
<1>1. /\ pc = "backup" /\ UNCHANGED <<file, executable, history>>
      /\ at' = at /\ text' = text /\ project' = project
      /\ pc' \in {"copy", "open"}
      BY DEF BackUp, Goto
<1>2. Here \in File BY PlaceOf DEF IInv, TypeOK, Here
<1>3. \/ /\ file[Here] # Missing /\ backup[Here] = Missing
         /\ pc' = "copy" /\ backup' = [backup EXCEPT ![Here] = <<>>]
      \/ /\ file[Here] = Missing \/ backup[Here] # Missing
         /\ pc' = "open" /\ backup' = backup
      BY DEF BackUp, Goto
<1>4. backup' \in [File -> Content]
  <2>1. <<>> \in Content BY EmptySeq DEF Content
  <2>2. QED BY <1>3, <2>1 DEF IInv, TypeOK
<1>5. /\ TypeOK' /\ PlacesKnown' /\ ConfigKnown' /\ TextRight' /\ BehindInstalled'
      /\ \A f \in Shared : ContentHeld(f)'
      /\ Here' = Here /\ Here \in {"rules", "config"}
      /\ kills' = kills /\ mine' = mine /\ aged' = aged /\ torn' = torn
      /\ Keeps("config")' <=> Keeps("config")
      BY <1>1, <1>4, BackupsAside
<1>6. <<>> # Missing BY EmptySeq, MissingIsFresh
<1>7. ASSUME NEW f \in {"rules", "config"} PROVE BackedUp(f)'
  <2> SUFFICES ASSUME Own(f)' PROVE BackedUp(f)' BY DEF BackedUp
  <2>1. Own(f) BY <1>5 DEF Own
  <2>2. /\ kills = 0 => backup[f] \in {Missing, mine[f]}
        /\ backup[f] = Missing => file[f] = mine[f]
        BY <1>1, <2>1 DEF IInv, BackedUp
  <2>3. mine[f] # Missing BY <2>1 DEF Own
  <2>4. CASE f # Here
    <3>1. backup'[f] = backup[f] BY <1>3, <2>4 DEF IInv, TypeOK, File
    <3>2. QED BY <1>1, <1>5, <2>2, <2>4, <3>1 DEF BackedUp
  <2>5. CASE f = Here /\ file[f] # Missing /\ backup[f] = Missing
    <3>1. pc' = "copy" /\ backup'[f] = <<>>
          BY <1>2, <1>3, <2>5 DEF IInv, TypeOK
    <3>2. QED BY <1>1, <1>5, <1>6, <2>2, <2>5, <3>1 DEF BackedUp
  <2>6. CASE f = Here /\ ~(file[f] # Missing /\ backup[f] = Missing)
    <3>1. pc' = "open" /\ backup'[f] = backup[f] /\ backup[f] # Missing
          BY <1>3, <2>2, <2>3, <2>6
    <3>2. QED BY <1>1, <1>5, <2>2, <2>6, <3>1 DEF BackedUp
  <2>7. QED BY <2>4, <2>5, <2>6
<1>8. ConfigSurvives'
  <2> SUFFICES ASSUME Own("config")', kills <= 1 PROVE ConfigSurvives'
      BY <1>5 DEF ConfigSurvives
  <2>1. Own("config") BY <1>5 DEF Own
  <2>2. CASE Here # "config"
    <3>1. backup'["config"] = backup["config"] BY <1>3, <2>2 DEF IInv, TypeOK, File
    <3>2. QED BY <1>5, <2>1, <2>2, <3>1 DEF IInv, ConfigSurvives
  <2>3. CASE Here = "config"
    <3>1. backup["config"] = Missing => file["config"] = mine["config"]
          BY <2>1 DEF IInv, BackedUp
    <3>2. backup["config"] = Missing => Keeps("config")
          BY <1>1, <3>1 DEF Keeps, Held
    <3>3. mine["config"] # Missing BY <2>1 DEF Own
    <3>4. CASE pc' = "copy"
      <4>1. backup["config"] = Missing BY <1>3, <2>3, <3>4
      <4>2. QED BY <1>5, <2>3, <3>2, <3>4, <4>1 DEF ConfigSurvives
    <3>5. CASE pc' = "open"
      <4>1. backup' = backup /\ backup["config"] # Missing BY <1>3, <2>3, <3>1, <3>3, <3>5
      <4>2. QED BY <1>1, <1>5, <2>1, <2>3, <3>5, <4>1 DEF IInv, ConfigSurvives, Loaded
    <3>6. QED BY <1>1, <3>4, <3>5
  <2>4. QED BY <2>2, <2>3
<1>9. QED BY <1>5, <1>7, <1>8 DEF IInv

LEMMA CopyKeeps ==
    ASSUME IInv, Copy
    PROVE  IInv'
<1>1. /\ pc = "copy" /\ pc' = "open" /\ UNCHANGED <<file, executable, history>>
      /\ at' = at /\ text' = text /\ project' = project
      /\ file[Here] # Missing
      /\ backup' = [backup EXCEPT ![Here] = file[Here]]
      BY DEF Copy, Goto
<1>2. Here \in File BY PlaceOf DEF IInv, TypeOK, Here
<1>3. backup' \in [File -> Content] BY <1>1, <1>2 DEF IInv, TypeOK
<1>4. /\ TypeOK' /\ PlacesKnown' /\ ConfigKnown' /\ TextRight' /\ BehindInstalled'
      /\ \A f \in Shared : ContentHeld(f)'
      /\ Here' = Here /\ Here \in {"rules", "config"}
      /\ kills' = kills /\ mine' = mine /\ aged' = aged /\ torn' = torn
      /\ Keeps("config")' <=> Keeps("config")
      BY <1>1, <1>3, BackupsAside
<1>5. /\ backup'[Here] = file[Here]
      /\ \A f \in File : f # Here => backup'[f] = backup[f]
      BY <1>1, <1>2 DEF IInv, TypeOK
<1>6. ASSUME NEW f \in {"rules", "config"} PROVE BackedUp(f)'
  <2> SUFFICES ASSUME Own(f)' PROVE BackedUp(f)' BY DEF BackedUp
  <2>1. Own(f) BY <1>4 DEF Own
  <2>2. CASE f # Here
    <3>1. backup'[f] = backup[f] BY <1>5, <2>2 DEF File
    <3>2. QED BY <1>1, <1>4, <2>1, <2>2, <3>1 DEF IInv, BackedUp
  <2>3. CASE f = Here
    <3>1. file[f] = mine[f] BY <1>1, <2>1, <2>3 DEF IInv, BackedUp
    <3>2. QED BY <1>1, <1>4, <1>5, <2>3, <3>1 DEF BackedUp
  <2>4. QED BY <2>2, <2>3
<1>7. ConfigSurvives'
  <2> SUFFICES ASSUME Own("config")', kills <= 1 PROVE ConfigSurvives'
      BY <1>4 DEF ConfigSurvives
  <2>1. Own("config") BY <1>4 DEF Own
  <2>2. CASE Here # "config"
    <3>1. backup'["config"] = backup["config"] BY <1>5, <2>2 DEF File
    <3>2. QED BY <1>4, <2>1, <2>2, <3>1 DEF IInv, ConfigSurvives
  <2>3. CASE Here = "config"
    <3>1. backup'["config"] = mine["config"]
          BY <1>1, <1>5, <2>1, <2>3 DEF IInv, BackedUp
    <3>2. QED BY <1>4, <3>1 DEF ConfigSurvives
  <2>4. QED BY <2>2, <2>3
<1>8. QED BY <1>4, <1>6, <1>7 DEF IInv

-------------------------------------------------------------------------------
(* Writing. *)

(* A step that changes no other file than the one dealt with. *)
LEMMA OthersStay ==
    ASSUME IInv, pc # "idle", pc' = "write" => at' = at,
           \A f \in File : f # Here => file'[f] = file[f],
           executable => executable', mine' = mine
    PROVE  /\ Here \in File
           /\ \A n \in Nat : n <= at /\ Behind(n) => Behind(n)'
           /\ \A f \in Shared : f # Here /\ Keeps(f) => Keeps(f)'
<1>1. at \in 1..6 /\ Here \in File BY PlaceOf DEF IInv, TypeOK, Here
<1>2. /\ at > 1 => Here # "hook"
      /\ at > 2 => Here # "settings"
      /\ at > 3 => Here # "rules"
      /\ at > 4 => Here # "config"
      BY <1>1, PlaceOf DEF Here
<1>3. ASSUME NEW n \in Nat, n <= at, Behind(n) PROVE Behind(n)'
  <2>1. n > 1 => HookScriptOK'
    <3>1. n > 1 => file'["hook"] = file["hook"] BY <1>1, <1>2, <1>3 DEF File
    <3>2. QED BY <1>3, <3>1 DEF Behind, HookScriptOK
  <2>2. n > 2 => SettingsOK'
    <3>1. n > 2 => file'["settings"] = file["settings"] BY <1>1, <1>2, <1>3 DEF File
    <3>2. QED BY <1>3, <3>1 DEF Behind, SettingsOK
  <2>3. n > 3 => RulesOK'
    <3>1. n > 3 => file'["rules"] = file["rules"] BY <1>1, <1>2, <1>3 DEF File
    <3>2. QED BY <1>3, <3>1 DEF Behind, RulesOK
  <2>4. n > 4 => CodexEnabled'
    <3>1. n > 4 => file'["config"] = file["config"] BY <1>1, <1>2, <1>3 DEF File
    <3>2. QED BY <1>3, <3>1 DEF Behind, CodexEnabled
  <2>5. ~(n > 6) BY <1>1, <1>3
  <2>6. QED BY <2>1, <2>2, <2>3, <2>4, <2>5 DEF Behind
<1>4. ASSUME NEW f \in Shared, f # Here, Keeps(f) PROVE Keeps(f)'
  <2>1. pc' = "write" => Here' = Here BY DEF Here
  <2>2. Held(f) = file[f] /\ Held(f)' = file'[f] BY <1>4, <2>1 DEF Held
  <2>3. file'[f] = file[f] BY <1>4 DEF Shared, File
  <2>4. QED BY <1>4, <2>2, <2>3 DEF Keeps
<1>5. QED BY <1>1, <1>3, <1>4

LEMMA TruncateKeeps ==
    ASSUME IInv, Truncate
    PROVE  IInv'
<1>1. /\ pc = "open" /\ pc' = "write" /\ at' = at /\ text' = text /\ project' = project
      /\ Here' = Here
      /\ file' = [file EXCEPT ![Here] = <<>>]
      /\ executable' = executable /\ backup' = backup
      /\ kills' = kills /\ edits' = edits /\ calm' = calm /\ mine' = mine /\ lost' = lost
      /\ aged' = aged /\ torn' = torn
      BY DEF Truncate, Goto, Here, history
<1>2. \A f \in File : f # Here => file'[f] = file[f]
      BY <1>1 DEF IInv, TypeOK
<1>3. /\ Here \in File
      /\ \A n \in Nat : n <= at /\ Behind(n) => Behind(n)'
      /\ \A f \in Shared : f # Here /\ Keeps(f) => Keeps(f)'
      BY <1>1, <1>2, OthersStay
<1>4. TypeOK'
  <2>1. <<>> \in Content BY EmptySeq DEF Content
  <2>2. file' \in [File -> Content] BY <1>1, <2>1 DEF IInv, TypeOK
  <2>3. QED BY <1>1, <2>2 DEF IInv, TypeOK, PC
<1>5. PlacesKnown' BY <1>1 DEF IInv, PlacesKnown
<1>6. ConfigKnown'
  <2>1. Here # "config" => file'["config"] = file["config"] BY <1>2 DEF File
  <2>2. QED BY <1>1, <2>1 DEF IInv, ConfigKnown
<1>7. TextRight' BY <1>1 DEF IInv, TextRight, Loaded
<1>8. BehindInstalled'
  <2>1. PICK n \in Nat : n = at BY DEF IInv, TypeOK
  <2>2. Behind(n) => Behind(n)' BY <1>3, <2>1
  <2>3. QED BY <1>1, <2>1, <2>2 DEF IInv, BehindInstalled, Behind
<1>9. ASSUME NEW f \in Shared, f = Here
      PROVE  Keeps(f)' <=> (mine[f] # Missing => Meaning(text) = Meaning(mine[f]))
  <2>1. text # Missing BY MissingIsFresh DEF IInv, TypeOK
  <2>2. QED BY <1>1, <1>9, <2>1 DEF Keeps, Held
<1>10. ASSUME NEW f \in Shared PROVE ContentHeld(f)'
  <2>1. CASE f # Here BY <1>1, <1>3, <2>1 DEF IInv, ContentHeld
  <2>2. CASE f = Here BY <1>1, <1>9, <2>2 DEF IInv, ContentHeld, Loaded
  <2>3. QED BY <2>1, <2>2
<1>11. ASSUME NEW f \in {"rules", "config"} PROVE BackedUp(f)'
  <2>1. f # Here => file'[f] = file[f] BY <1>2 DEF File
  <2>2. QED BY <1>1, <2>1 DEF IInv, BackedUp, Own
<1>12. ConfigSurvives'
  <2>1. CASE Here # "config"
    <3>1. Keeps("config") => Keeps("config")' BY <1>3, <2>1 DEF Shared
    <3>2. QED BY <1>1, <2>1, <3>1 DEF IInv, ConfigSurvives, Own
  <2>2. CASE Here = "config"
    <3>1. Keeps("config")' <=> (mine["config"] # Missing =>
                                  Meaning(text) = Meaning(mine["config"]))
          BY <1>9, <2>2 DEF Shared
    <3>2. QED BY <1>1, <2>2, <3>1 DEF IInv, ConfigSurvives, Own, Loaded
  <2>3. QED BY <2>1, <2>2
<1>13. QED BY <1>4, <1>5, <1>6, <1>7, <1>8, <1>10, <1>11, <1>12 DEF IInv

(* A step that ends with a file written whole, and what follows of it. *)
LEMMA WrittenKeeps ==
    ASSUME IInv, pc \in {"write", "append", "chmod"},
           pc' \in {"chmod", "read", "done"}, TypeOK', PlacesKnown', ConfigKnown',
           \A f \in File : f # Here => file'[f] = file[f],
           UNCHANGED <<backup, history>>,
           \A f \in Shared : Keeps(f) => Keeps(f)',
           pc # "write" => Here \notin {"rules", "config"},
           BehindInstalled'
    PROVE  IInv'
<1>1. /\ kills' = kills /\ calm' = calm /\ mine' = mine
      /\ lost' = lost /\ aged' = aged /\ torn' = torn
      /\ backup' = backup
      BY DEF history
<1>2. TextRight' BY DEF TextRight, Loaded
<1>3. ASSUME NEW f \in Shared PROVE ContentHeld(f)'
      BY <1>1 DEF IInv, ContentHeld, Loaded
<1>4. ASSUME NEW f \in {"rules", "config"} PROVE BackedUp(f)'
  <2>1. f # Here => file'[f] = file[f] BY DEF File
  <2>2. QED BY <1>1, <2>1 DEF IInv, BackedUp, Own
<1>5. ConfigSurvives'
  <2>1. Keeps("config") => Keeps("config")' BY DEF Shared
  <2>2. QED BY <1>1, <2>1 DEF IInv, ConfigSurvives, Own, Loaded
<1>6. QED BY <1>2, <1>3, <1>4, <1>5 DEF IInv

LEMMA WriteKeeps ==
    ASSUME IInv, Write
    PROVE  IInv'
<1>1. /\ pc = "write" /\ file' = [file EXCEPT ![Here] = text]
      /\ UNCHANGED <<executable, backup, history>>
      /\ \/ Here = "hook" /\ pc' = "chmod" /\ at' = at /\ text' = text /\ project' = project
         \/ Here # "hook" /\ Advance
      BY DEF Write, Goto
<1>2. at \in 1..6 /\ Here \in File BY PlaceOf DEF IInv, TypeOK, Here
<1>3. file'[Here] = text /\ \A f \in File : f # Here => file'[f] = file[f]
      BY <1>1, <1>2 DEF IInv, TypeOK
<1>4. /\ kills' = kills /\ edits' = edits /\ calm' = calm /\ mine' = mine /\ lost' = lost
      /\ aged' = aged /\ torn' = torn
      BY <1>1 DEF history
<1>5. /\ \/ Here = "hook" /\ pc' = "chmod" /\ at' = at
         \/ Here # "hook" /\ pc' = "read" /\ at' = at + 1
         \/ Here # "hook" /\ pc' = "done" /\ at' = at
      /\ at' \in 1..6 /\ text' \in Seq(Line) /\ project' = project
      /\ PlacesKnown'
  <2>1. CASE Here # "hook" BY <1>1, <2>1, Onward DEF IInv
  <2>2. CASE Here = "hook" /\ pc' = "chmod" /\ at' = at /\ text' = text /\ project' = project
    <3>1. Here' = "hook" BY <2>2 DEF Here
    <3>2. PlacesKnown' BY <1>1, <2>2, <3>1 DEF IInv, PlacesKnown
    <3>3. QED BY <1>2, <2>2, <3>2 DEF IInv, TypeOK
  <2>3. QED BY <1>1, <2>1, <2>2
<1>6. TypeOK'
  <2>1. file' \in [File -> Content] BY <1>1, <1>2 DEF IInv, TypeOK, Content
  <2>2. QED BY <1>1, <1>4, <1>5, <2>1 DEF IInv, TypeOK, PC
<1>7. Here = "config" => \E c \in Configuration : text = Configured(c)
      BY <1>1 DEF IInv, TextRight, Loaded
<1>8. kills \in 0..MaxFaults BY DEF IInv, TypeOK
<1>9. ConfigKnown'
  <2>1. CASE Here = "config"
    <3>1. text \in Configuration BY <1>7, <1>8, <2>1, ConfiguredServes
    <3>2. QED BY <1>3, <1>4, <2>1, <3>1 DEF ConfigKnown
  <2>2. CASE Here # "config"
    <3>1. file'["config"] = file["config"] BY <1>3, <2>2 DEF File
    <3>2. QED BY <1>1, <1>4, <2>2, <3>1 DEF IInv, ConfigKnown
  <2>3. QED BY <2>1, <2>2
<1>10. ASSUME NEW f \in Shared, Keeps(f) PROVE Keeps(f)'
  <2>1. Held(f) = IF f = Here THEN text ELSE file[f] BY <1>1 DEF Held
  <2>2. Held(f)' = file'[f] BY <1>5 DEF Held
  <2>3. Held(f)' = Held(f) BY <1>3, <2>1, <2>2 DEF Shared, File
  <2>4. QED BY <1>4, <1>10, <2>3 DEF Keeps
<1>11. \A n \in Nat : n <= at /\ Behind(n) => Behind(n)'
       BY <1>1, <1>3, <1>4, <1>5, OthersStay
<1>12. BehindInstalled'
  <2> SUFFICES ASSUME calm PROVE BehindInstalled' BY <1>4 DEF BehindInstalled
  <2>1. PICK n \in Nat : n = at BY <1>2
  <2>2. Behind(n)' BY <1>1, <1>11, <2>1 DEF IInv, BehindInstalled, Behind
  <2>3. CASE Here = "hook"
    <3>1. file'["hook"] = Script BY <1>1, <1>3, <2>3 DEF IInv, TextRight, Loaded
    <3>2. QED BY <1>5, <2>1, <2>2, <2>3, <3>1 DEF BehindInstalled, Behind
  <2>4. CASE Here # "hook"
    <3>1. PICK m \in Nat : m = n + 1 OBVIOUS
    <3>2. (IF pc' = "done" THEN at' + 1 ELSE at') = m /\ pc' # "chmod"
          BY <1>5, <2>1, <2>4, <3>1
    <3>3. n = 2 => SettingsOK'
          BY <1>1, <1>2, <1>3, <2>1, PlaceOf DEF Here, IInv, TextRight, Loaded, SettingsOK
    <3>4. n = 3 => RulesOK'
          BY <1>1, <1>2, <1>3, <2>1, PlaceOf DEF Here, IInv, TextRight, Loaded, RulesOK
    <3>5. n = 4 => CodexEnabled'
      <4>1. n = 4 => Here = "config" BY <1>2, <2>1, PlaceOf DEF Here
      <4>2. Here = "config" => Mentioned(text) /\ Enabled(text)
            BY <1>7, <1>8, ConfiguredServes
      <4>3. QED BY <1>3, <4>1, <4>2 DEF CodexEnabled
    <3>6. n = 6 => ProjectDocsOK'
      <4>1. n = 6 => Here = "AGENTS.md" BY <1>2, <2>1, PlaceOf DEF Here
      <4>2. Here = "AGENTS.md" => text = Guide
            BY <1>1 DEF IInv, TextRight, Loaded, Guides
      <4>3. Has(Guide, "marker")
        <5>1. Guide \in Seq(Line) BY DEF Guide, Line, Silent
        <5>2. Guide # Missing BY <5>1, MissingIsFresh
        <5>3. 1 \in DOMAIN Guide /\ Guide[1] = "marker" BY DEF Guide
        <5>4. QED BY <5>2, <5>3 DEF Has
      <4>4. QED BY <1>3, <4>1, <4>2, <4>3 DEF ProjectDocsOK
    <3>7. n # 1 BY <1>2, <2>1, <2>4, PlaceOf DEF Here
    <3>8. Behind(m)' BY <1>2, <2>1, <2>2, <3>1, <3>3, <3>4, <3>5, <3>6, <3>7 DEF Behind
    <3>9. QED BY <3>2, <3>8 DEF BehindInstalled
  <2>5. QED BY <2>3, <2>4
<1>13. QED BY <1>1, <1>3, <1>5, <1>6, <1>9, <1>10, <1>12, WrittenKeeps

LEMMA AppendedWhole ==
    ASSUME NEW c \in Content
    PROVE  /\ AppendTo(c, Guide) \in Seq(Line)
           /\ c # Missing => Meaning(AppendTo(c, Guide)) = Meaning(c)
           /\ Has(AppendTo(c, Guide), "marker")
<1>1. Guide \in Seq(Silent) /\ Len(Guide) > 0 /\ Guide[1] = "marker" BY DEF Guide, Silent
<1>2. QED BY <1>1, AppendedRight

LEMMA AppendTextKeeps ==
    ASSUME IInv, AppendText
    PROVE  IInv'
<1>1. /\ pc = "append" /\ Advance
      /\ file' = [file EXCEPT ![Here] = AppendTo(file[Here], text)]
      /\ UNCHANGED <<executable, backup, history>>
      BY DEF AppendText
<1>2. at \in 1..6 /\ Here \in Guides /\ text = Guide /\ Here \in File
      BY <1>1, PlaceOf DEF IInv, TypeOK, Here, PlacesKnown, TextRight
<1>3. PICK new \in Seq(Line) :
        /\ new = AppendTo(file[Here], Guide) /\ Has(new, "marker")
        /\ file[Here] # Missing => Meaning(new) = Meaning(file[Here])
  <2>1. file[Here] \in Content BY <1>2 DEF IInv, TypeOK
  <2>2. QED BY <2>1, AppendedWhole
<1>4. file'[Here] = new /\ \A f \in File : f # Here => file'[f] = file[f]
      BY <1>1, <1>2, <1>3 DEF IInv, TypeOK
<1>5. /\ kills' = kills /\ edits' = edits /\ calm' = calm /\ mine' = mine /\ lost' = lost
      /\ aged' = aged /\ torn' = torn
      BY <1>1 DEF history
<1>6. /\ \/ pc' = "read" /\ at' = at + 1
         \/ pc' = "done" /\ at' = at
      /\ at' \in 1..6 /\ text' \in Seq(Line) /\ project' = project
      /\ PlacesKnown'
      BY <1>1, Onward DEF IInv
<1>7. TypeOK'
  <2>1. file' \in [File -> Content] BY <1>1, <1>2, <1>3 DEF IInv, TypeOK, Content
  <2>2. QED BY <1>1, <1>5, <1>6, <2>1 DEF IInv, TypeOK, PC
<1>8. Here # "config" /\ Here # "rules" BY <1>2 DEF Guides
<1>9. ConfigKnown'
  <2>1. file'["config"] = file["config"] BY <1>4, <1>8 DEF File
  <2>2. QED BY <1>1, <1>5, <2>1 DEF IInv, ConfigKnown
<1>10. ASSUME NEW f \in Shared, Keeps(f) PROVE Keeps(f)'
  <2>1. Held(f) = file[f] /\ Held(f)' = file'[f] BY <1>1, <1>6 DEF Held
  <2>2. CASE f # Here
    <3>1. file'[f] = file[f] BY <1>4, <2>2 DEF Shared, File
    <3>2. QED BY <1>5, <1>10, <2>1, <3>1 DEF Keeps
  <2>3. CASE f = Here
    <3>1. file'[f] = new /\ new # Missing BY <1>4, <2>3, MissingIsFresh
    <3>2. QED BY <1>3, <1>5, <1>10, <2>1, <2>3, <3>1 DEF Keeps
  <2>4. QED BY <2>2, <2>3
<1>11. \A n \in Nat : n <= at /\ Behind(n) => Behind(n)'
       BY <1>1, <1>4, <1>5, <1>6, OthersStay
<1>12. BehindInstalled'
  <2> SUFFICES ASSUME calm PROVE BehindInstalled' BY <1>5 DEF BehindInstalled
  <2>1. PICK n \in Nat : n = at BY <1>2
  <2>2. PICK m \in Nat : m = n + 1 OBVIOUS
  <2>3. Behind(n)' BY <1>1, <1>11, <2>1 DEF IInv, BehindInstalled, Behind
  <2>4. (IF pc' = "done" THEN at' + 1 ELSE at') = m /\ pc' # "chmod" BY <1>6, <2>1, <2>2
  <2>5. n \in {5, 6} BY <1>2, <2>1, PlaceOf DEF Here, Guides
  <2>6. n = 6 => ProjectDocsOK'
    <3>1. n = 6 => Here = "AGENTS.md" BY <1>2, <2>1, PlaceOf DEF Here
    <3>2. QED BY <1>3, <1>4, <3>1 DEF ProjectDocsOK
  <2>7. Behind(m)' BY <2>2, <2>3, <2>5, <2>6 DEF Behind
  <2>8. QED BY <2>4, <2>7 DEF BehindInstalled
<1>13. QED BY <1>1, <1>4, <1>6, <1>7, <1>8, <1>9, <1>10, <1>12, WrittenKeeps

LEMMA ChmodKeeps ==
    ASSUME IInv, Chmod
    PROVE  IInv'
<1>1. /\ pc = "chmod" /\ Advance /\ executable' = TRUE
      /\ file' = file /\ backup' = backup /\ UNCHANGED history
      BY DEF Chmod
<1>2. at = 1 /\ Here = "hook" BY <1>1, PlaceOf DEF IInv, TypeOK, Here, PlacesKnown
<1>3. /\ kills' = kills /\ edits' = edits /\ calm' = calm /\ mine' = mine /\ lost' = lost
      /\ aged' = aged /\ torn' = torn
      BY <1>1 DEF history
<1>4. /\ \/ pc' = "read" /\ at' = at + 1
         \/ pc' = "done" /\ at' = at
      /\ at' \in 1..6 /\ text' \in Seq(Line) /\ project' = project
      /\ PlacesKnown'
      BY <1>1, Onward DEF IInv
<1>5. TypeOK'
  <2>1. executable' \in BOOLEAN BY <1>1
  <2>2. QED BY <1>1, <1>3, <1>4, <2>1 DEF IInv, TypeOK, PC
<1>6. ConfigKnown' BY <1>1, <1>2, <1>3 DEF IInv, ConfigKnown
<1>7. ASSUME NEW f \in Shared, Keeps(f) PROVE Keeps(f)'
  <2>1. Held(f) = file[f] /\ Held(f)' = file[f] BY <1>1, <1>4 DEF Held
  <2>2. QED BY <1>3, <1>7, <2>1 DEF Keeps
<1>8. BehindInstalled'
  <2> SUFFICES ASSUME calm PROVE BehindInstalled' BY <1>3 DEF BehindInstalled
  <2>1. HookScriptOK'
    <3>1. file["hook"] = Script BY <1>1 DEF IInv, BehindInstalled
    <3>2. QED BY <1>1, <3>1 DEF HookScriptOK
  <2>2. (IF pc' = "done" THEN at' + 1 ELSE at') = 2 /\ pc' # "chmod"
    <3>1. CASE pc' = "read" /\ at' = at + 1
      <4>1. at' = 2 BY <1>2, <3>1
      <4>2. QED BY <3>1, <4>1
    <3>2. CASE pc' = "done" /\ at' = at
      <4>1. at' = 1 BY <1>2, <3>2
      <4>2. QED BY <3>2, <4>1
    <3>3. QED BY <1>4, <3>1, <3>2
  <2>3. Behind(2)' BY <2>1 DEF Behind
  <2>4. QED BY <2>2, <2>3 DEF BehindInstalled
<1>9. QED BY <1>1, <1>2, <1>4, <1>5, <1>6, <1>7, <1>8, WrittenKeeps

-------------------------------------------------------------------------------
(* Kills and edits. *)

LEMMA CutIsContent ==
    ASSUME NEW c \in Content, c # Missing, NEW d \in Cut(c)
    PROVE  d \in Seq(Line) /\ d \in Content /\ d # Missing
BY CutOfLines, MissingIsFresh DEF Content

(* What a kill leaves. *)
LEMMA KillLeaves ==
    ASSUME IInv, Kill
    PROVE  /\ Here \in File /\ executable' = executable
           /\ file' \in [File -> Content] /\ backup' \in [File -> Content]
           /\ \A f \in File : f # Here => file'[f] = file[f] /\ backup'[f] = backup[f]
           /\ pc # "copy" => backup' = backup
           /\ pc = "copy" => Here \in {"rules", "config"} /\ backup'[Here] # Missing
           /\ pc \notin {"write", "append"} => file' = file
           /\ pc = "write" => file'[Here] \in Cut(text)
           /\ torn' \in BOOLEAN
           /\ pc = "append" =>
                 /\ Here \in Guides
                 /\ file[Here] # Missing =>
                       /\ file'[Here] \in Seq(Line)
                       /\ Meaning(file'[Here]) = Meaning(file[Here])
<1>1. Here \in File /\ file \in [File -> Content] /\ backup \in [File -> Content]
      /\ text \in Seq(Line)
      BY PlaceOf DEF IInv, TypeOK, Here
<1>2. \/ pc \notin {"copy", "write"} /\ UNCHANGED <<disk, torn>>
      \/ /\ pc = "copy" /\ file[Here] # Missing
         /\ \E c \in Cut(file[Here]) : backup' = [backup EXCEPT ![Here] = c]
         /\ UNCHANGED <<file, executable, torn>>
      \/ /\ pc = "write"
         /\ \E c \in Cut(text) : file' = [file EXCEPT ![Here] = c]
         /\ torn' \in BOOLEAN
         /\ UNCHANGED <<executable, backup>>
      \/ /\ pc = "append"
         /\ \E c \in Cut(text) : file' = [file EXCEPT ![Here] = AppendTo(file[Here], c)]
         /\ UNCHANGED <<executable, backup, torn>>
      BY DEF Kill, Cut
<1>3. CASE pc \notin {"copy", "write"} /\ UNCHANGED <<disk, torn>>
  <2>1. file' = file /\ backup' = backup /\ executable' = executable /\ torn' = torn
    BY <1>3 DEF disk
  <2>2. torn \in BOOLEAN /\ pc \notin {"copy", "write"} BY <1>3 DEF IInv, TypeOK
  <2>3. pc = "append" => Here \in Guides BY DEF IInv, PlacesKnown
  <2>4. pc = "append" => file[Here] \in Seq(Line) \/ file[Here] = Missing BY <1>1 DEF Content
  <2>5. QED BY <1>1, <2>1, <2>2, <2>3, <2>4
<1>4. CASE pc = "copy"
  <2>1. PICK c \in Cut(file[Here]) : backup' = [backup EXCEPT ![Here] = c] BY <1>2, <1>4
  <2>2. file[Here] # Missing /\ file' = file /\ executable' = executable /\ torn' = torn
    BY <1>2, <1>4
  <2>3. c \in Content /\ c # Missing
    <3>1. file[Here] \in Content BY <1>1
    <3>2. QED BY <2>2, <3>1, CutIsContent
  <2>4. Here \in {"rules", "config"} BY <1>4 DEF IInv, PlacesKnown
  <2>5. torn \in BOOLEAN BY DEF IInv, TypeOK
  <2>6. QED BY <1>1, <1>4, <2>1, <2>2, <2>3, <2>4, <2>5
<1>5. CASE pc = "write"
  <2>1. PICK c \in Cut(text) : file' = [file EXCEPT ![Here] = c] BY <1>2, <1>5
  <2>2. backup' = backup /\ executable' = executable /\ torn' \in BOOLEAN BY <1>2, <1>5
  <2>3. c \in Seq(Line) BY <1>1, CutOfLines
  <2>4. file' \in [File -> Content] /\ file'[Here] = c
        /\ \A f \in File : f # Here => file'[f] = file[f]
        BY <1>1, <2>1, <2>3 DEF Content
  <2>5. QED BY <1>1, <1>5, <2>2, <2>4
<1>6. CASE pc = "append" /\ ~UNCHANGED <<disk, torn>>
  <2>1. text = Guide /\ Here \in Guides
        BY <1>6 DEF IInv, TextRight, PlacesKnown
  <2>2. PICK c \in Cut(Guide) : file' = [file EXCEPT ![Here] = AppendTo(file[Here], c)]
        BY <1>2, <1>6, <2>1
  <2>3. backup' = backup /\ executable' = executable /\ torn' = torn BY <1>2, <1>6
  <2>4. file[Here] \in Content BY <1>1
  <2>5. PICK s \in Seq(Line) :
          /\ s = AppendTo(file[Here], c)
          /\ file[Here] # Missing => Meaning(s) = Meaning(file[Here])
        BY <2>4, AppendedRight, CutOfGuide
  <2>6. file' = [file EXCEPT ![Here] = s] BY <2>2, <2>5
  <2>7. file' \in [File -> Content] /\ file'[Here] = s
        /\ \A f \in File : f # Here => file'[f] = file[f]
        BY <1>1, <2>6 DEF Content
  <2>8. torn \in BOOLEAN BY DEF IInv, TypeOK
  <2>9. QED BY <1>1, <1>6, <2>1, <2>3, <2>5, <2>7, <2>8
<1>7. QED BY <1>2, <1>3, <1>4, <1>5, <1>6

LEMMA KillKeeps ==
    ASSUME IInv, Kill
    PROVE  IInv'
<1>1. /\ Here \in File /\ executable' = executable
      /\ file' \in [File -> Content] /\ backup' \in [File -> Content]
      /\ \A f \in File : f # Here => file'[f] = file[f] /\ backup'[f] = backup[f]
      /\ pc # "copy" => backup' = backup
      /\ pc = "copy" => Here \in {"rules", "config"} /\ backup'[Here] # Missing
      /\ pc \notin {"write", "append"} => file' = file
      /\ pc = "write" => file'[Here] \in Cut(text)
      /\ torn' \in BOOLEAN
      /\ pc = "append" =>
            /\ Here \in Guides
            /\ file[Here] # Missing =>
                  /\ file'[Here] \in Seq(Line)
                  /\ Meaning(file'[Here]) = Meaning(file[Here])
      BY KillLeaves
<1>2. /\ pc' = "idle" /\ at' = 1 /\ text' = <<>> /\ project' = FALSE
      /\ kills' = kills + 1 /\ kills + edits < MaxFaults
      /\ lost' = (IF pc = "write" THEN lost \cup {Here} ELSE lost)
      /\ edits' = edits /\ calm' = calm /\ mine' = mine /\ aged' = aged
      BY DEF Kill, Quit
<1>3. kills \in 0..MaxFaults /\ edits \in 0..MaxFaults /\ kills < MaxFaults
      /\ kills + 1 \in 0..MaxFaults
      BY <1>2, MaxFaultsIsNatural DEF IInv, TypeOK
<1>4. TypeOK'
  <2>1. project' \in BOOLEAN BY <1>2
  <2>2. text' \in Seq(Line) BY <1>2, EmptySeq
  <2>3. pc' \in PC /\ at' \in 1..6 BY <1>2 DEF PC
  <2>4. lost' \subseteq File BY <1>1, <1>2 DEF IInv, TypeOK
  <2>5. QED BY <1>1, <1>2, <1>3, <2>1, <2>2, <2>3, <2>4 DEF IInv, TypeOK
<1>5. PlacesKnown' BY <1>2 DEF PlacesKnown
<1>6. ConfigKnown'
  <2>1. CASE pc = "write" /\ Here = "config"
    <3>1. PICK c \in Configuration : text = Configured(c)
          BY <2>1 DEF IInv, TextRight, Loaded
    <3>2. Cut(text) \subseteq Configuration BY <3>1, ConfiguredServes
    <3>3. QED BY <1>1, <1>2, <2>1, <3>2 DEF ConfigKnown
  <2>2. CASE ~(pc = "write" /\ Here = "config")
    <3>1. file["config"] \in Configuration BY <2>2 DEF IInv, ConfigKnown
    <3>2. file'["config"] = file["config"] BY <1>1, <2>2 DEF File, Guides
    <3>3. QED BY <1>2, <3>1, <3>2 DEF ConfigKnown
  <2>3. QED BY <2>1, <2>2
<1>7. TextRight' BY <1>2 DEF TextRight, Loaded
<1>8. BehindInstalled' BY <1>2 DEF BehindInstalled
<1>9. ASSUME NEW f \in Shared, Keeps(f), ~(pc = "write" /\ f = Here) PROVE Keeps(f)'
  <2>1. Held(f) = file[f] /\ Held(f)' = file'[f] BY <1>2, <1>9 DEF Held
  <2>2. CASE file'[f] = file[f] BY <1>2, <1>9, <2>1, <2>2 DEF Keeps
  <2>3. CASE file'[f] # file[f]
    <3>1. f = Here /\ pc = "append" BY <1>1, <1>9, <2>3 DEF Shared, File
    <3>2. file[Here] # Missing => file'[f] # Missing BY <1>1, <3>1, MissingIsFresh
    <3>3. QED BY <1>1, <1>2, <1>9, <2>1, <3>1, <3>2 DEF Keeps
  <2>4. QED BY <2>2, <2>3
<1>10. ASSUME NEW f \in Shared PROVE ContentHeld(f)'
  <2>1. f \notin lost' => f \notin lost /\ ~(pc = "write" /\ f = Here) BY <1>2
  <2>2. QED BY <1>2, <1>9, <2>1 DEF IInv, ContentHeld, Loaded
<1>11. ASSUME NEW f \in {"rules", "config"} PROVE BackedUp(f)'
  <2> SUFFICES ASSUME Own(f)' PROVE BackedUp(f)' BY DEF BackedUp
  <2>1. Own(f) BY <1>2 DEF Own
  <2>2. kills' # 0 /\ pc' # "copy" BY <1>2, <1>3
  <2>3. ASSUME backup'[f] = Missing PROVE file'[f] = mine[f]
    <3>1. ~(pc = "copy" /\ f = Here) BY <1>1, <2>3
    <3>2. backup[f] = Missing BY <1>1, <2>3, <3>1 DEF File
    <3>3. file[f] = mine[f] /\ ~(Here = f /\ pc = "write")
          BY <2>1, <3>2 DEF IInv, BackedUp
    <3>4. file'[f] = file[f] BY <1>1, <3>3 DEF File, Guides
    <3>5. QED BY <3>3, <3>4
  <2>4. QED BY <1>2, <2>2, <2>3 DEF BackedUp
<1>12. ConfigSurvives'
  <2> SUFFICES ASSUME Own("config")', kills' <= 1
               PROVE  Keeps("config")' \/ backup'["config"] = mine["config"]
      BY <1>2 DEF ConfigSurvives, Loaded
  <2>1. Own("config") /\ kills = 0 BY <1>2, <1>3 DEF Own
  <2>2. mine["config"] # Missing BY <2>1 DEF Own
  <2>3. CASE Here = "config" /\ pc = "copy"
    <3>1. file["config"] = mine["config"] BY <2>1, <2>3 DEF IInv, BackedUp
    <3>2. Keeps("config") BY <2>3, <3>1 DEF Keeps, Held
    <3>3. QED BY <1>9, <2>3, <3>2 DEF Shared
  <2>4. CASE Here = "config" /\ pc = "write"
    <3>1. backup["config"] = mine["config"]
          BY <2>1, <2>4 DEF IInv, BackedUp
    <3>2. QED BY <1>1, <2>4, <3>1
  <2>5. CASE ~(Here = "config" /\ pc \in {"copy", "write"})
    <3>1. Keeps("config") \/ backup["config"] = mine["config"]
          BY <2>1 DEF IInv, ConfigSurvives
    <3>2. Keeps("config") => Keeps("config")' BY <1>9, <2>5 DEF Shared
    <3>3. backup'["config"] = backup["config"] BY <1>1, <2>5 DEF File
    <3>4. QED BY <3>1, <3>2, <3>3
  <2>6. QED BY <2>3, <2>4, <2>5
<1>13. QED BY <1>4, <1>5, <1>6, <1>7, <1>8, <1>10, <1>11, <1>12 DEF IInv

LEMMA EditKeeps ==
    ASSUME IInv, NEW f \in File, NEW c \in Edits(f), Edit(f, c)
    PROVE  IInv'
<1>1. /\ Here = f => pc \notin {"copy", "write"}
      /\ file' = [file EXCEPT ![f] = c] /\ mine' = [mine EXCEPT ![f] = c]
      /\ executable' = (executable /\ (f = "hook" => c # Missing))
      /\ lost' = (IF Here = f /\ pc \in {"backup", "open"} THEN lost \cup {f} ELSE lost \ {f})
      /\ aged' = (IF backup[f] # Missing \/ (Here = f /\ pc = "open")
                  THEN aged \cup {f} ELSE aged)
      /\ torn' = (IF f = "config"
                  THEN ~Whole(c) \/ (torn /\ Here = f /\ pc \in {"backup", "open"})
                  ELSE torn)
      /\ calm' = FALSE /\ edits' = edits + 1 /\ kills + edits < MaxFaults
      /\ backup' = backup /\ kills' = kills
      /\ pc' = pc /\ at' = at /\ text' = text /\ project' = project /\ Here' = Here
      BY DEF Edit, proc, Here
<1>2. c \in Content BY FilesAreTyped
<1>3. /\ file'[f] = c /\ mine'[f] = c
      /\ \A g \in File : g # f => file'[g] = file[g] /\ mine'[g] = mine[g]
      BY <1>1 DEF IInv, TypeOK
<1>4. kills \in 0..MaxFaults /\ edits' \in 0..MaxFaults
      BY <1>1, MaxFaultsIsNatural DEF IInv, TypeOK
<1>5. TypeOK'
  <2>1. executable' \in BOOLEAN /\ calm' \in BOOLEAN /\ torn' \in BOOLEAN
    BY <1>1 DEF IInv, TypeOK
  <2>2. file' \in [File -> Content] /\ mine' \in [File -> Content]
        BY <1>1, <1>2 DEF IInv, TypeOK
  <2>3. lost' \subseteq File /\ aged' \subseteq File BY <1>1 DEF IInv, TypeOK
  <2>4. QED BY <1>1, <1>4, <2>1, <2>2, <2>3 DEF IInv, TypeOK
<1>6. PlacesKnown' BY <1>1 DEF IInv, PlacesKnown
<1>7. ConfigKnown'
  <2>1. CASE f = "config"
    <3>1. c \in Configuration
      <4>1. c \in Edits("config") /\ c \in Content BY <2>1, FilesAreTyped
      <4>2. QED BY <4>1, ConfigurationsAreInForm DEF Configuration
    <3>2. QED BY <1>1, <1>3, <2>1, <3>1 DEF ConfigKnown
  <2>2. CASE f # "config"
    <3>1. file'["config"] = file["config"] BY <1>3, <2>2 DEF File
    <3>2. QED BY <1>1, <3>1 DEF IInv, ConfigKnown
  <2>3. QED BY <2>1, <2>2
<1>8. TextRight' BY <1>1 DEF IInv, TextRight
<1>9. BehindInstalled' BY <1>1 DEF BehindInstalled
<1>10. Keeps(f)'
  <2>1. Held(f)' = c BY <1>1, <1>3 DEF Held
  <2>2. QED BY <1>3, <2>1 DEF Keeps
<1>11. ASSUME NEW g \in File, g # f, Keeps(g) PROVE Keeps(g)'
  <2>1. Held(g)' = Held(g) BY <1>1, <1>3, <1>11 DEF Held
  <2>2. QED BY <1>3, <1>11, <2>1 DEF Keeps
<1>12. ASSUME NEW g \in Shared PROVE ContentHeld(g)'
  <2>1. CASE g = f
    <3>1. g \notin lost' => ~(Here = g /\ pc \in Loaded) BY <1>1, <2>1 DEF Loaded
    <3>2. QED BY <1>1, <1>10, <2>1, <3>1 DEF ContentHeld
  <2>2. CASE g # f
    <3>1. g \in File BY DEF Shared, File
    <3>2. mine'[g] = mine[g] /\ (g \notin lost' => g \notin lost)
          BY <1>1, <1>3, <2>2, <3>1
    <3>3. Keeps(g) => Keeps(g)' BY <1>11, <2>2, <3>1
    <3>4. QED BY <1>1, <3>2, <3>3 DEF IInv, ContentHeld
  <2>3. QED BY <2>1, <2>2
<1>13. ASSUME Own(f)'
       PROVE  backup[f] = Missing /\ ~(Here = f /\ pc \in {"copy", "open", "write"})
  <2>1. f \notin aged' BY <1>13 DEF Own
  <2>2. QED BY <1>1, <2>1
<1>14. ASSUME NEW g \in File, g # f PROVE Own(g)' <=> Own(g)
  <2>1. mine'[g] = mine[g] /\ (g \in aged' <=> g \in aged) BY <1>1, <1>3, <1>14
  <2>2. QED BY <2>1 DEF Own
<1>15. ASSUME NEW g \in {"rules", "config"} PROVE BackedUp(g)'
  <2>1. CASE g = f
    <3> SUFFICES ASSUME Own(f)' PROVE BackedUp(g)' BY <2>1 DEF BackedUp
    <3>1. backup[f] = Missing /\ ~(Here = f /\ pc \in {"copy", "open", "write"}) BY <1>13
    <3>2. QED BY <1>1, <1>3, <2>1, <3>1 DEF BackedUp
  <2>2. CASE g # f
    <3>1. g \in File BY DEF File
    <3>2. file'[g] = file[g] /\ mine'[g] = mine[g] /\ (Own(g)' <=> Own(g))
          BY <1>3, <1>14, <2>2, <3>1
    <3>3. QED BY <1>1, <3>2 DEF IInv, BackedUp
  <2>3. QED BY <2>1, <2>2
<1>16. ConfigSurvives'
  <2>1. CASE f = "config"
    <3> SUFFICES ASSUME Own("config")' PROVE ConfigSurvives' BY DEF ConfigSurvives
    <3>1. backup[f] = Missing /\ ~(Here = f /\ pc \in {"copy", "open", "write"})
          BY <1>13, <2>1
    <3>2. QED BY <1>1, <1>10, <2>1, <3>1 DEF ConfigSurvives, Loaded
  <2>2. CASE f # "config"
    <3>1. "config" \in File BY DEF File
    <3>2. mine'["config"] = mine["config"] /\ (Own("config")' <=> Own("config"))
          BY <1>3, <1>14, <2>2, <3>1
    <3>3. Keeps("config") => Keeps("config")' BY <1>11, <2>2, <3>1
    <3>4. QED BY <1>1, <3>2, <3>3 DEF IInv, ConfigSurvives
  <2>3. QED BY <2>1, <2>2
<1>17. QED BY <1>5, <1>6, <1>7, <1>8, <1>9, <1>12, <1>15, <1>16 DEF IInv

-------------------------------------------------------------------------------
(* The theorems. *)

LEMMA InitKeeps ==
    ASSUME Init
    PROVE  IInv
<1>1. /\ file \in Initial /\ executable = FALSE /\ backup = [f \in File |-> Missing]
      /\ pc = "idle" /\ at = 1 /\ text = <<>> /\ project = FALSE
      /\ kills = 0 /\ edits = 0 /\ calm = FALSE
      /\ mine = file /\ lost = {} /\ aged = {}
      /\ torn \in BOOLEAN
      BY DEF Init
<1>2. TypeOK
  <2>1. file \in [File -> Content] /\ mine \in [File -> Content] BY <1>1, FilesAreTyped
  <2>2. backup \in [File -> Content] BY <1>1 DEF Content
  <2>3. text \in Seq(Line) BY <1>1, EmptySeq
  <2>4. kills \in 0..MaxFaults /\ edits \in 0..MaxFaults BY <1>1, MaxFaultsIsNatural
  <2>5. pc \in PC /\ at \in 1..6 BY <1>1 DEF PC
  <2>6. QED BY <1>1, <2>1, <2>2, <2>3, <2>4, <2>5 DEF TypeOK
<1>3. PlacesKnown /\ TextRight /\ BehindInstalled
      BY <1>1 DEF PlacesKnown, TextRight, BehindInstalled, Loaded
<1>4. ConfigKnown
  <2>1. ASSUME NEW x \in Initial PROVE x["config"] \in Configuration
    <3>1. x["config"] \in Content BY FilesAreTyped DEF File
    <3>2. x["config"] = Missing \/ InForm(x["config"]) BY ConfigurationsAreInForm
    <3>3. QED BY <3>1, <3>2 DEF Configuration
  <2>2. QED BY <1>1, <2>1 DEF ConfigKnown
<1>5. \A f \in File : Keeps(f) BY <1>1 DEF Keeps, Held
<1>6. \A f \in Shared : ContentHeld(f) BY <1>1, <1>5 DEF ContentHeld, Loaded, Shared, File
<1>7. \A f \in {"rules", "config"} : BackedUp(f) BY <1>1 DEF BackedUp, File
<1>8. ConfigSurvives BY <1>1, <1>5 DEF ConfigSurvives, Loaded, File
<1>9. QED BY <1>2, <1>3, <1>4, <1>6, <1>7, <1>8 DEF IInv

LEMMA NextKeeps ==
    ASSUME IInv, [Next]_vars
    PROVE  IInv'
<1>1. ASSUME NEW withProject \in BOOLEAN, Begin(withProject) PROVE IInv'
      BY <1>1, BeginKeeps
<1>2. CASE StartHook BY <1>2, StartHookKeeps
<1>3. CASE ReadSettings BY <1>3, ReadSettingsKeeps
<1>4. CASE ReadRules BY <1>4, ReadRulesKeeps
<1>5. CASE ReadConfig BY <1>5, ReadConfigKeeps
<1>6. CASE ReadGuide BY <1>6, ReadGuideKeeps
<1>7. CASE BackUp BY <1>7, BackUpKeeps
<1>8. CASE Copy BY <1>8, CopyKeeps
<1>9. CASE Truncate BY <1>9, TruncateKeeps
<1>10. CASE Write BY <1>10, WriteKeeps
<1>11. CASE AppendText BY <1>11, AppendTextKeeps
<1>12. CASE Chmod BY <1>12, ChmodKeeps
<1>13. CASE Kill BY <1>13, KillKeeps
<1>14. ASSUME NEW f \in File, NEW c \in Edits(f), Edit(f, c) PROVE IInv'
       BY <1>14, EditKeeps
<1>15. CASE UNCHANGED vars
  <2>1. /\ file' = file /\ executable' = executable /\ backup' = backup
        /\ pc' = pc /\ at' = at /\ text' = text /\ project' = project
        /\ kills' = kills /\ edits' = edits /\ calm' = calm
        /\ mine' = mine /\ lost' = lost /\ aged' = aged /\ torn' = torn
        BY <1>15 DEF vars, disk, proc, history
  <2>2. TypeOK' /\ PlacesKnown' /\ ConfigKnown' /\ TextRight' /\ BehindInstalled'
        BY <2>1 DEF IInv, TypeOK, PlacesKnown, Here, ConfigKnown, TextRight, BehindInstalled,
             Behind, HookScriptOK, SettingsOK, RulesOK, CodexEnabled, ProjectDocsOK
  <2>3. \A f \in File : Keeps(f)' <=> Keeps(f) BY <2>1 DEF Keeps, Held, Here
  <2>4. \A f \in Shared : ContentHeld(f)'
        BY <2>1, <2>3 DEF IInv, ContentHeld, Here, Shared, File
  <2>5. \A f \in {"rules", "config"} : BackedUp(f)' BY <2>1 DEF IInv, BackedUp, Own, Here
  <2>6. ConfigSurvives' BY <2>1, <2>3 DEF IInv, ConfigSurvives, Own, Here, File
  <2>7. QED BY <2>2, <2>4, <2>5, <2>6 DEF IInv
<1>16. QED
  BY <1>1, <1>2, <1>3, <1>4, <1>5, <1>6, <1>7, <1>8, <1>9, <1>10, <1>11, <1>12, <1>13, <1>14,
     <1>15 DEF Next

(* Everything an installation relies on holds at every step of it.         *)
LEMMA Invariance == Spec => []IInv
<1>1. Init => IInv BY InitKeeps
<1>2. IInv /\ [Next]_vars => IInv' BY NextKeeps
<1>3. QED BY <1>1, <1>2, PTL DEF Spec

(* The files, their backups and what ozm is about to write are sequences   *)
(* of lines, or not there, throughout (install.py:453-576).                *)
THEOREM InstallationTypeOK == Spec => []TypeOK
<1>1. IInv => TypeOK BY DEF IInv
<1>2. QED BY <1>1, Invariance, PTL

(* Until it is left in parts, the configuration is whole, and so is what   *)
(* is going to replace it.                                                 *)
WholeKept ==
    ~torn =>
        /\ Whole(file["config"])
        /\ Here = "config" /\ pc \in Loaded => Whole(text)

LEMMA WholeEmpty == Whole(<<>>)
<1>1. DOMAIN <<>> = {} OBVIOUS
<1>2. QED BY <1>1 DEF Whole, Has

LEMMA NextKeepsWhole ==
    ASSUME IInv, WholeKept, [Next]_vars
    PROVE  WholeKept'
<1>1. /\ file \in [File -> Content] /\ Here \in File /\ "config" \in File
  BY PlaceOf DEF IInv, TypeOK, Here, File
<1>2. ASSUME file'["config"] = file["config"], torn' = torn,
             pc' \in Loaded => Here' # "config" \/ (Here' = Here /\ pc \in Loaded /\ text' = text)
      PROVE  WholeKept'
  BY <1>2 DEF WholeKept
<1>3. ASSUME NEW withProject \in BOOLEAN, Begin(withProject) PROVE WholeKept'
  <2>1. file' = file /\ torn' = torn /\ pc' = "read" BY <1>3 DEF Begin, disk
  <2>2. QED BY <1>2, <2>1 DEF Loaded
<1>4. ASSUME NEW f \in File \ {"config"}, Reading(f),
             Advance \/ Quit \/ (\E t, place : Prepare(t, place))
      PROVE  WholeKept'
  <2>1. file' = file /\ torn' = torn /\ Here = f BY <1>4 DEF Reading, disk, history
  <2>2. CASE Advance
    <3>1. pc' \notin Loaded BY <2>2 DEF Advance, Loaded
    <3>2. QED BY <1>2, <2>1, <3>1
  <2>3. CASE Quit
    <3>1. pc' \notin Loaded BY <2>3 DEF Quit, Loaded
    <3>2. QED BY <1>2, <2>1, <3>1
  <2>4. CASE \E t, place : Prepare(t, place)
    <3>1. Here' # "config" BY <1>4, <2>1, <2>4 DEF Prepare, Here
    <3>2. QED BY <1>2, <2>1, <3>1
  <2>5. QED BY <1>4, <2>2, <2>3, <2>4
<1>5. CASE StartHook
  <2>1. "hook" \in File \ {"config"} BY DEF File
  <2>2. QED BY <1>4, <1>5, <2>1 DEF StartHook
<1>6. CASE ReadSettings
  <2>1. "settings" \in File \ {"config"} BY DEF File
  <2>2. QED BY <1>4, <1>6, <2>1 DEF ReadSettings
<1>7. CASE ReadRules
  <2>1. "rules" \in File \ {"config"} BY DEF File
  <2>2. QED BY <1>4, <1>7, <2>1 DEF ReadRules
<1>8. CASE ReadConfig
  <2>1. /\ file' = file /\ torn' = torn /\ pc = "read"
        BY <1>8 DEF ReadConfig, Reading, disk, history
  <2>2. CASE Advance
    <3>1. pc' \notin Loaded BY <2>2 DEF Advance, Loaded
    <3>2. QED BY <1>2, <2>1, <3>1
  <2>3. CASE Prepare(Configured(file["config"]), "backup")
    <3>1. text' = Configured(file["config"]) BY <2>3 DEF Prepare
    <3>2. file["config"] \in Configuration BY <2>1 DEF IInv, ConfigKnown
    <3>3. Whole(file["config"]) => Whole(text') BY <3>1, <3>2, ConfiguredServes
    <3>4. QED BY <2>1, <3>3 DEF WholeKept
  <2>4. QED BY <1>8, <2>2, <2>3 DEF ReadConfig
<1>9. CASE ReadGuide
  <2>1. {"CLAUDE.md", "AGENTS.md"} \subseteq File \ {"config"} BY DEF File
  <2>2. QED BY <1>4, <1>9, <2>1 DEF ReadGuide
<1>10. CASE BackUp
  <2>1. /\ file' = file /\ torn' = torn /\ text' = text /\ Here' = Here
        /\ pc = "backup"
        BY <1>10 DEF BackUp, Goto, Here, history
  <2>2. QED BY <1>2, <2>1 DEF Loaded
<1>11. CASE Copy
  <2>1. /\ file' = file /\ torn' = torn /\ text' = text /\ Here' = Here
        /\ pc = "copy"
        BY <1>11 DEF Copy, Goto, Here, history
  <2>2. QED BY <1>2, <2>1 DEF Loaded
<1>12. CASE Truncate
  <2>1. /\ torn' = torn /\ text' = text /\ Here' = Here /\ pc = "open"
        /\ file' = [file EXCEPT ![Here] = <<>>]
        BY <1>12 DEF Truncate, Goto, Here, history
  <2>2. pc \in Loaded BY <2>1 DEF Loaded
  <2>3. file'["config"] = IF Here = "config" THEN <<>> ELSE file["config"]
    BY <1>1, <2>1
  <2>4. QED BY <2>1, <2>2, <2>3, WholeEmpty DEF WholeKept
<1>13. CASE Write
  <2>1. /\ torn' = torn /\ pc = "write" /\ file' = [file EXCEPT ![Here] = text]
        BY <1>13 DEF Write, history
  <2>2. pc \in Loaded BY <2>1 DEF Loaded
  <2>3. pc' \notin Loaded BY <1>13 DEF Write, Goto, Advance, Loaded
  <2>4. file'["config"] = IF Here = "config" THEN text ELSE file["config"]
    BY <1>1, <2>1
  <2>5. QED BY <2>1, <2>2, <2>3, <2>4 DEF WholeKept
<1>14. CASE AppendText
  <2>1. /\ torn' = torn /\ pc = "append" /\ pc' \notin Loaded
        /\ file' = [file EXCEPT ![Here] = AppendTo(file[Here], text)]
        BY <1>14 DEF AppendText, history, Advance, Loaded
  <2>2. Here # "config" BY <2>1 DEF IInv, PlacesKnown, Guides
  <2>3. file'["config"] = file["config"] BY <1>1, <2>1, <2>2
  <2>4. QED BY <1>2, <2>1, <2>3
<1>15. CASE Chmod
  <2>1. file' = file /\ torn' = torn /\ pc' \notin Loaded
        BY <1>15 DEF Chmod, history, Advance, Loaded
  <2>2. QED BY <1>2, <2>1
<1>16. CASE Kill
  <2>1. pc' \notin Loaded BY <1>16 DEF Kill, Quit, Loaded
  <2>2. CASE file' = file /\ torn' = torn BY <1>2, <2>1, <2>2
  <2>3. ASSUME NEW c, file' = [file EXCEPT ![Here] = c],
               \/ torn' = (torn \/ (Here = "config" /\ ~Whole(c)))
               \/ torn' = (torn \/ Here = "config")
        PROVE  WholeKept'
    <3>1. file'["config"] = IF Here = "config" THEN c ELSE file["config"]
      BY <1>1, <2>3
    <3>2. QED BY <2>1, <2>3, <3>1 DEF WholeKept
  <2>4. ASSUME pc = "append", torn' = torn,
               NEW c, file' = [file EXCEPT ![Here] = AppendTo(file[Here], c)]
        PROVE  WholeKept'
    <3>1. Here # "config" BY <2>4 DEF IInv, PlacesKnown, Guides
    <3>2. file'["config"] = file["config"] BY <1>1, <2>4, <3>1
    <3>3. QED BY <1>2, <2>1, <2>4, <3>2
  <2>5. QED BY <1>16, <2>2, <2>3, <2>4 DEF Kill, disk
<1>17. ASSUME NEW f \in File, NEW c \in Edits(f), Edit(f, c) PROVE WholeKept'
  <2>1. /\ Here = f => pc \notin {"copy", "write"}
        /\ file' = [file EXCEPT ![f] = c]
        /\ torn' = (IF f = "config"
                    THEN ~Whole(c) \/ (torn /\ Here = f /\ pc \in {"backup", "open"})
                    ELSE torn)
        /\ pc' = pc /\ text' = text /\ Here' = Here
        BY <1>17 DEF Edit, proc, Here
  <2>2. CASE f = "config"
    <3>1. file'["config"] = c BY <1>1, <2>1, <2>2
    <3>2. Here = "config" /\ pc \in Loaded => pc \in {"backup", "open"}
      BY <2>1, <2>2 DEF Loaded
    <3>3. QED BY <2>1, <2>2, <3>1, <3>2 DEF WholeKept
  <2>3. CASE f # "config"
    <3>1. file'["config"] = file["config"] BY <1>1, <2>1, <2>3
    <3>2. QED BY <2>1, <2>3, <3>1 DEF WholeKept
  <2>4. QED BY <2>2, <2>3
<1>18. CASE UNCHANGED vars
  <2>1. /\ file' = file /\ pc' = pc /\ Here' = Here /\ text' = text /\ torn' = torn
        BY <1>18 DEF vars, disk, proc, history, Here
  <2>2. QED BY <2>1 DEF WholeKept
<1>19. QED
  BY <1>3, <1>5, <1>6, <1>7, <1>8, <1>9, <1>10, <1>11, <1>12, <1>13, <1>14, <1>15, <1>16,
     <1>17, <1>18 DEF Next

LEMMA WholeInvariance == Spec => []WholeKept
<1>1. Init => WholeKept BY DEF Init, WholeKept, Loaded
<1>2. IInv /\ WholeKept /\ [Next]_vars => WholeKept' BY NextKeepsWhole
<1>3. QED BY <1>1, <1>2, Invariance, PTL DEF Spec

(* Once an installation comes to its end and nobody has edited a file      *)
(* since it began, doctor finds nothing to complain of, however many       *)
(* earlier ones were killed and at whatever character; and Codex has hooks *)
(* enabled and both of ozm's tables, unless a kill or an edit has left it  *)
(* a configuration in parts (install.py:479-545, doctor.py:30-113).        *)
THEOREM InstalledEnforces == Spec => []InstallEnforces
<1>1. ASSUME IInv, WholeKept, pc = "done", calm
      PROVE  /\ HookScriptOK /\ SettingsOK /\ CodexOK /\ RulesOK
             /\ project => ProjectDocsOK
             /\ ~torn => Enforced(file["config"])
  <2>1. at = (IF project THEN 6 ELSE 4) BY <1>1 DEF IInv, PlacesKnown
  <2>2. Behind(at + 1) BY <1>1 DEF IInv, BehindInstalled
  <2>3. at \in 4..6 /\ (project => at = 6) BY <2>1
  <2>4. HookScriptOK /\ SettingsOK /\ RulesOK /\ CodexEnabled /\ (project => ProjectDocsOK)
        BY <2>2, <2>3 DEF Behind
  <2>5. Mentioned(file["config"]) /\ Enabled(file["config"]) BY <2>4 DEF CodexEnabled
  <2>6. file["config"] # Missing /\ file["config"] \in Seq(Line)
    <3>1. file["config"] \in Content BY <1>1 DEF IInv, TypeOK, File
    <3>2. file["config"] # Missing BY <2>5 DEF Mentioned, Has
    <3>3. QED BY <3>1, <3>2 DEF Content
  <2>7. CodexOK
    <3>1. PICK i \in DOMAIN file["config"] : file["config"][i] = On BY <2>5 DEF Enabled
    <3>2. Has(file["config"], On) BY <2>6, <3>1 DEF Has
    <3>3. QED BY <2>5, <3>2 DEF CodexOK
  <2>8. ASSUME ~torn PROVE Enforced(file["config"])
    <3>1. Whole(file["config"]) BY <1>1, <2>8 DEF WholeKept
    <3>2. Has(file["config"], "hook") BY <2>5, <3>1 DEF Mentioned, Whole
    <3>3. QED BY <2>5, <3>1, <3>2 DEF Enforced
  <2>9. QED BY <2>4, <2>7, <2>8
<1>2. IInv /\ WholeKept => InstallEnforces BY <1>1 DEF InstallEnforces
<1>3. QED BY <1>2, Invariance, WholeInvariance, PTL

(* What the user keeps in a shared file stays in it, in its section,       *)
(* unless an edit or a kill fell between two steps that should be one      *)
(* (install.py:453-468, 479-545, 548-576).                                 *)
THEOREM UsersContentKept == Spec => []UserContentKept
<1>1. IInv => UserContentKept BY DEF IInv, UserContentKept, ContentHeld, Shared
<1>2. QED BY <1>1, Invariance, PTL

(* A kill destroys the user's configuration or its backup, never both, and *)
(* without one the rules are in the file or in their backup                *)
(* (install.py:471-476, 514-545).                                          *)
THEOREM OriginalsSurvive == Spec => []OriginalSurvives
<1>1. ASSUME IInv, kills <= 1, "config" \notin aged
      PROVE  Keeps("config") \/ backup["config"] = mine["config"]
  <2>1. CASE mine["config"] = Missing BY <2>1 DEF Keeps
  <2>2. CASE mine["config"] # Missing BY <1>1, <2>2 DEF IInv, ConfigSurvives, Own
  <2>3. QED BY <2>1, <2>2
<1>2. ASSUME IInv, kills = 0, "rules" \notin aged
      PROVE  \/ Held("rules") = mine["rules"] \/ backup["rules"] = mine["rules"]
             \/ mine["rules"] = Missing
      BY <1>2 DEF IInv, BackedUp, Own, Held
<1>3. IInv => OriginalSurvives BY <1>1, <1>2 DEF OriginalSurvives
<1>4. QED BY <1>3, Invariance, PTL
===============================================================================
