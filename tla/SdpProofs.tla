----------------------------- MODULE SdpProofs -----------------------------
(***************************************************************************)
(* Sdp::parse reads every description as it is meant.  The invariant says  *)
(* of every field of the parser which of the lines read so far it is: a    *)
(* line that is read adds one position to one section, so each kind of     *)
(* line is one case.  What SdpBuilder writes is then a description like    *)
(* any other whose sections are known.                                     *)
(***************************************************************************)
EXTENDS Sdp, FiniteSetTheorems, SequenceTheorems, WellFoundedInduction, TLAPS

----------------------------------------------------------------------------
(* Session descriptions.                                                   *)

\* Lines as they are read: as the descriptions have them, and as they are built.
MediaLines == {MediaLine(k, p, l) : k \in {"audio", "video"}, p \in Ports, l \in Seq(Nat)}
ReadLines ==
    {Line(t, "any") : t \in Mandatory \union {"t", "bad"}}
    \union {Line("c", a) : a \in Addresses} \union {Line("m", m) : m \in MediaLines}
    \union {Line("dir", d) : d \in Directions} \union {Line("rtpmap", TelephoneEvent)}

LEMMA LineFields ==
    ASSUME NEW line \in ReadLines
    PROVE  /\ line.type \in {"v", "o", "s", "t", "bad", "c", "m", "dir", "rtpmap"}
           /\ line.type = "c" => line.value \in Addresses
           /\ line.type = "m" => line.value \in MediaLines
           /\ line.type = "dir" => line.value \in Directions
           /\ line.type = "rtpmap" => line.value = TelephoneEvent
  BY DEF ReadLines, Line, Mandatory

LEMMA DescriptionLinesRead == DescriptionLines \subseteq ReadLines
<1>1. \A k \in {"audio", "video"}, p \in Ports, l \in PayloadLists : MediaLine(k, p, l) \in MediaLines
  BY SdpAssumption DEF MediaLines
<1> QED  BY <1>1 DEF DescriptionLines, ReadLines

----------------------------------------------------------------------------

\* A set of positions that is not empty has a first and a last one.
LEMMA LeastOf ==
    ASSUME NEW S \in SUBSET Nat, S # {}
    PROVE  \E m \in S : \A q \in S : m <= q
<1>1. PICK m \in S : \A q \in S : ~(<<q, m>> \in OpToRel(<, Nat))
  BY NatLessThanWellFounded, WFMin
<1>2. \A q \in S : ~(q < m)  BY <1>1 DEF OpToRel
<1> QED  BY <1>2

LEMMA MinMax ==
    ASSUME NEW n \in Nat, NEW S \in SUBSET (1 .. n)
    PROVE  /\ S # {} => Min(S) \in S /\ Max(S) \in S
           /\ Max(S \union {n + 1}) = n + 1
           /\ Min(S \union {n + 1}) = IF S = {} THEN n + 1 ELSE Min(S)
<1>1. ASSUME S # {} PROVE \E m \in S : \A q \in S : m <= q
  BY <1>1, LeastOf
<1>2. ASSUME S # {} PROVE \E m \in S : \A q \in S : m >= q
  <2> DEFINE T == {n - q : q \in S}
  <2>1. T \in SUBSET Nat /\ T # {}  BY <1>2
  <2>2. PICK t \in T : \A u \in T : t <= u
    <3> HIDE DEF T
    <3> QED  BY <2>1, LeastOf
  <2>3. PICK m \in S : t = n - m  OBVIOUS
  <2>4. ASSUME NEW q \in S PROVE m >= q
    <3>1. n - q \in T  OBVIOUS
    <3>2. n - m <= n - q  BY <2>2, <2>3, <3>1
    <3> QED  BY <3>2
  <2> QED  BY <2>4
<1>3. S # {} => Min(S) \in S /\ \A q \in S : Min(S) <= q  BY <1>1 DEF Min
<1>4. S # {} => Max(S) \in S  BY <1>2 DEF Max
<1>5. Max(S \union {n + 1}) = n + 1
  <2>1. \A x \in S \union {n + 1} : (\A y \in S \union {n + 1} : x >= y) <=> x = n + 1  OBVIOUS
  <2> QED  BY <2>1 DEF Max
<1>6. Min(S \union {n + 1}) = IF S = {} THEN n + 1 ELSE Min(S)
  <2> DEFINE first == IF S = {} THEN n + 1 ELSE Min(S)
  <2>1. first \in S \union {n + 1} /\ first \in Nat /\ \A y \in S \union {n + 1} : first <= y
    <3>1. CASE S = {}  BY <3>1
    <3>2. CASE S # {}
      <4>1. first = Min(S) /\ first \in S  BY <1>3, <3>2
      <4>2. \A q \in S : first <= q  BY <1>3, <3>2, <4>1
      <4> HIDE DEF first
      <4> QED  BY <4>1, <4>2
    <3> QED  BY <3>1, <3>2
  <2> HIDE DEF first
  <2>2. \A x \in S \union {n + 1} : (\A y \in S \union {n + 1} : x <= y) <=> x = first  BY <2>1
  <2>3. Min(S \union {n + 1}) = first  BY <2>1, <2>2 DEF Min
  <2> QED  BY <2>3 DEF first
<1> QED  BY <1>3, <1>4, <1>5, <1>6

----------------------------------------------------------------------------

\* What one more line does to the sections: those read so far stay.
LEMMA Sections ==
    ASSUME lines \in Seq(ReadLines)
    PROVE  /\ \A i \in 0 .. Len(lines) : Section(i) \in Nat
           /\ Section(0) = 0
           /\ \A i, j \in 0 .. Len(lines) : i <= j => Section(i) <= Section(j)
<1> DEFINE Ms(i) == {j \in 1 .. i : lines[j].type = "m"}
<1>1. ASSUME NEW i \in 0 .. Len(lines)
      PROVE  IsFiniteSet(Ms(i)) /\ Section(i) = Cardinality(Ms(i)) /\ Section(i) \in Nat
  <2>1. IsFiniteSet(1 .. i)  BY FS_Interval
  <2>2. IsFiniteSet(Ms(i))  BY <2>1, FS_Subset
  <2> QED  BY <2>2, FS_CardinalityType DEF Section
<1>2. Ms(0) = {} /\ Section(0) = 0  BY <1>1, FS_EmptySet
<1>3. ASSUME NEW i \in 0 .. Len(lines), NEW j \in 0 .. Len(lines), i <= j
      PROVE  Section(i) <= Section(j)
  <2>1. Ms(i) \subseteq Ms(j)  BY <1>3
  <2>2. IsFiniteSet(Ms(j)) /\ Section(i) = Cardinality(Ms(i)) /\ Section(j) = Cardinality(Ms(j))  BY <1>1
  <2> HIDE DEF Ms
  <2> QED  BY <2>1, <2>2, FS_Subset
<1> QED  BY <1>1, <1>2, <1>3

\* The section that is open.
Current == Section(Len(lines))

\* What one more line adds, and to which section.
LEMMA OneMoreLine ==
    ASSUME lines \in Seq(ReadLines), NEW line \in ReadLines, lines' = Append(lines, line)
    PROVE  LET n == Len(lines)
           IN  /\ Len(lines') = n + 1 /\ lines'[n + 1] = line /\ lines' \in Seq(ReadLines)
               /\ \A i \in 1 .. n : lines'[i] = lines[i]
               /\ \A i \in 0 .. n : Section(i)' = Section(i)
               /\ Current' = Current + IF line.type = "m" THEN 1 ELSE 0
               /\ \A i : i = n + 1 => Section(i)' = Current'
<1> DEFINE n == Len(lines)
           Ms == {j \in 1 .. n : lines[j].type = "m"}
<1>1. n \in Nat /\ Len(lines') = n + 1 /\ lines'[n + 1] = line /\ lines' \in Seq(ReadLines)
      /\ \A i \in 1 .. n : lines'[i] = lines[i]
  BY AppendProperties
<1>2. ASSUME NEW i \in 0 .. n PROVE Section(i)' = Section(i)
  <2>1. {j \in 1 .. i : lines'[j].type = "m"} = {j \in 1 .. i : lines[j].type = "m"}  BY <1>1
  <2> QED  BY <2>1 DEF Section
<1>3. Current' = Current + IF line.type = "m" THEN 1 ELSE 0
  <2>1. IsFiniteSet(Ms) /\ n + 1 \notin Ms /\ Current = Cardinality(Ms)
    <3>1. IsFiniteSet(1 .. n)  BY <1>1, FS_Interval
    <3>2. IsFiniteSet(Ms)  BY <3>1, FS_Subset
    <3> QED  BY <1>1, <3>2 DEF Section, Current
  <2>2. {j \in 1 .. n + 1 : lines'[j].type = "m"} = IF line.type = "m" THEN Ms \union {n + 1} ELSE Ms
    <3>1. CASE line.type = "m"
      <4>1. {j \in 1 .. n + 1 : lines'[j].type = "m"} = Ms \union {n + 1}  BY <1>1, <3>1
      <4> QED  BY <3>1, <4>1
    <3>2. CASE line.type # "m"
      <4>1. {j \in 1 .. n + 1 : lines'[j].type = "m"} = Ms  BY <1>1, <3>2
      <4> QED  BY <3>2, <4>1
    <3> QED  BY <3>1, <3>2
  <2>3. Current' = Cardinality({j \in 1 .. n + 1 : lines'[j].type = "m"})  BY <1>1 DEF Current, Section
  <2> HIDE DEF Ms
  <2>4. Cardinality(Ms \union {n + 1}) = Cardinality(Ms) + 1  BY <2>1, FS_AddElement
  <2>5. Cardinality(Ms) \in Nat  BY <2>1, FS_CardinalityType
  <2>6. CASE line.type = "m"  BY <2>1, <2>2, <2>3, <2>4, <2>6
  <2>7. CASE line.type # "m"
    <3>1. Current' = Current /\ Current \in Nat  BY <2>1, <2>2, <2>3, <2>5, <2>7
    <3> QED  BY <2>7, <3>1
  <2> QED  BY <2>6, <2>7
<1>4. ASSUME NEW i, i = n + 1 PROVE Section(i)' = Current'
  BY <1>1, <1>4 DEF Current, Section
<1> QED  BY <1>1, <1>2, <1>3, <1>4

\* The lines of a type in a section, and what they say: one more at the end, or as before.
LEMMA OfGrows ==
    ASSUME lines \in Seq(ReadLines), NEW line \in ReadLines, lines' = Append(lines, line),
           NEW type, NEW s
    PROVE  LET here == line.type = type /\ Current' = s
           IN  /\ Of(type, s)' = {} <=> ~here /\ Of(type, s) = {}
               /\ LastOf(Of(type, s))' = IF here THEN {line.value} ELSE LastOf(Of(type, s))
               /\ FirstOf(Of(type, s))' = IF here /\ Of(type, s) = {} THEN {line.value} ELSE FirstOf(Of(type, s))
               /\ {lines[j].value : j \in Of(type, s)}' =
                    IF here THEN {lines[j].value : j \in Of(type, s)} \union {line.value}
                    ELSE {lines[j].value : j \in Of(type, s)}
<1> DEFINE n == Len(lines)
           here == line.type = type /\ Current' = s
           S == Of(type, s)
<1>1. /\ n \in Nat /\ Len(lines') = n + 1 /\ lines'[n + 1] = line /\ lines' \in Seq(ReadLines)
      /\ \A i \in 1 .. n : lines'[i] = lines[i]
      /\ \A i \in 1 .. n : Section(i)' = Section(i)
      /\ \A i : i = n + 1 => Section(i)' = Current'
  BY OneMoreLine
<1>2. S \subseteq 1 .. n  BY <1>1 DEF Of
<1>3. Of(type, s)' = IF here THEN S \union {n + 1} ELSE S
  <2>1. DOMAIN lines' = 1 .. n + 1 /\ DOMAIN lines = 1 .. n  BY <1>1
  <2>2. Of(type, s)' = {i \in 1 .. n + 1 : lines'[i].type = type /\ Section(i)' = s}  BY <2>1 DEF Of
  <2>3. S = {i \in 1 .. n : lines[i].type = type /\ Section(i) = s}  BY <2>1 DEF Of
  <2>4. CASE here
    <3>1. Of(type, s)' = S \union {n + 1}  BY <1>1, <2>2, <2>3, <2>4
    <3> QED  BY <2>4, <3>1
  <2>5. CASE ~here
    <3>1. Of(type, s)' = S  BY <1>1, <2>2, <2>3, <2>5
    <3> QED  BY <2>5, <3>1
  <2> QED  BY <2>4, <2>5
<1>4. /\ S # {} => Min(S) \in S /\ Max(S) \in S
      /\ Max(S \union {n + 1}) = n + 1
      /\ Min(S \union {n + 1}) = IF S = {} THEN n + 1 ELSE Min(S)
  BY <1>1, <1>2, MinMax
<1> DEFINE S2 == Of(type, s)'
<1>5. /\ LastOf(S) = IF S = {} THEN {} ELSE {lines[Max(S)].value}
      /\ FirstOf(S) = IF S = {} THEN {} ELSE {lines[Min(S)].value}
      /\ LastOf(Of(type, s))' = IF S2 = {} THEN {} ELSE {lines'[Max(S2)].value}
      /\ FirstOf(Of(type, s))' = IF S2 = {} THEN {} ELSE {lines'[Min(S2)].value}
  BY DEF LastOf, FirstOf
<1>6. {lines[j].value : j \in Of(type, s)}' = {lines'[j].value : j \in S2}  OBVIOUS
<1> HIDE DEF S, S2, n
<1>7. CASE here
  <2>1. S2 = S \union {n + 1}  BY <1>3, <1>7 DEF S2
  <2>2. \A i \in S : lines'[i] = lines[i]  BY <1>1, <1>2
  <2>3. {lines'[j].value : j \in S2} = {lines[j].value : j \in S} \union {line.value}  BY <1>1, <2>1, <2>2
  <2>4. LastOf(Of(type, s))' = {line.value}  BY <1>1, <1>4, <1>5, <2>1
  <2>5. FirstOf(Of(type, s))' = IF S = {} THEN {line.value} ELSE FirstOf(S)
    <3>1. CASE S = {}
      <4>1. S2 # {} /\ lines'[Min(S2)] = line  BY <1>1, <1>4, <2>1, <3>1
      <4> QED  BY <1>5, <3>1, <4>1
    <3>2. CASE S # {}
      <4>1. S2 # {} /\ lines'[Min(S2)] = lines[Min(S)]  BY <1>4, <2>1, <2>2, <3>2
      <4> QED  BY <1>5, <3>2, <4>1
    <3> QED  BY <3>1, <3>2
  <2> QED  BY <1>6, <1>7, <2>1, <2>3, <2>4, <2>5 DEF S, S2, n
<1>8. CASE ~here
  <2>1. S2 = S  BY <1>3, <1>8 DEF S2
  <2>2. \A i \in S : lines'[i] = lines[i]  BY <1>1, <1>2
  <2>3. {lines'[j].value : j \in S2} = {lines[j].value : j \in S}  BY <2>1, <2>2
  <2>4. LastOf(Of(type, s))' = LastOf(S)  BY <1>4, <1>5, <2>1, <2>2
  <2>5. FirstOf(Of(type, s))' = FirstOf(S)  BY <1>4, <1>5, <2>1, <2>2
  <2> QED  BY <1>6, <1>8, <2>1, <2>3, <2>4, <2>5 DEF S, S2, n
<1> QED  BY <1>7, <1>8

----------------------------------------------------------------------------

MediaTypes == [kind : {"audio", "video"}, port : Ports, payloads : Seq(Nat), connection : SUBSET Addresses,
               rtpmap : SUBSET {TelephoneEvent}, direction : Directions, explicit : BOOLEAN]
ParserTypes == [failed : BOOLEAN, has : SUBSET Mandatory, connection : SUBSET Addresses,
                direction : SUBSET Directions, media : Seq(MediaTypes), in : SUBSET MediaTypes]

\* A media is what the lines of its section say.
Means(m, s) ==
    /\ LastOf(Of("m", s)) = {MediaLine(m.kind, m.port, m.payloads)}
    /\ m.connection = LastOf(Of("c", s))
    /\ m.explicit <=> Of("dir", s) # {}
    /\ {m.direction} = IF Of("dir", s) # {} THEN LastOf(Of("dir", s)) ELSE {"sendrecv"}
    /\ m.rtpmap = {lines[j].value : j \in Of("rtpmap", s)}

\* So is what the parser has kept: the session from section 0, the media that are closed
\* from theirs, and the one that is open from the last.
SectionsMean ==
    /\ parser.has = Mandatory \intersect {lines[i].type : i \in DOMAIN lines}
    /\ parser.connection = LastOf(Of("c", 0))
    /\ parser.direction = FirstOf(Of("dir", 0))
    /\ \A i \in DOMAIN parser.media, m \in MediaTypes : m = parser.media[i] => Means(m, i)
    /\ \E s \in Nat : s = Current /\
         \/ s = 0 /\ parser.in = {} /\ parser.media = <<>>
         \/ Len(parser.media) + 1 = s /\ \E m \in MediaTypes : parser.in = {m} /\ Means(m, s)

ParserInv ==
    /\ coming \in Seq(ReadLines) /\ lines \in Seq(ReadLines) /\ parser \in ParserTypes
    /\ parser.failed <=> \E i \in DOMAIN lines : lines[i].type = "bad"
    /\ ~parser.failed => SectionsMean

\* What one more line makes of a media: nothing, unless it is of its section.
LEMMA MeansGrows ==
    ASSUME lines \in Seq(ReadLines), NEW line \in ReadLines, lines' = Append(lines, line),
           NEW m \in MediaTypes, NEW s, Means(m, s),
           line.type = "m" \/ Current # s
           \/ line.type \notin {"c", "dir", "rtpmap"}
    PROVE  Current' # s \/ line.type # "m" => Means(m, s)'
<1> SUFFICES ASSUME Current' # s \/ line.type # "m" PROVE Means(m, s)'
  OBVIOUS
<1>1. Current \in Nat /\ Current' = Current + IF line.type = "m" THEN 1 ELSE 0
  <2>1. Current \in Nat
    <3>1. Len(lines) \in 0 .. Len(lines)  OBVIOUS
    <3> QED  BY <3>1, Sections DEF Current
  <2> QED  BY <2>1, OneMoreLine
<1>2. ASSUME NEW type \in {"m", "c", "dir", "rtpmap"} PROVE ~(line.type = type /\ Current' = s)
  <2>1. CASE line.type = "m"  BY <2>1
  <2>2. CASE line.type # "m"
    <3>1. Current' = Current  BY <1>1, <2>2
    <3> QED  BY <2>2, <3>1
  <2> QED  BY <2>1, <2>2
<1>3. ASSUME NEW type \in {"m", "c", "dir", "rtpmap"}
      PROVE  /\ Of(type, s)' = {} <=> Of(type, s) = {}
             /\ LastOf(Of(type, s))' = LastOf(Of(type, s))
             /\ {lines[j].value : j \in Of(type, s)}' = {lines[j].value : j \in Of(type, s)}
  BY <1>2, OfGrows
<1>4. /\ LastOf(Of("m", s))' = LastOf(Of("m", s)) /\ LastOf(Of("c", s))' = LastOf(Of("c", s))
      /\ LastOf(Of("dir", s))' = LastOf(Of("dir", s)) /\ (Of("dir", s)' = {} <=> Of("dir", s) = {})
      /\ {lines[j].value : j \in Of("rtpmap", s)}' = {lines[j].value : j \in Of("rtpmap", s)}
  BY <1>3
<1> QED  BY <1>4 DEF Means

\* What a line says of the session, and what it leaves of the media that are closed.
LEMMA SessionGrows ==
    ASSUME ParserInv, ~parser.failed, NEW line \in ReadLines, lines' = Append(lines, line)
    PROVE  /\ Current \in Nat /\ Current' = IF line.type = "m" THEN Current + 1 ELSE Current
           /\ LastOf(Of("c", 0))' = IF line.type = "c" /\ Current = 0 THEN {line.value} ELSE LastOf(Of("c", 0))
           /\ FirstOf(Of("dir", 0))' = IF line.type = "dir" /\ Current = 0 /\ FirstOf(Of("dir", 0)) = {}
                                      THEN {line.value} ELSE FirstOf(Of("dir", 0))
           /\ \A i \in DOMAIN parser.media, m \in MediaTypes : m = parser.media[i] => Means(m, i)'
           /\ \A m \in MediaTypes, s \in Nat :
                s = Current /\ Means(m, s) /\ line.type \notin {"c", "dir", "rtpmap"} => Means(m, s)'
<1>1. /\ lines \in Seq(ReadLines) /\ parser \in ParserTypes /\ SectionsMean
      /\ parser.media \in Seq(MediaTypes)
  BY DEF ParserInv, ParserTypes
<1>2. Current \in Nat /\ Current' = IF line.type = "m" THEN Current + 1 ELSE Current
  <2>1. Len(lines) \in 0 .. Len(lines)  BY <1>1
  <2>2. Current \in Nat  BY <1>1, <2>1, Sections DEF Current
  <2>3. Current' = Current + IF line.type = "m" THEN 1 ELSE 0  BY <1>1, OneMoreLine
  <2>4. CASE line.type = "m"  BY <2>2, <2>3, <2>4
  <2>5. CASE line.type # "m"  BY <2>2, <2>3, <2>5
  <2> QED  BY <2>4, <2>5
<1>3. LastOf(Of("c", 0))' = IF line.type = "c" /\ Current = 0 THEN {line.value} ELSE LastOf(Of("c", 0))
  <2>1. LastOf(Of("c", 0))' = IF line.type = "c" /\ Current' = 0 THEN {line.value} ELSE LastOf(Of("c", 0))
    BY <1>1, OfGrows
  <2> QED  BY <1>2, <2>1
<1>4. FirstOf(Of("dir", 0))' = IF line.type = "dir" /\ Current = 0 /\ FirstOf(Of("dir", 0)) = {}
                             THEN {line.value} ELSE FirstOf(Of("dir", 0))
  <2>1. FirstOf(Of("dir", 0))' = IF (line.type = "dir" /\ Current' = 0) /\ Of("dir", 0) = {} THEN {line.value}
                                 ELSE FirstOf(Of("dir", 0))
    BY <1>1, OfGrows
  <2>2. FirstOf(Of("dir", 0)) = {} <=> Of("dir", 0) = {}  BY DEF FirstOf
  <2> QED  BY <1>2, <2>1, <2>2
<1>5. Len(parser.media) \in Nat /\ Len(parser.media) <= Current /\ (Current # 0 => Len(parser.media) < Current)
  BY <1>1 DEF SectionsMean
<1>6. ASSUME NEW i \in DOMAIN parser.media, NEW m \in MediaTypes, m = parser.media[i] PROVE Means(m, i)'
  <2>1. Means(m, i)  BY <1>1, <1>6 DEF SectionsMean
  <2>2. i \in 1 .. Len(parser.media)  BY <1>1
  <2>3. Current # i /\ Current' # i  BY <1>2, <1>5, <2>2
  <2>4. i \in Nat  BY <2>2
  <2> QED  BY <1>1, <2>1, <2>3, <2>4, MeansGrows
<1>7. ASSUME NEW m \in MediaTypes, NEW s \in Nat, s = Current, Means(m, s), line.type \notin {"c", "dir", "rtpmap"}
      PROVE  Means(m, s)'
  <2>1. Current' # s \/ line.type # "m"  BY <1>2, <1>7
  <2> QED  BY <1>1, <1>7, <2>1, MeansGrows
<1> QED  BY <1>2, <1>3, <1>4, <1>6, <1>7

\* A line of the media that is open.
LEMMA OpenGrows ==
    ASSUME ParserInv, ~parser.failed, NEW line \in ReadLines, lines' = Append(lines, line),
           line.type # "m", NEW s \in Nat, s = Current
    PROVE  \A type \in {"m", "c", "dir", "rtpmap"} :
             /\ Of(type, s)' = {} <=> line.type # type /\ Of(type, s) = {}
             /\ LastOf(Of(type, s))' = IF line.type = type THEN {line.value} ELSE LastOf(Of(type, s))
             /\ {lines[j].value : j \in Of(type, s)}' =
                  IF line.type = type THEN {lines[j].value : j \in Of(type, s)} \union {line.value}
                  ELSE {lines[j].value : j \in Of(type, s)}
<1>1. Current' = s  BY SessionGrows
<1>2. lines \in Seq(ReadLines)  BY DEF ParserInv
<1> QED  BY <1>1, <1>2, OfGrows

\* A new section starts without lines of its own.
LEMMA SectionStarts ==
    ASSUME ParserInv, ~parser.failed, NEW line \in ReadLines, lines' = Append(lines, line),
           line.type = "m", NEW s \in Nat, s = Current + 1
    PROVE  Means(NewMedia(line.value), s)'
<1>1. lines \in Seq(ReadLines) /\ Current \in Nat /\ Current' = s  BY SessionGrows DEF ParserInv
<1>2. ASSUME NEW type PROVE Of(type, s) = {}
  <2>1. \A i \in DOMAIN lines : i \in 0 .. Len(lines)  BY <1>1
  <2>2. \A i \in DOMAIN lines : i <= Len(lines)  BY <1>1
  <2>3. Len(lines) \in 0 .. Len(lines)  BY <1>1
  <2>4. ASSUME NEW i \in DOMAIN lines PROVE Section(i) # s
    <3>1. Section(i) \in Nat /\ Section(i) <= Current  BY <1>1, <2>1, <2>2, <2>3, Sections DEF Current
    <3> QED  BY <1>1, <3>1
  <2> QED  BY <2>4 DEF Of
<1>3. LastOf(Of("m", s))' = {line.value}  BY <1>1, OfGrows
<1>4. ASSUME NEW type \in {"c", "dir", "rtpmap"}
      PROVE  /\ Of(type, s)' = {} /\ LastOf(Of(type, s))' = {}
             /\ {lines[j].value : j \in Of(type, s)}' = {}
  <2>1. Of(type, s)' = {} <=> ~(line.type = type /\ Current' = s) /\ Of(type, s) = {}  BY <1>1, OfGrows
  <2>2. Of(type, s)' = {}  BY <1>2, <2>1
  <2> QED  BY <2>2 DEF LastOf
<1>5. line.value \in MediaLines  BY LineFields
<1>6. PICK k \in {"audio", "video"}, p \in Ports, l \in Seq(Nat) : line.value = MediaLine(k, p, l)
  BY <1>5 DEF MediaLines
<1>7. MediaLine(line.value.kind, line.value.port, line.value.payloads) = line.value  BY <1>6 DEF MediaLine
<1>8. /\ Of("dir", s)' = {} /\ LastOf(Of("c", s))' = {} /\ {lines[j].value : j \in Of("rtpmap", s)}' = {}
  BY <1>4
<1> QED  BY <1>1, <1>3, <1>7, <1>8 DEF Means, NewMedia

LEMMA SingletonAsSeq ==
    /\ SetToSeq({}) = <<>>
    /\ \A n : SetToSeq({n}) = <<n>>
<1>1. SetToSeq({}) = <<>>
  <2>1. Cardinality({}) = 0  BY FS_EmptySet
  <2>2. \A f \in [1 .. 0 -> {}] : f = <<>>  OBVIOUS
  <2>3. <<>> \in [1 .. 0 -> {}] /\ IsInjective(<<>>)  BY DEF IsInjective
  <2> QED  BY <2>1, <2>2, <2>3 DEF SetToSeq
<1>2. ASSUME NEW n PROVE SetToSeq({n}) = <<n>>
  <2>1. Cardinality({n}) = 1  BY FS_Singleton
  <2>2. \A f \in [1 .. 1 -> {n}] : f = <<n>>  OBVIOUS
  <2>3. <<n>> \in [1 .. 1 -> {n}] /\ IsInjective(<<n>>)  BY DEF IsInjective
  <2> QED  BY <2>1, <2>2, <2>3 DEF SetToSeq
<1> QED  BY <1>1, <1>2

\* The media read so far, the one that is open included.
LEMMA ClosedMedia ==
    ASSUME ParserInv, ~parser.failed
    PROVE  /\ Closed(parser) \in ParserTypes
           /\ Closed(parser) = [parser EXCEPT !.media = Closed(parser).media, !.in = {}]
           /\ Len(Closed(parser).media) = Current
           /\ \A i \in DOMAIN Closed(parser).media, m \in MediaTypes : m = Closed(parser).media[i] => Means(m, i)
<1>1. parser \in ParserTypes /\ SectionsMean  BY DEF ParserInv
<1>2. parser.media \in Seq(MediaTypes)  BY <1>1 DEF ParserTypes
<1>3. PICK s \in Nat : s = Current /\
         \/ s = 0 /\ parser.in = {} /\ parser.media = <<>>
         \/ Len(parser.media) + 1 = s /\ \E m \in MediaTypes : parser.in = {m} /\ Means(m, s)
  BY <1>1 DEF SectionsMean
<1>4. Closed(parser) = [parser EXCEPT !.media = parser.media \o SetToSeq(parser.in), !.in = {}]
  BY DEF Closed
<1> DEFINE media == parser.media \o SetToSeq(parser.in)
<1>5. /\ media \in Seq(MediaTypes) /\ Len(media) = Current
      /\ \A i \in DOMAIN media, m \in MediaTypes : m = media[i] => Means(m, i)
  <2>1. CASE s = 0 /\ parser.in = {} /\ parser.media = <<>>
    <3>1. media = <<>>  BY <2>1, SingletonAsSeq
    <3> HIDE DEF media
    <3>2. media \in Seq(MediaTypes) /\ Len(media) = 0 /\ DOMAIN media = {}  BY <3>1
    <3> QED  BY <1>3, <2>1, <3>2
  <2>2. CASE Len(parser.media) + 1 = s /\ \E m \in MediaTypes : parser.in = {m} /\ Means(m, s)
    <3>1. PICK m \in MediaTypes : parser.in = {m} /\ Means(m, s)  BY <2>2
    <3>2. media = Append(parser.media, m)
      <4>1. SetToSeq(parser.in) = <<m>>  BY <3>1, SingletonAsSeq
      <4> QED  BY <1>2, <4>1, AppendIsConcat
    <3> HIDE DEF media
    <3>3. /\ media \in Seq(MediaTypes) /\ Len(media) = s /\ media[s] = m
          /\ \A i \in 1 .. Len(parser.media) : media[i] = parser.media[i]
      <4>1. Len(parser.media) \in Nat /\ Len(parser.media) + 1 = s  BY <1>2, <2>2
      <4> QED  BY <1>2, <3>2, <4>1, AppendProperties
    <3>4. ASSUME NEW i \in DOMAIN media, NEW x \in MediaTypes, x = media[i] PROVE Means(x, i)
      <4>1. i \in 1 .. s  BY <3>3
      <4>2. CASE i = s  BY <3>1, <3>3, <3>4, <4>2
      <4>3. CASE i # s
        <5>1. i \in DOMAIN parser.media /\ x = parser.media[i]  BY <1>2, <2>2, <3>3, <3>4, <4>1, <4>3
        <5> QED  BY <1>1, <5>1 DEF SectionsMean
      <4> QED  BY <4>2, <4>3
    <3> QED  BY <1>3, <3>3, <3>4
  <2> QED  BY <1>3, <2>1, <2>2
<1> HIDE DEF media
<1>6. Closed(parser) = [parser EXCEPT !.media = media, !.in = {}]  BY <1>4 DEF media
<1>7. Closed(parser).media = media  BY <1>1, <1>6 DEF ParserTypes
<1>8. Closed(parser) \in ParserTypes  BY <1>1, <1>5, <1>6 DEF ParserTypes
<1> QED  BY <1>5, <1>6, <1>7, <1>8

\* A type of lines more, and whether it is that of a line that does not parse.
LEMMA TypesGrow ==
    ASSUME lines \in Seq(ReadLines), NEW line \in ReadLines, lines' = Append(lines, line)
    PROVE  /\ {lines[i].type : i \in DOMAIN lines}' = {lines[i].type : i \in DOMAIN lines} \union {line.type}
           /\ (\E i \in DOMAIN lines : lines[i].type = "bad")' <=>
                line.type = "bad" \/ \E i \in DOMAIN lines : lines[i].type = "bad"
<1>1. /\ Len(lines) \in Nat /\ Len(lines') = Len(lines) + 1 /\ lines'[Len(lines) + 1] = line
      /\ lines' \in Seq(ReadLines) /\ \A i \in 1 .. Len(lines) : lines'[i] = lines[i]
  BY OneMoreLine
<1>2. DOMAIN lines' = 1 .. Len(lines) + 1 /\ DOMAIN lines = 1 .. Len(lines)  BY <1>1
<1>3. {lines'[i].type : i \in 1 .. Len(lines) + 1} = {lines[i].type : i \in 1 .. Len(lines)} \union {line.type}
  <2>1. Len(lines) + 1 \in 1 .. Len(lines) + 1  BY <1>1
  <2>2. \A i \in 1 .. Len(lines) : i \in 1 .. Len(lines) + 1 /\ lines'[i].type = lines[i].type  BY <1>1
  <2>3. \A i \in 1 .. Len(lines) + 1 : i = Len(lines) + 1 \/ i \in 1 .. Len(lines)  BY <1>1
  <2> QED  BY <1>1, <2>1, <2>2, <2>3
<1>4. (\E i \in 1 .. Len(lines) + 1 : lines'[i].type = "bad") <=>
        line.type = "bad" \/ \E i \in 1 .. Len(lines) : lines[i].type = "bad"
  BY <1>1
<1> QED  BY <1>2, <1>3, <1>4

\* What a line of the media that is open makes of it.
Told(m, line) ==
    CASE line.type = "c" -> [m EXCEPT !.connection = {line.value}]
      [] line.type = "rtpmap" -> [m EXCEPT !.rtpmap = @ \union {line.value}]
      [] line.type = "dir" -> [m EXCEPT !.direction = line.value, !.explicit = TRUE]
      [] OTHER -> m

LEMMA ToldMeans ==
    ASSUME ParserInv, ~parser.failed, NEW line \in ReadLines, lines' = Append(lines, line), line.type # "m",
           NEW s \in Nat, s = Current, NEW m \in MediaTypes, Means(m, s)
    PROVE  Told(m, line) \in MediaTypes /\ Means(Told(m, line), s)'
<1> DEFINE new == Told(m, line)
<1>1. \A type \in {"m", "c", "dir", "rtpmap"} :
        /\ Of(type, s)' = {} <=> line.type # type /\ Of(type, s) = {}
        /\ LastOf(Of(type, s))' = IF line.type = type THEN {line.value} ELSE LastOf(Of(type, s))
        /\ {lines[j].value : j \in Of(type, s)}' =
             IF line.type = type THEN {lines[j].value : j \in Of(type, s)} \union {line.value}
             ELSE {lines[j].value : j \in Of(type, s)}
  BY OpenGrows
<1>2. /\ new \in MediaTypes
      /\ new.kind = m.kind /\ new.port = m.port /\ new.payloads = m.payloads
      /\ new.connection = IF line.type = "c" THEN {line.value} ELSE m.connection
      /\ new.rtpmap = IF line.type = "rtpmap" THEN m.rtpmap \union {line.value} ELSE m.rtpmap
      /\ new.direction = IF line.type = "dir" THEN line.value ELSE m.direction
      /\ new.explicit = IF line.type = "dir" THEN TRUE ELSE m.explicit
  BY LineFields DEF Told, MediaTypes
<1> HIDE DEF new
<1>3. LastOf(Of("m", s))' = {MediaLine(new.kind, new.port, new.payloads)}  BY <1>1, <1>2 DEF Means
<1>4. new.connection = LastOf(Of("c", s))'  BY <1>1, <1>2 DEF Means
<1>5. new.explicit <=> Of("dir", s)' # {}
  <2>1. m.explicit <=> Of("dir", s) # {}  BY DEF Means
  <2>2. Of("dir", s)' = {} <=> line.type # "dir" /\ Of("dir", s) = {}  BY <1>1
  <2> QED  BY <1>2, <2>1, <2>2
<1>6. {new.direction} = IF Of("dir", s)' # {} THEN LastOf(Of("dir", s))' ELSE {"sendrecv"}
  <2>1. {m.direction} = IF Of("dir", s) # {} THEN LastOf(Of("dir", s)) ELSE {"sendrecv"}  BY DEF Means
  <2>2. /\ Of("dir", s)' = {} <=> line.type # "dir" /\ Of("dir", s) = {}
        /\ LastOf(Of("dir", s))' = IF line.type = "dir" THEN {line.value} ELSE LastOf(Of("dir", s))
    BY <1>1
  <2> QED  BY <1>2, <2>1, <2>2
<1>7. new.rtpmap = {lines[j].value : j \in Of("rtpmap", s)}'
  <2>1. m.rtpmap = {lines[j].value : j \in Of("rtpmap", s)}  BY DEF Means
  <2>2. {lines[j].value : j \in Of("rtpmap", s)}' =
             IF line.type = "rtpmap" THEN {lines[j].value : j \in Of("rtpmap", s)} \union {line.value}
             ELSE {lines[j].value : j \in Of("rtpmap", s)}
    BY <1>1
  <2> QED  BY <1>2, <2>1, <2>2
<1> QED  BY <1>2, <1>3, <1>4, <1>5, <1>6, <1>7 DEF Means, new

\* A line that parses changes the parser as its section says.
LEMMA LineMeans ==
    ASSUME ParserInv, ~parser.failed, NEW line \in ReadLines, Parsed(line), line.type # "bad"
    PROVE  parser' \in ParserTypes /\ ~parser'.failed /\ SectionsMean'
<1> USE DEF Parsed
<1>1. lines \in Seq(ReadLines) /\ parser \in ParserTypes /\ SectionsMean  BY DEF ParserInv
<1>2. parser.media \in Seq(MediaTypes)  BY <1>1 DEF ParserTypes
<1>3. PICK s \in Nat : s = Current /\
         \/ s = 0 /\ parser.in = {} /\ parser.media = <<>>
         \/ Len(parser.media) + 1 = s /\ \E m \in MediaTypes : parser.in = {m} /\ Means(m, s)
  BY <1>1 DEF SectionsMean
<1>4. /\ Current' = IF line.type = "m" THEN s + 1 ELSE s
      /\ LastOf(Of("c", 0))' = IF line.type = "c" /\ s = 0 THEN {line.value} ELSE LastOf(Of("c", 0))
      /\ FirstOf(Of("dir", 0))' = IF line.type = "dir" /\ s = 0 /\ FirstOf(Of("dir", 0)) = {}
                                 THEN {line.value} ELSE FirstOf(Of("dir", 0))
      /\ \A i \in DOMAIN parser.media, m \in MediaTypes : m = parser.media[i] => Means(m, i)'
  BY <1>3, SessionGrows
<1>5. {lines[i].type : i \in DOMAIN lines}' = {lines[i].type : i \in DOMAIN lines} \union {line.type}
  BY <1>1, TypesGrow
<1>6. s = 0 <=> parser.in = {}
  <2>1. Len(parser.media) \in Nat  BY <1>2
  <2>2. CASE s = 0 /\ parser.in = {} /\ parser.media = <<>>  BY <2>2
  <2>3. CASE Len(parser.media) + 1 = s /\ \E m \in MediaTypes : parser.in = {m} /\ Means(m, s)
    <3>1. s # 0  BY <2>1, <2>3
    <3>2. parser.in # {}  BY <2>3
    <3> QED  BY <3>1, <3>2
  <2> QED  BY <1>3, <2>2, <2>3
<1>7. /\ parser.connection = LastOf(Of("c", 0)) /\ parser.direction = FirstOf(Of("dir", 0))
      /\ parser.has = Mandatory \intersect {lines[i].type : i \in DOMAIN lines}
  BY <1>1 DEF SectionsMean
<1>8. /\ line.type \in {"v", "o", "s", "t", "c", "m", "dir", "rtpmap"}
      /\ line.type = "c" => line.value \in Addresses
      /\ line.type = "dir" => line.value \in Directions
      /\ line.type = "m" => line.value \in MediaLines
  BY LineFields
<1>9. CASE line.type = "m"
  <2>1. parser' = [Closed(parser) EXCEPT !.in = {NewMedia(line.value)}]  BY <1>9 DEF Read, Mandatory
  <2>2. /\ Closed(parser) \in ParserTypes
        /\ Closed(parser) = [parser EXCEPT !.media = Closed(parser).media, !.in = {}]
        /\ Len(Closed(parser).media) = s
    BY <1>3, ClosedMedia
  <2>3. NewMedia(line.value) \in MediaTypes
    <3>1. PICK k \in {"audio", "video"}, p \in Ports, l \in Seq(Nat) : line.value = MediaLine(k, p, l)
      BY <1>8, <1>9 DEF MediaLines
    <3> QED  BY <3>1 DEF MediaTypes, NewMedia, MediaLine, Directions
  <2> DEFINE media == Closed(parser).media
  <2>4. /\ parser' \in ParserTypes /\ ~parser'.failed /\ parser'.has = parser.has
        /\ parser'.connection = parser.connection /\ parser'.direction = parser.direction
        /\ parser'.media = media /\ parser'.in = {NewMedia(line.value)}
    <3>1. PICK closed \in ParserTypes :
              /\ closed = Closed(parser) /\ closed = [parser EXCEPT !.media = media, !.in = {}]
      BY <2>2
    <3> HIDE DEF media
    <3>2. parser' = [closed EXCEPT !.in = {NewMedia(line.value)}]  BY <2>1, <3>1
    <3>3. /\ ~closed.failed /\ closed.has = parser.has /\ closed.connection = parser.connection
          /\ closed.direction = parser.direction /\ closed.media = media
      BY <1>1, <3>1 DEF ParserTypes
    <3> QED  BY <2>3, <3>2, <3>3 DEF ParserTypes
  <2>5. ASSUME NEW i \in DOMAIN media, NEW m \in MediaTypes, m = media[i] PROVE Means(m, i)'
    <3>1. Means(m, i)  BY <2>5, ClosedMedia
    <3>2. i # s + 1 /\ i \in Nat  BY <2>2 DEF ParserTypes
    <3>3. Current' # i  BY <1>4, <1>9, <3>2
    <3> QED  BY <1>1, <1>9, <3>1, <3>2, <3>3, MeansGrows
  <2>6. PICK n \in Nat : n = s + 1  BY <1>3
  <2>7. Means(NewMedia(line.value), n)'  BY <1>3, <1>9, <2>6, SectionStarts
  <2>8. n = Current' /\ Len(parser'.media) + 1 = n  BY <1>4, <1>9, <2>2, <2>4, <2>6
  <2>9. parser'.has = Mandatory \intersect {lines[i].type : i \in DOMAIN lines}'
    BY <1>5, <1>7, <1>9, <2>4 DEF Mandatory
  <2>10. parser'.connection = LastOf(Of("c", 0))' /\ parser'.direction = FirstOf(Of("dir", 0))'
    BY <1>4, <1>7, <1>9, <2>4
  <2>11. \A i \in DOMAIN parser'.media, m \in MediaTypes : m = parser'.media[i] => Means(m, i)'
    BY <2>4, <2>5
  <2> QED  BY <2>3, <2>4, <2>7, <2>8, <2>9, <2>10, <2>11 DEF SectionsMean
<1>10. CASE line.type # "m"
  <2>1. /\ parser' \in ParserTypes /\ ~parser'.failed /\ parser'.media = parser.media
        /\ parser'.has = IF line.type \in Mandatory THEN parser.has \union {line.type} ELSE parser.has
        /\ parser'.connection = IF line.type = "c" /\ s = 0 THEN {line.value} ELSE parser.connection
        /\ parser'.direction = IF line.type = "dir" /\ s = 0 /\ parser.direction = {} THEN {line.value}
                               ELSE parser.direction
        /\ parser'.in = {Told(m, line) : m \in parser.in}
    <3> DEFINE in == {Told(m, line) : m \in parser.in}
    <3>0. in \subseteq MediaTypes
      <4>1. ASSUME NEW m \in parser.in PROVE Told(m, line) \in MediaTypes
        <5>1. m \in MediaTypes /\ Means(m, s)  BY <1>1, <1>3
        <5> QED  BY <1>3, <1>10, <5>1, ToldMeans
      <4> QED  BY <4>1
    <3>1. CASE line.type \in Mandatory
      <4>1. parser' = [parser EXCEPT !.has = @ \union {line.type}]  BY <3>1 DEF Read, Mandatory
      <4>2. line.type \notin {"c", "rtpmap", "dir"}  BY <3>1 DEF Mandatory
      <4>3. in = parser.in  BY <4>2 DEF Told
      <4> HIDE DEF in
      <4>4. parser.has \union {line.type} \subseteq Mandatory  BY <1>1, <3>1 DEF ParserTypes
      <4> QED  BY <1>1, <3>1, <4>1, <4>2, <4>3, <4>4 DEF ParserTypes, in
    <3>2. CASE line.type = "t"
      <4>1. parser' = parser  BY <3>2 DEF Read, Mandatory
      <4>2. in = parser.in  BY <3>2 DEF Told
      <4>3. line.type \notin Mandatory  BY <3>2 DEF Mandatory
      <4> QED  BY <1>1, <3>2, <4>1, <4>2, <4>3
    <3>3. CASE line.type = "c"
      <4>1. parser' = IF parser.in = {} THEN [parser EXCEPT !.connection = {line.value}]
                      ELSE [parser EXCEPT !.in = {[m EXCEPT !.connection = {line.value}] : m \in @}]
        BY <3>3 DEF Read, Mandatory, InMedia
      <4>2. in = {[m EXCEPT !.connection = {line.value}] : m \in parser.in}  BY <3>3 DEF Told
      <4>3. line.type \notin Mandatory  BY <3>3 DEF Mandatory
      <4>4. parser' = IF parser.in = {} THEN [parser EXCEPT !.connection = {line.value}]
                      ELSE [parser EXCEPT !.in = in]
        BY <4>1, <4>2
      <4>5. parser.in = {} => in = parser.in  OBVIOUS
      <4>6. {line.value} \subseteq Addresses  BY <1>8, <3>3
      <4> HIDE DEF in
      <4>7. CASE parser.in = {}
        <5>1. parser' = [parser EXCEPT !.connection = {line.value}] /\ s = 0 /\ in = {}  BY <1>6, <4>4, <4>5, <4>7
        <5>2. /\ parser' \in ParserTypes /\ parser'.failed = parser.failed /\ parser'.media = parser.media
              /\ parser'.has = parser.has /\ parser'.connection = {line.value}
              /\ parser'.direction = parser.direction /\ parser'.in = parser.in
          BY <1>1, <4>6, <5>1 DEF ParserTypes
        <5> QED  BY <3>3, <4>3, <4>7, <5>1, <5>2 DEF in
      <4>8. CASE parser.in # {}
        <5>1. parser' = [parser EXCEPT !.in = in] /\ s # 0  BY <1>6, <4>4, <4>8
        <5> QED  BY <1>1, <3>0, <3>3, <4>3, <5>1 DEF ParserTypes, in
      <4> QED  BY <4>7, <4>8
    <3>4. CASE line.type = "rtpmap"
      <4>1. parser' = [parser EXCEPT !.in = {[m EXCEPT !.rtpmap = @ \union {line.value}] : m \in @}]
        BY <3>4 DEF Read, Mandatory, InMedia
      <4>2. in = {[m EXCEPT !.rtpmap = @ \union {line.value}] : m \in parser.in}  BY <3>4 DEF Told
      <4>3. line.type \notin Mandatory  BY <3>4 DEF Mandatory
      <4>4. parser' = [parser EXCEPT !.in = in]  BY <4>1, <4>2
      <4> HIDE DEF in
      <4> QED  BY <1>1, <3>0, <3>4, <4>3, <4>4 DEF ParserTypes, in
    <3>5. CASE line.type = "dir"
      <4>1. parser' = IF parser.in = {}
                      THEN [parser EXCEPT !.direction = IF @ = {} THEN {line.value} ELSE @]
                      ELSE [parser EXCEPT !.in = {[m EXCEPT !.direction = line.value, !.explicit = TRUE] : m \in @}]
        BY <3>5 DEF Read, Mandatory, InMedia
      <4>2. in = {[m EXCEPT !.direction = line.value, !.explicit = TRUE] : m \in parser.in}  BY <3>5 DEF Told
      <4>3. line.type \notin Mandatory  BY <3>5 DEF Mandatory
      <4>4. parser' = IF parser.in = {}
                      THEN [parser EXCEPT !.direction = IF @ = {} THEN {line.value} ELSE @]
                      ELSE [parser EXCEPT !.in = in]
        BY <4>1, <4>2
      <4>5. parser.in = {} => in = parser.in  OBVIOUS
      <4> HIDE DEF in
      <4> QED  BY <1>1, <1>6, <1>8, <3>0, <3>5, <4>3, <4>4, <4>5 DEF ParserTypes, in
    <3> QED  BY <1>8, <1>10, <3>1, <3>2, <3>3, <3>4, <3>5 DEF Mandatory
  <2>2. parser'.has = Mandatory \intersect {lines[i].type : i \in DOMAIN lines}'
    BY <1>5, <1>7, <2>1
  <2>3. parser'.connection = LastOf(Of("c", 0))' /\ parser'.direction = FirstOf(Of("dir", 0))'
    BY <1>4, <1>7, <2>1
  <2>4. \A i \in DOMAIN parser'.media, m \in MediaTypes : m = parser'.media[i] => Means(m, i)'
    BY <1>4, <2>1
  <2>5. s = Current'  BY <1>4, <1>10
  <2>6. \/ s = 0 /\ parser'.in = {} /\ parser'.media = <<>>
        \/ Len(parser'.media) + 1 = s /\ \E m \in MediaTypes : parser'.in = {m} /\ Means(m, s)'
    <3>1. CASE s = 0  BY <1>2, <1>3, <2>1, <3>1
    <3>2. CASE s # 0
      <4>1. PICK m \in MediaTypes : parser.in = {m} /\ Means(m, s)  BY <1>3, <3>2
      <4>2. Told(m, line) \in MediaTypes /\ Means(Told(m, line), s)'  BY <1>3, <1>10, <4>1, ToldMeans
      <4>3. parser'.in = {Told(m, line)}  BY <2>1, <4>1
      <4> QED  BY <1>3, <2>1, <3>2, <4>2, <4>3
    <3> QED  BY <3>1, <3>2
  <2> QED  BY <2>1, <2>2, <2>3, <2>4, <2>5, <2>6 DEF SectionsMean
<1> QED  BY <1>9, <1>10

LEMMA ReadKeeps ==
    ASSUME ParserInv, NEW line \in ReadLines, Parsed(line), coming' \in Seq(ReadLines)
    PROVE  ParserInv'
<1>1. lines \in Seq(ReadLines) /\ parser \in ParserTypes /\ lines' = Append(lines, line)
      /\ parser' = Read(parser, line)
  BY DEF ParserInv, Parsed
<1>2. lines' \in Seq(ReadLines)  BY <1>1, OneMoreLine
<1>3. (\E i \in DOMAIN lines : lines[i].type = "bad")' <=>
        line.type = "bad" \/ \E i \in DOMAIN lines : lines[i].type = "bad"
  BY <1>1, TypesGrow
<1>4. parser.failed <=> \E i \in DOMAIN lines : lines[i].type = "bad"  BY DEF ParserInv
<1>5. CASE parser.failed
  <2>1. parser' = parser  BY <1>1, <1>5 DEF Read
  <2> QED  BY <1>1, <1>2, <1>3, <1>4, <1>5, <2>1 DEF ParserInv
<1>6. CASE ~parser.failed /\ line.type = "bad"
  <2>1. parser' = [parser EXCEPT !.failed = TRUE]  BY <1>1, <1>6 DEF Read, Mandatory
  <2>2. parser' \in ParserTypes /\ parser'.failed  BY <1>1, <2>1 DEF ParserTypes
  <2> QED  BY <1>2, <1>3, <1>6, <2>2 DEF ParserInv
<1>7. CASE ~parser.failed /\ line.type # "bad"
  <2>1. parser' \in ParserTypes /\ ~parser'.failed /\ SectionsMean'  BY <1>7, LineMeans
  <2> QED  BY <1>2, <1>3, <1>4, <1>7, <2>1 DEF ParserInv
<1> QED  BY <1>5, <1>6, <1>7

\* The lines of a description as built.
LEMMA BuildLines ==
    ASSUME NEW a \in Addresses, NEW port \in Ports, NEW list \in PayloadLists, NEW event \in BOOLEAN,
           NEW dir \in Directions
    PROVE  LET built == Build(a, port, list, event, dir)
               payloads == IF event THEN Append(list, TelephoneEvent) ELSE list
           IN  /\ built \in Seq(ReadLines) /\ Len(built) = IF event THEN 8 ELSE 7
               /\ built[1] = Line("v", "any") /\ built[2] = Line("o", "any") /\ built[3] = Line("s", "any")
               /\ built[4] = Line("c", a) /\ built[5] = Line("t", "any")
               /\ built[6] = Line("m", MediaLine("audio", port, payloads))
               /\ event => built[7] = Line("rtpmap", TelephoneEvent) /\ built[8] = Line("dir", dir)
               /\ ~event => built[7] = Line("dir", dir)
<1> DEFINE payloads == IF event THEN Append(list, TelephoneEvent) ELSE list
           l1 == Line("v", "any")
           l2 == Line("o", "any")
           l3 == Line("s", "any")
           l4 == Line("c", a)
           l5 == Line("t", "any")
           l6 == Line("m", MediaLine("audio", port, payloads))
           l7 == Line("rtpmap", TelephoneEvent)
           l8 == Line("dir", dir)
           built == Build(a, port, list, event, dir)
<1>1. payloads \in Seq(Nat)
  <2>1. list \in Seq(Nat) /\ TelephoneEvent \in Nat  BY SdpAssumption DEF TelephoneEvent
  <2> QED  BY <2>1, AppendProperties
<1>2. /\ l1 \in ReadLines /\ l2 \in ReadLines /\ l3 \in ReadLines /\ l4 \in ReadLines /\ l5 \in ReadLines
      /\ l6 \in ReadLines /\ l7 \in ReadLines /\ l8 \in ReadLines
  <2> HIDE DEF payloads
  <2>1. MediaLine("audio", port, payloads) \in MediaLines
    <3>1. "audio" \in {"audio", "video"}  OBVIOUS
    <3> QED  BY <1>1, <3>1 DEF MediaLines
  <2> QED  BY <2>1 DEF ReadLines, Mandatory
<1>3. built = (<<l1, l2, l3, l4, l5, l6>> \o (IF event THEN <<l7>> ELSE <<>>)) \o <<l8>>
  BY DEF Build
<1> HIDE DEF l1, l2, l3, l4, l5, l6, l7, l8, built
<1> DEFINE start == <<l1, l2, l3, l4, l5, l6>>
           middle == IF event THEN <<l7>> ELSE <<>>
           most == start \o middle
           end == <<l8>>
<1>4. start \in Seq(ReadLines) /\ middle \in Seq(ReadLines) /\ end \in Seq(ReadLines)
  BY <1>2
<1>5. /\ Len(start) = 6 /\ start[1] = l1 /\ start[2] = l2 /\ start[3] = l3 /\ start[4] = l4 /\ start[5] = l5
      /\ start[6] = l6 /\ Len(end) = 1 /\ end[1] = l8
      /\ event => Len(middle) = 1 /\ middle[1] = l7
      /\ ~event => Len(middle) = 0
  OBVIOUS
<1>6. built = most \o end  BY <1>3
<1> HIDE DEF start, middle, end
<1>7. /\ most \in Seq(ReadLines) /\ Len(most) = 6 + Len(middle)
      /\ \A i \in 1 .. 6 + Len(middle) : most[i] = IF i <= 6 THEN start[i] ELSE middle[i - 6]
  <2>1. /\ most \in Seq(ReadLines) /\ Len(most) = Len(start) + Len(middle)
        /\ \A i \in 1 .. Len(start) + Len(middle) : most[i] = IF i <= Len(start) THEN start[i] ELSE middle[i - Len(start)]
    BY <1>4, ConcatProperties
  <2> QED  BY <1>5, <2>1
<1> HIDE DEF most
<1>8. /\ built \in Seq(ReadLines) /\ Len(built) = Len(most) + 1
      /\ \A i \in 1 .. Len(most) + 1 : built[i] = IF i <= Len(most) THEN most[i] ELSE end[i - Len(most)]
  <2>1. /\ built \in Seq(ReadLines) /\ Len(built) = Len(most) + Len(end)
        /\ \A i \in 1 .. Len(most) + Len(end) : built[i] = IF i <= Len(most) THEN most[i] ELSE end[i - Len(most)]
    BY <1>4, <1>6, <1>7, ConcatProperties
  <2> QED  BY <1>5, <2>1
<1>9. /\ Len(built) = IF event THEN 8 ELSE 7
      /\ built[1] = l1 /\ built[2] = l2 /\ built[3] = l3 /\ built[4] = l4 /\ built[5] = l5 /\ built[6] = l6
      /\ event => built[7] = l7 /\ built[8] = l8
      /\ ~event => built[7] = l8
  <2>1. CASE event
    <3>0. Len(middle) = 1  BY <1>5, <2>1
    <3>1. Len(most) = 7 /\ \A i \in 1 .. 7 : most[i] = IF i <= 6 THEN start[i] ELSE middle[i - 6]
      BY <1>7, <3>0
    <3>2. Len(built) = 8 /\ \A i \in 1 .. 8 : built[i] = IF i <= 7 THEN most[i] ELSE end[i - 7]
      BY <1>8, <3>1
    <3> QED  BY <1>5, <2>1, <3>1, <3>2
  <2>2. CASE ~event
    <3>1. Len(most) = 6 /\ \A i \in 1 .. 6 : most[i] = start[i]  BY <1>5, <1>7, <2>2
    <3>2. Len(built) = 7 /\ \A i \in 1 .. 7 : built[i] = IF i <= 6 THEN most[i] ELSE end[i - 6]
      BY <1>8, <3>1
    <3> QED  BY <1>5, <2>2, <3>1, <3>2
  <2> QED  BY <2>1, <2>2
<1> QED  BY <1>8, <1>9 DEF l1, l2, l3, l4, l5, l6, l7, l8, built, payloads

\* Descriptions are made of such lines, and none is read before the first.
LEMMA ParserStarts == SdpInit => ParserInv
<1> SUFFICES ASSUME SdpInit PROVE ParserInv
  OBVIOUS
<1>1. lines = <<>> /\ parser = EmptyParser  BY DEF SdpInit
<1>2. coming \in Seq(ReadLines)
  <2>1. ASSUME NEW second \in {"o", "t"} PROVE Beginning(second) \in Seq(ReadLines)
    <3>1. Line("v", "any") \in ReadLines /\ Line(second, "any") \in ReadLines /\ Line("s", "any") \in ReadLines
      BY DEF ReadLines, Mandatory
    <3> QED  BY <3>1 DEF Beginning
  <2>2. ASSUME NEW a \in Addresses, NEW port \in Ports, NEW list \in PayloadLists, NEW event \in BOOLEAN,
               NEW dir \in Directions
        PROVE  Build(a, port, list, event, AnswerDirection(dir)) \in Seq(ReadLines)
    <3>1. AnswerDirection(dir) \in Directions  BY DEF AnswerDirection, Directions
    <3> QED  BY <3>1, BuildLines
  <2> QED  BY <2>1, <2>2 DEF SdpInit, Answers
<1>3. lines \in Seq(ReadLines) /\ Len(lines) = 0 /\ DOMAIN lines = {}  BY <1>1
<1>4. \A type, s : Of(type, s) = {}  BY <1>3 DEF Of
<1>5. Current = 0  BY <1>3, Sections DEF Current
<1>6. LastOf(Of("c", 0)) = {} /\ FirstOf(Of("dir", 0)) = {}  BY <1>4 DEF LastOf, FirstOf
<1>7. parser \in ParserTypes  BY <1>1 DEF ParserTypes, EmptyParser
<1>8. SectionsMean
  <2>1. /\ parser.has = {} /\ parser.connection = {} /\ parser.direction = {} /\ parser.in = {}
        /\ parser.media = <<>>
    BY <1>1 DEF EmptyParser
  <2>2. DOMAIN parser.media = {}  BY <2>1
  <2> QED  BY <1>3, <1>5, <1>6, <2>1, <2>2 DEF SectionsMean
<1> QED  BY <1>1, <1>2, <1>3, <1>7, <1>8 DEF ParserInv, EmptyParser

LEMMA ParserMoves == ParserInv /\ [SdpNext]_sdpVars => ParserInv'
<1> SUFFICES ASSUME ParserInv, [SdpNext]_sdpVars PROVE ParserInv'
  OBVIOUS
<1>1. coming \in Seq(ReadLines)  BY DEF ParserInv
<1>2. CASE ReadNext
  <2>1. Head(coming) \in ReadLines /\ Tail(coming) \in Seq(ReadLines)  BY <1>1, <1>2 DEF ReadNext
  <2> QED  BY <1>2, <2>1, ReadKeeps DEF ReadNext
<1>3. CASE ReadAny
  <2>1. PICK line \in DescriptionLines : Parsed(line)  BY <1>3 DEF ReadAny
  <2>2. line \in ReadLines  BY <2>1, DescriptionLinesRead
  <2> QED  BY <1>1, <1>3, <2>1, <2>2, ReadKeeps DEF ReadAny
<1>4. CASE UNCHANGED sdpVars
  <2>1. coming' = coming /\ lines' = lines /\ parser' = parser  BY <1>4 DEF sdpVars
  <2>2. Current' = Current  BY <2>1 DEF Current, Section
  <2>3. \A m, s : Means(m, s)' <=> Means(m, s)  BY <2>1 DEF Means, Of, LastOf, Section
  <2>4. LastOf(Of("c", 0))' = LastOf(Of("c", 0)) /\ FirstOf(Of("dir", 0))' = FirstOf(Of("dir", 0))
    BY <2>1 DEF Of, LastOf, FirstOf, Section
  <2>5. SectionsMean' <=> SectionsMean  BY <2>1, <2>2, <2>3, <2>4 DEF SectionsMean
  <2> QED  BY <2>1, <2>5 DEF ParserInv
<1> QED  BY <1>2, <1>3, <1>4 DEF SdpNext

\* What the lines say is said once, and there is something exactly when there are lines.
LEMMA Sayings ==
    ASSUME NEW S
    PROVE  /\ LastOf(S) = {} <=> S = {}
           /\ FirstOf(S) = {} <=> S = {}
           /\ \A x \in LastOf(S) : LastOf(S) = {x}
           /\ \A x \in FirstOf(S) : FirstOf(S) = {x}
  BY DEF LastOf, FirstOf

\* The result of parse, field by field.
LEMMA FinishedMedia ==
    ASSUME ParserInv, ~parser.failed
    PROVE  LET d == Finished(parser) IN
           /\ ~d.failed /\ d.has = parser.has /\ d.connection = parser.connection
           /\ Len(d.media) = Current /\ DOMAIN d.media = 1 .. Current
           /\ d.media \in Seq(MediaTypes)
           /\ \A i \in DOMAIN d.media : \E x \in MediaTypes :
                /\ Means(x, i) /\ d.media[i].kind = x.kind /\ d.media[i].port = x.port
                /\ d.media[i].payloads = x.payloads /\ d.media[i].connection = x.connection
                /\ d.media[i].rtpmap = x.rtpmap
                /\ {d.media[i].direction} = IF x.explicit \/ parser.direction = {} THEN {x.direction}
                                           ELSE parser.direction
<1> DEFINE c == Closed(parser)
           d == Finished(parser)
           New(x) == IF x.explicit \/ parser.direction = {} THEN x
                     ELSE [x EXCEPT !.direction = CHOOSE y \in parser.direction : TRUE]
<1>1. /\ c \in ParserTypes /\ c = [parser EXCEPT !.media = c.media, !.in = {}] /\ Len(c.media) = Current
      /\ \A i \in DOMAIN c.media, m \in MediaTypes : m = c.media[i] => Means(m, i)
  BY ClosedMedia
<1>2. parser \in ParserTypes /\ parser.direction = FirstOf(Of("dir", 0)) /\ parser.direction \subseteq Directions
  BY DEF ParserInv, SectionsMean, ParserTypes
<1> DEFINE media == [i \in DOMAIN c.media |-> New(c.media[i])]
<1>3. d = [c EXCEPT !.media = media]
  <2>1. c.direction = parser.direction
    <3> HIDE DEF c
    <3> QED  BY <1>1, <1>2 DEF ParserTypes
  <2>2. d = Propagated(c)  BY DEF Finished
  <2> HIDE DEF c
  <2> QED  BY <2>1, <2>2 DEF Propagated
<1> HIDE DEF c, d
<1>4. c.media \in Seq(MediaTypes) /\ DOMAIN c.media = 1 .. Current  BY <1>1 DEF ParserTypes
<1>5. ASSUME NEW x \in MediaTypes
      PROVE  /\ New(x) \in MediaTypes
             /\ New(x).kind = x.kind /\ New(x).port = x.port /\ New(x).payloads = x.payloads
             /\ New(x).connection = x.connection /\ New(x).rtpmap = x.rtpmap
             /\ {New(x).direction} = IF x.explicit \/ parser.direction = {} THEN {x.direction} ELSE parser.direction
  <2>1. CASE x.explicit \/ parser.direction = {}
    <3>1. New(x) = x  BY <2>1
    <3> QED  BY <2>1, <3>1
  <2>2. CASE ~(x.explicit \/ parser.direction = {})
    <3>1. PICK y \in parser.direction : y = CHOOSE z \in parser.direction : TRUE  BY <2>2
    <3>2. parser.direction = {y} /\ y \in Directions  BY <1>2, Sayings
    <3>3. New(x) = [x EXCEPT !.direction = y]  BY <2>2, <3>1
    <3> HIDE DEF New
    <3>4. New(x) \in MediaTypes /\ New(x).direction = y  BY <3>2, <3>3 DEF MediaTypes
    <3>5. /\ New(x).kind = x.kind /\ New(x).port = x.port /\ New(x).payloads = x.payloads
          /\ New(x).connection = x.connection /\ New(x).rtpmap = x.rtpmap
      BY <3>3 DEF MediaTypes
    <3> QED  BY <2>2, <3>2, <3>4, <3>5
  <2> QED  BY <2>1, <2>2
<1> HIDE DEF New
<1>6. media \in Seq(MediaTypes) /\ DOMAIN media = 1 .. Current /\ Len(media) = Current
  <2>1. Current = Len(c.media) /\ Len(c.media) \in Nat  BY <1>1, <1>4
  <2>2. media \in [1 .. Len(c.media) -> MediaTypes]  BY <1>4, <1>5, <2>1
  <2> HIDE DEF media
  <2> QED  BY <2>1, <2>2, IsASeq
<1>7. ASSUME NEW i \in DOMAIN media
      PROVE  \E x \in MediaTypes : Means(x, i) /\ media[i] = New(x)
  <2>1. i \in DOMAIN c.media /\ c.media[i] \in MediaTypes
    <3>1. i \in DOMAIN c.media  BY <1>4, <1>7
    <3> HIDE DEF media
    <3>2. i \in 1 .. Len(c.media)  BY <1>1, <1>4, <3>1
    <3> QED  BY <1>4, <3>1, <3>2, ElementOfSeq
  <2>2. Means(c.media[i], i)  BY <1>1, <2>1
  <2> QED  BY <2>1, <2>2
<1> HIDE DEF media
<1>8. d.media = media /\ ~d.failed /\ d.has = parser.has /\ d.connection = parser.connection
  <2>1. d.media = media /\ d.failed = c.failed /\ d.has = c.has /\ d.connection = c.connection
    BY <1>1, <1>3 DEF ParserTypes
  <2>2. c.failed = parser.failed /\ c.has = parser.has /\ c.connection = parser.connection
    BY <1>1, <1>2 DEF ParserTypes
  <2> QED  BY <2>1, <2>2
<1>9. ASSUME NEW i \in DOMAIN media
      PROVE  \E x \in MediaTypes :
                /\ Means(x, i) /\ media[i].kind = x.kind /\ media[i].port = x.port
                /\ media[i].payloads = x.payloads /\ media[i].connection = x.connection
                /\ media[i].rtpmap = x.rtpmap
                /\ {media[i].direction} = IF x.explicit \/ parser.direction = {} THEN {x.direction}
                                         ELSE parser.direction
  <2>1. PICK x \in MediaTypes : Means(x, i) /\ media[i] = New(x)  BY <1>7
  <2> QED  BY <1>5, <2>1
<1> QED  BY <1>6, <1>8, <1>9 DEF d

\* A media section means what its own lines say, else what the session says.
LEMMA SectionsAsMeant ==
    ASSUME ParserInv, ~parser.failed, NEW i \in DOMAIN Finished(parser).media
    PROVE  LET d == Finished(parser)
               m == d.media[i]
           IN  /\ {m.direction} = Either(LastOf(Of("dir", i)), Either(FirstOf(Of("dir", 0)), {"sendrecv"}))
               /\ ConnectionOf(d, m) = Either(LastOf(Of("c", i)), LastOf(Of("c", 0)))
               /\ HeldMedia(d, m) <=> \/ m.direction \in {"sendonly", "inactive"}
                                      \/ Either(LastOf(Of("c", i)), LastOf(Of("c", 0))) = {Unspecified}
<1> DEFINE d == Finished(parser)
           m == d.media[i]
<1>1. PICK x \in MediaTypes :
         /\ Means(x, i) /\ m.connection = x.connection
         /\ {m.direction} = IF x.explicit \/ parser.direction = {} THEN {x.direction} ELSE parser.direction
  BY FinishedMedia
<1>2. d.connection = LastOf(Of("c", 0)) /\ parser.direction = FirstOf(Of("dir", 0))
  <2>1. d.connection = parser.connection  BY FinishedMedia
  <2>2. parser.connection = LastOf(Of("c", 0)) /\ parser.direction = FirstOf(Of("dir", 0))
    BY DEF ParserInv, SectionsMean
  <2> QED  BY <2>1, <2>2
<1> HIDE DEF d, m
<1>3. {m.direction} = Either(LastOf(Of("dir", i)), Either(FirstOf(Of("dir", 0)), {"sendrecv"}))
  <2>1. LastOf(Of("dir", i)) # {} <=> Of("dir", i) # {}  BY Sayings
  <2> QED  BY <1>1, <1>2, <2>1 DEF Means, Either
<1>4. ConnectionOf(d, m) = Either(LastOf(Of("c", i)), LastOf(Of("c", 0)))
  BY <1>1, <1>2 DEF Means, Either, ConnectionOf
<1>5. Unspecified \in ConnectionOf(d, m) <=> ConnectionOf(d, m) = {Unspecified}
  <2>1. ConnectionOf(d, m) = LastOf(Of("c", i)) \/ ConnectionOf(d, m) = LastOf(Of("c", 0))  BY <1>4 DEF Either
  <2> QED  BY <2>1, Sayings
<1> QED  BY <1>3, <1>4, <1>5 DEF HeldMedia, d, m

\* There is a first element for which something holds when there is one at all.
LEMMA FirstFound ==
    ASSUME NEW s \in Seq(Nat), NEW T
    PROVE  LET found == {s[i] : i \in {k \in DOMAIN s : s[k] \in T /\ \A j \in 1 .. k - 1 : ~(s[j] \in T)}}
           IN  found \subseteq ToSet(s) \intersect T /\ (found = {} => ToSet(s) \intersect T = {})
<1> DEFINE I == {k \in DOMAIN s : s[k] \in T}
           found == {s[i] : i \in {k \in DOMAIN s : s[k] \in T /\ \A j \in 1 .. k - 1 : ~(s[j] \in T)}}
<1>1. found \subseteq ToSet(s) \intersect T  BY DEF ToSet
<1>2. ASSUME found = {} PROVE ToSet(s) \intersect T = {}
  <2> SUFFICES ASSUME I # {} PROVE FALSE
    BY DEF ToSet
  <2>1. I \in SUBSET Nat  OBVIOUS
  <2>2. PICK k \in I : \A j \in I : k <= j
    <3> HIDE DEF I
    <3> QED  BY <2>1, LeastOf
  <2>3. k \in 1 .. Len(s) /\ DOMAIN s = 1 .. Len(s)  OBVIOUS
  <2>4. \A j \in 1 .. k - 1 : ~(s[j] \in T)
    <3>1. ASSUME NEW j \in 1 .. k - 1, s[j] \in T PROVE FALSE
      <4>1. j \in I /\ j < k  BY <2>3, <3>1
      <4>2. k <= j  BY <2>2, <4>1
      <4> QED  BY <2>3, <4>1, <4>2
    <3> QED  BY <3>1
  <2>5. s[k] \in found  BY <2>4
  <2> QED  BY <1>2, <2>5
<1> QED  BY <1>1, <1>2

\* The sections of a description as built: the session, and one audio media.
LEMMA BuiltSections ==
    ASSUME lines \in Seq(ReadLines), NEW event \in BOOLEAN,
           Len(lines) = IF event THEN 8 ELSE 7,
           lines[1].type = "v", lines[2].type = "o", lines[3].type = "s", lines[4].type = "c",
           lines[5].type = "t", lines[6].type = "m",
           event => lines[7].type = "rtpmap" /\ lines[8].type = "dir",
           ~event => lines[7].type = "dir"
    PROVE  /\ Current = 1
           /\ LastOf(Of("c", 0)) = {lines[4].value} /\ LastOf(Of("c", 1)) = {}
           /\ LastOf(Of("m", 1)) = {lines[6].value}
           /\ Of("dir", 1) # {} /\ LastOf(Of("dir", 1)) = {lines[Len(lines)].value}
           /\ Of("rtpmap", 1) = IF event THEN {7} ELSE {}
<1> DEFINE n == Len(lines)
           Ms(i) == {j \in 1 .. i : lines[j].type = "m"}
<1>1. DOMAIN lines = 1 .. n /\ n \in {7, 8} /\ lines[n].type = "dir" /\ (event <=> n = 8)
  <2>1. CASE event  BY <2>1
  <2>2. CASE ~event  BY <2>2
  <2> QED  BY <2>1, <2>2
<1>2. \A j \in 1 .. n : lines[j].type = "m" <=> j = 6
  <2>1. \A j \in 1 .. n : j \in {1, 2, 3, 4, 5, 6, 7} \/ j = n  BY <1>1
  <2>2. n # 7 => lines[7].type = "rtpmap"  BY <1>1
  <2> QED  BY <1>1, <2>1, <2>2
<1>3. ASSUME NEW i \in 1 .. n PROVE Section(i) = IF i < 6 THEN 0 ELSE 1
  <2>1. Section(i) = Cardinality(Ms(i))  BY DEF Section
  <2>2. CASE i < 6
    <3>1. Ms(i) = {}  BY <1>2, <2>2
    <3> QED  BY <2>1, <2>2, <3>1, FS_EmptySet
  <2>3. CASE ~(i < 6)
    <3>1. Ms(i) = {6}  BY <1>2, <2>3
    <3> HIDE DEF Ms
    <3>2. Cardinality({6}) = 1  BY FS_Singleton
    <3> QED  BY <2>1, <2>3, <3>1, <3>2
  <2> QED  BY <2>2, <2>3
<1>4. Current = 1  BY <1>1, <1>3 DEF Current
<1>5. \A type, s : Of(type, s) = {i \in 1 .. n : lines[i].type = type /\ (s = IF i < 6 THEN 0 ELSE 1)}
  BY <1>1, <1>3 DEF Of
<1>6. \A j \in 1 .. n : /\ lines[j].type = "c" <=> j = 4
                        /\ lines[j].type = "dir" <=> j = n
                        /\ lines[j].type = "rtpmap" <=> event /\ j = 7
  <2>1. \A j \in 1 .. n : j \in {1, 2, 3, 4, 5, 6, 7} \/ j = n  BY <1>1
  <2>2. n # 7 => lines[7].type = "rtpmap"  BY <1>1
  <2> QED  BY <1>1, <2>1, <2>2
<1>7. /\ Of("c", 0) = {4} /\ Of("c", 1) = {} /\ Of("m", 1) = {6} /\ Of("dir", 1) = {n}
      /\ Of("rtpmap", 1) = IF event THEN {7} ELSE {}
  <2>1. Of("c", 0) = {4} /\ Of("c", 1) = {}  BY <1>1, <1>5, <1>6
  <2>2. Of("m", 1) = {6}  BY <1>1, <1>2, <1>5
  <2>3. Of("dir", 1) = {n}  BY <1>1, <1>5, <1>6
  <2>4. Of("rtpmap", 1) = IF event THEN {7} ELSE {}
    <3>1. CASE event  BY <1>1, <1>5, <1>6, <3>1
    <3>2. CASE ~event  BY <1>1, <1>5, <1>6, <3>2
    <3> QED  BY <3>1, <3>2
  <2> QED  BY <2>1, <2>2, <2>3, <2>4
<1>8. \A k \in Nat : Max({k}) = k
  <2>1. \A k \in Nat : \A x \in {k} : \A y \in {k} : x >= y  OBVIOUS
  <2> QED  BY <2>1 DEF Max
<1>9. ASSUME NEW k \in Nat PROVE LastOf({k}) = {lines[k].value}
  BY <1>8 DEF LastOf
<1>10. LastOf({}) = {}  BY DEF LastOf
<1>11. n \in Nat /\ {n} # {}  BY <1>1
<1> QED  BY <1>4, <1>7, <1>9, <1>10, <1>11

\* What is built is read as it was meant.
LEMMA BuiltAsMeant ==
    ASSUME ParserInv
    PROVE  BuiltIsRead(Finished(parser))
<1> DEFINE d == Finished(parser)
           M == d.media[1]
<1> SUFFICES ASSUME NEW a \in Addresses, NEW port \in Ports, NEW list \in PayloadLists, NEW event \in BOOLEAN,
                    NEW dir \in Directions, lines = Build(a, port, list, event, AnswerDirection(dir))
             PROVE  LET telephone == IF event THEN {TelephoneEvent} ELSE {} IN
                    /\ d.has = Mandatory /\ RtpAddr(d) = {<<a, port>>}
                    /\ AnswerDirection(AudioDirection(d)) = dir
                    /\ IsOnHold(d) <=> port = 0 \/ a = Unspecified
                                       \/ AnswerDirection(dir) \in {"sendonly", "inactive"}
                    /\ TelephoneEventPt(d) = telephone
                    /\ \A prefs \in PayloadLists :
                          LET common == ToSet(prefs) \intersect (ToSet(list) \union telephone)
                          IN  /\ NegotiateCodec(d, prefs) \subseteq common
                              /\ NegotiateCodec(d, prefs) = {} => common = {}
  BY DEF BuiltIsRead
<1> DEFINE telephone == IF event THEN {TelephoneEvent} ELSE {}
           payloads == IF event THEN Append(list, TelephoneEvent) ELSE list
           answer == AnswerDirection(dir)
<1>1. answer \in Directions /\ AnswerDirection(answer) = dir  BY DEF AnswerDirection, Directions
<1>2. /\ lines \in Seq(ReadLines) /\ Len(lines) = IF event THEN 8 ELSE 7
      /\ lines[1] = Line("v", "any") /\ lines[2] = Line("o", "any") /\ lines[3] = Line("s", "any")
      /\ lines[4] = Line("c", a) /\ lines[5] = Line("t", "any")
      /\ lines[6] = Line("m", MediaLine("audio", port, payloads))
      /\ event => lines[7] = Line("rtpmap", TelephoneEvent) /\ lines[8] = Line("dir", answer)
      /\ ~event => lines[7] = Line("dir", answer)
  BY <1>1, BuildLines
<1> HIDE DEF payloads, answer
<1>3. /\ lines[1].type = "v" /\ lines[2].type = "o" /\ lines[3].type = "s" /\ lines[4].type = "c"
      /\ lines[5].type = "t" /\ lines[6].type = "m"
      /\ event => lines[7].type = "rtpmap" /\ lines[8].type = "dir"
      /\ ~event => lines[7].type = "dir"
  BY <1>2 DEF Line
<1>4. /\ lines[4].value = a /\ lines[6].value = MediaLine("audio", port, payloads)
      /\ lines[Len(lines)].value = answer /\ (event => lines[7].value = TelephoneEvent)
  <2>1. \A type, value : Line(type, value).value = value  BY DEF Line
  <2>2. lines[4].value = a /\ lines[6].value = MediaLine("audio", port, payloads)  BY <1>2, <2>1
  <2>3. ASSUME event PROVE lines[7].value = TelephoneEvent
    <3>1. lines[7] = Line("rtpmap", TelephoneEvent)  BY <1>2, <2>3
    <3> QED  BY <2>1, <3>1
  <2>4. lines[Len(lines)] = Line("dir", answer)
    <3>1. CASE event  BY <1>2, <3>1
    <3>2. CASE ~event  BY <1>2, <3>2
    <3> QED  BY <3>1, <3>2
  <2> QED  BY <2>1, <2>2, <2>3, <2>4
<1>5. /\ Current = 1
      /\ LastOf(Of("c", 0)) = {a} /\ LastOf(Of("c", 1)) = {}
      /\ LastOf(Of("m", 1)) = {MediaLine("audio", port, payloads)}
      /\ Of("dir", 1) # {} /\ LastOf(Of("dir", 1)) = {answer}
      /\ Of("rtpmap", 1) = IF event THEN {7} ELSE {}
  BY <1>2, <1>3, <1>4, BuiltSections
<1>6. ~parser.failed
  <2>1. \A j \in DOMAIN lines : j \in {1, 2, 3, 4, 5, 6, 7} \/ (event /\ j = 8)  BY <1>2
  <2>2. \A j \in DOMAIN lines : lines[j].type # "bad"
    <3>1. CASE event  BY <1>3, <2>1, <3>1
    <3>2. CASE ~event  BY <1>3, <2>1, <3>2
    <3> QED  BY <3>1, <3>2
  <2> QED  BY <2>2 DEF ParserInv
<1>7. parser.has = Mandatory
  <2>1. {"v", "o", "s"} \subseteq {lines[j].type : j \in DOMAIN lines}
    <3>1. 1 \in DOMAIN lines /\ 2 \in DOMAIN lines /\ 3 \in DOMAIN lines  BY <1>2
    <3> QED  BY <1>3, <3>1
  <2>2. parser.has = Mandatory \intersect {lines[j].type : j \in DOMAIN lines}
    BY <1>6 DEF ParserInv, SectionsMean
  <2> QED  BY <2>1, <2>2 DEF Mandatory
<1>8. /\ d.has = Mandatory /\ d.connection = {a} /\ DOMAIN d.media = {1} /\ Len(d.media) = 1
      /\ d.media \in Seq(MediaTypes)
  <2>1. d.has = parser.has /\ d.connection = parser.connection /\ DOMAIN d.media = 1 .. Current
        /\ Len(d.media) = Current /\ d.media \in Seq(MediaTypes)
    BY <1>6, FinishedMedia
  <2>2. parser.connection = LastOf(Of("c", 0))  BY <1>6 DEF ParserInv, SectionsMean
  <2> QED  BY <1>5, <1>7, <2>1, <2>2
<1>9. PICK x \in MediaTypes :
         /\ Means(x, 1) /\ M.kind = x.kind /\ M.port = x.port /\ M.payloads = x.payloads
         /\ M.connection = x.connection /\ M.rtpmap = x.rtpmap
         /\ {M.direction} = IF x.explicit \/ parser.direction = {} THEN {x.direction} ELSE parser.direction
  <2>1. 1 \in DOMAIN d.media  BY <1>8
  <2> QED  BY <1>6, <2>1, FinishedMedia
<1> HIDE DEF d
<1>10. M.kind = "audio" /\ M.port = port /\ M.payloads = payloads
  <2>1. MediaLine(x.kind, x.port, x.payloads) = MediaLine("audio", port, payloads)  BY <1>5, <1>9 DEF Means
  <2> QED  BY <1>9, <2>1 DEF MediaLine
<1>11. M.connection = {} /\ M.direction = answer
  BY <1>5, <1>9 DEF Means
<1>12. M.rtpmap = telephone
  <2>1. M.rtpmap = {lines[j].value : j \in Of("rtpmap", 1)}  BY <1>9 DEF Means
  <2> HIDE DEF M
  <2>2. CASE event
    <3>1. Of("rtpmap", 1) = {7} /\ lines[7].value = TelephoneEvent  BY <1>4, <1>5, <2>2
    <3>2. {lines[j].value : j \in {7}} = {lines[7].value}  OBVIOUS
    <3>3. M.rtpmap = {TelephoneEvent}  BY <2>1, <3>1, <3>2
    <3> QED  BY <2>2, <3>3
  <2>3. CASE ~event
    <3>1. Of("rtpmap", 1) = {}  BY <1>5, <2>3
    <3>2. M.rtpmap = {}  BY <2>1, <3>1
    <3> QED  BY <2>3, <3>2
  <2> QED  BY <2>2, <2>3
<1>13. Audio(d) = {M}
  <2>1. {k \in DOMAIN d.media : d.media[k].kind = "audio" /\ \A j \in 1 .. k - 1 : ~(d.media[j].kind = "audio")} = {1}
    BY <1>8, <1>10
  <2> QED  BY <2>1 DEF Audio, Find
<1> HIDE DEF M, telephone
<1>14. ConnectionOf(d, M) = {a}  BY <1>8, <1>11 DEF ConnectionOf
<1>15. RtpAddr(d) = {<<a, port>>}
  <2>1. {<<b, M.port>> : b \in ConnectionOf(d, M)} = {<<a, port>>}  BY <1>10, <1>14
  <2>2. {{<<b, m.port>> : b \in ConnectionOf(d, m)} : m \in Audio(d)} = {{<<a, port>>}}  BY <1>13, <2>1
  <2> QED  BY <2>2 DEF RtpAddr
<1>16. AnswerDirection(AudioDirection(d)) = dir  BY <1>1, <1>11, <1>13 DEF AudioDirection
<1>17. IsOnHold(d) <=> port = 0 \/ a = Unspecified \/ answer \in {"sendonly", "inactive"}
  BY <1>10, <1>11, <1>13, <1>14 DEF IsOnHold, HeldMedia
<1>18. TelephoneEventPt(d) = telephone  BY <1>12, <1>13 DEF TelephoneEventPt
<1>19. ASSUME NEW prefs \in PayloadLists
       PROVE  LET common == ToSet(prefs) \intersect (ToSet(list) \union telephone)
              IN  /\ NegotiateCodec(d, prefs) \subseteq common
                  /\ NegotiateCodec(d, prefs) = {} => common = {}
  <2> DEFINE T == ToSet(list) \union telephone
             found == {prefs[i] : i \in {k \in DOMAIN prefs : prefs[k] \in T /\ \A j \in 1 .. k - 1 : ~(prefs[j] \in T)}}
  <2>1. prefs \in Seq(Nat) /\ list \in Seq(Nat)  BY SdpAssumption
  <2>2. ASSUME NEW pt PROVE Contains(M.payloads, pt) <=> pt \in T
    <3>1. CASE event
      <4>1. payloads = Append(list, TelephoneEvent)  BY <3>1 DEF payloads
      <4>2. Len(payloads) = Len(list) + 1 /\ payloads[Len(list) + 1] = TelephoneEvent
            /\ \A i \in 1 .. Len(list) : payloads[i] = list[i]
        <5>1. TelephoneEvent \in Nat  BY DEF TelephoneEvent
        <5> QED  BY <2>1, <4>1, <5>1, AppendProperties
      <4> HIDE DEF T, found
      <4>3. Len(list) \in Nat /\ DOMAIN list = 1 .. Len(list)  BY <2>1
      <4>4. (\E i \in 1 .. Len(payloads) : payloads[i] = pt) <=>
              (pt = TelephoneEvent \/ \E i \in 1 .. Len(list) : list[i] = pt)
        <5>1. ASSUME NEW i \in 1 .. Len(payloads), payloads[i] = pt
              PROVE  pt = TelephoneEvent \/ \E j \in 1 .. Len(list) : list[j] = pt
          <6>1. CASE i = Len(list) + 1  BY <4>2, <5>1, <6>1
          <6>2. CASE i # Len(list) + 1
            <7>1. i \in 1 .. Len(list)  BY <4>2, <4>3, <6>2
            <7> QED  BY <4>2, <5>1, <7>1
          <6> QED  BY <6>1, <6>2
        <5>2. ASSUME pt = TelephoneEvent PROVE \E i \in 1 .. Len(payloads) : payloads[i] = pt
          <6>1. Len(list) + 1 \in 1 .. Len(payloads)  BY <4>2, <4>3
          <6> QED  BY <4>2, <5>2, <6>1
        <5>3. ASSUME NEW j \in 1 .. Len(list), list[j] = pt PROVE \E i \in 1 .. Len(payloads) : payloads[i] = pt
          <6>1. j \in 1 .. Len(payloads) /\ payloads[j] = pt  BY <4>2, <4>3, <5>3
          <6> QED  BY <6>1
        <5> QED  BY <5>1, <5>2, <5>3
      <4>5. pt \in ToSet(list) <=> \E i \in 1 .. Len(list) : list[i] = pt  BY <4>3 DEF ToSet
      <4>6. telephone = {TelephoneEvent}  BY <3>1 DEF telephone
      <4> QED  BY <1>10, <4>4, <4>5, <4>6 DEF Contains, T
    <3>2. CASE ~event
      BY <1>10, <2>1, <3>2 DEF Contains, ToSet, telephone, payloads
    <3> QED  BY <3>1, <3>2
  <2> HIDE DEF T
  <2> DEFINE F(m) == {prefs[i] : i \in {k \in DOMAIN prefs :
                 Contains(m.payloads, prefs[k]) /\ \A j \in 1 .. k - 1 : ~Contains(m.payloads, prefs[j])}}
  <2>3. F(M) = found  BY <2>2
  <2>4. NegotiateCodec(d, prefs) = found
    <3>1. NegotiateCodec(d, prefs) = UNION {F(m) : m \in Audio(d)}  BY DEF NegotiateCodec, Find
    <3> HIDE DEF F, found
    <3> QED  BY <1>13, <2>3, <3>1
  <2>5. found \subseteq ToSet(prefs) \intersect T /\ (found = {} => ToSet(prefs) \intersect T = {})
    BY <2>1, FirstFound
  <2> QED  BY <2>4, <2>5 DEF T
<1> QED  BY <1>8, <1>15, <1>16, <1>17, <1>18, <1>19 DEF d, telephone, answer

LEMMA InvAsMeant == ParserInv => ReadAsMeant
<1> SUFFICES ASSUME ParserInv PROVE ReadAsMeant
  OBVIOUS
<1>1. BuiltIsRead(Finished(parser))  BY BuiltAsMeant
<1>2. Parses(parser) <=> /\ Mandatory \subseteq {lines[i].type : i \in DOMAIN lines}
                         /\ \A i \in DOMAIN lines : lines[i].type # "bad"
  BY DEF ParserInv, SectionsMean, Parses
<1>3. Finished(parser).failed <=> parser.failed
  <2>1. parser \in ParserTypes  BY DEF ParserInv
  <2> QED  BY <2>1 DEF Finished, Propagated, Closed, ParserTypes
<1> QED  BY <1>1, <1>2, <1>3, SectionsAsMeant DEF ReadAsMeant

\* Every media of a description means what the lines of its section say, else what those
\* of the session say, and what is built is read as it was meant; for descriptions of any
\* length, and any addresses, ports and payload types (Sdp::parse, SdpBuilder::build).
THEOREM ReadAsMeantHolds == SdpSpec => []ReadAsMeant
<1>1. SdpInit => ParserInv  BY ParserStarts
<1>2. ParserInv /\ [SdpNext]_sdpVars => ParserInv'  BY ParserMoves
<1>3. ParserInv => ReadAsMeant  BY InvAsMeant
<1> QED  BY <1>1, <1>2, <1>3, PTL DEF SdpSpec
=============================================================================
