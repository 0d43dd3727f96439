----------------------------- MODULE TextProofs -----------------------------
(***************************************************************************)
(* Theorems about texts: escaping and unescaping, splitting and joining,   *)
(* rows and lines, commands, for texts of any length and any characters.   *)
(***************************************************************************)
EXTENDS Wire, SequenceInduction

-----------------------------------------------------------------------------
(* Escaping *)

\* What may stand in an escaped text.
Safe == Char \ {" ", "|", "\n", "\r"}

\* What the characters in P are replaced by when the others are left.
PartCoded(P) == [c \in Char |-> IF c \in P THEN <<"\\", Manual[c]>> ELSE <<c>>]

Coded == PartCoded(DOMAIN Manual)

LEMMA ManualFacts ==
    /\ DOMAIN Manual = {"\\", "/", " ", "|", "BEL", "BS", "\f", "\n", "\r", "\t", "VT"}
    /\ DOMAIN Manual \subseteq Char /\ "\\" \in Safe
    /\ \A c \in DOMAIN Manual : Manual[c] \in Safe /\ (Manual[c] = "\\" <=> c = "\\")
    /\ \A c, d \in DOMAIN Manual : Manual[c] = Manual[d] => c = d
<1>1. DOMAIN Manual = {"\\", "/", " ", "|", "BEL", "BS", "\f", "\n", "\r", "\t", "VT"}
  BY DEF Manual
<1>2. DOMAIN Manual \subseteq Char /\ "\\" \in Safe
  BY <1>1, WireAssumption DEF Safe
<1>3. /\ Manual["\\"] = "\\" /\ Manual["/"] = "/" /\ Manual[" "] = "s" /\ Manual["|"] = "p"
      /\ Manual["BEL"] = "a" /\ Manual["BS"] = "b" /\ Manual["\f"] = "f" /\ Manual["\n"] = "n"
      /\ Manual["\r"] = "r" /\ Manual["\t"] = "t" /\ Manual["VT"] = "v"
  BY DEF Manual
<1>4. {"\\", "/", "s", "p", "a", "b", "f", "n", "r", "t", "v"} \subseteq Safe
  BY WireAssumption DEF Safe
<1> HIDE DEF Safe, Manual
<1>5. \A c \in DOMAIN Manual : Manual[c] \in Safe
  BY <1>1, <1>3, <1>4
<1>6. \A c \in DOMAIN Manual : Manual[c] = "\\" <=> c = "\\"
  BY <1>1, <1>3
<1>7. \A c, d \in DOMAIN Manual : Manual[c] = Manual[d] => c = d
  <2> DEFINE Back(code) ==
        CASE code = "\\" -> "\\" [] code = "/" -> "/" [] code = "s" -> " " [] code = "p" -> "|"
          [] code = "a" -> "BEL" [] code = "b" -> "BS" [] code = "f" -> "\f" [] code = "n" -> "\n"
          [] code = "r" -> "\r" [] code = "t" -> "\t" [] code = "v" -> "VT"
  <2>1. \A c \in DOMAIN Manual : Back(Manual[c]) = c
    BY <1>1, <1>3
  <2> HIDE DEF Back
  <2> QED BY <2>1
<1> QED BY <1>1, <1>2, <1>5, <1>6, <1>7

LEMMA PartCodedFacts ==
    ASSUME NEW P, P \subseteq DOMAIN Manual
    PROVE  /\ PartCoded(P) \in Coding(Char, Char)
           /\ \A c \in Char : PartCoded(P)[c] = IF c \in P THEN <<"\\", Manual[c]>> ELSE <<c>>
<1>1. \A c \in P : Manual[c] \in Char /\ "\\" \in Char
  BY ManualFacts DEF Safe
<1>2. \A c \in Char : (IF c \in P THEN <<"\\", Manual[c]>> ELSE <<c>>) \in Seq(Char)
  BY <1>1
<1> QED BY <1>2 DEF PartCoded, Coding

LEMMA CodedFacts ==
    /\ Coded \in Coding(Char, Safe) /\ Coded \in Coding(Char, Char)
    /\ \A c \in Char : Coded[c] = IF c \in DOMAIN Manual THEN <<"\\", Manual[c]>> ELSE <<c>>
<1>1. ASSUME NEW c \in Char
      PROVE  (IF c \in DOMAIN Manual THEN <<"\\", Manual[c]>> ELSE <<c>>) \in Seq(Safe)
  <2>1. CASE c \in DOMAIN Manual
    <3>1. "\\" \in Safe /\ Manual[c] \in Safe
      BY <2>1, ManualFacts
    <3> QED BY <2>1, <3>1
  <2>2. CASE c \notin DOMAIN Manual
    <3>1. c \in Safe
      BY <2>2, ManualFacts DEF Safe
    <3> QED BY <2>2, <3>1
  <2> QED BY <2>1, <2>2
<1>2. Coded \in Coding(Char, Safe)
  BY <1>1 DEF Coded, PartCoded, Coding
<1> QED BY <1>2, PartCodedFacts DEF Coded

\* The server's way of escaping takes one character after the other.
LEMMA ServerEscapeMapped ==
    ASSUME NEW t \in Seq(Char)
    PROVE  ServerEscape(t) = Mapped(t, Coded) /\ ServerEscape(t) \in Seq(Safe)
<1>1. \A i \in DOMAIN t : t[i] \in Char
  OBVIOUS
<1>2. [i \in DOMAIN t |-> IF t[i] \in DOMAIN Manual THEN <<"\\", Manual[t[i]]>> ELSE <<t[i]>>]
         = [i \in DOMAIN t |-> Coded[t[i]]]
  BY <1>1, CodedFacts, Zenon
<1>3. ServerEscape(t) = Mapped(t, Coded)
  BY <1>2, Zenon DEF ServerEscape, Mapped
<1> QED BY <1>3, CodedFacts, MappedType, Zenon

\* One replacement more, after those of P.
LEMMA ReplaceStep ==
    ASSUME NEW P, P \subseteq DOMAIN Manual, NEW char \in DOMAIN Manual, char \notin P,
           char # "\\" \/ P = {}, \A c \in P : Manual[c] # char, NEW t \in Seq(Char),
           NEW Q, Q = P \cup {char}
    PROVE  Replace(Mapped(t, PartCoded(P)), char, Manual[char]) = Mapped(t, PartCoded(Q))
<1>0. {char} \subseteq DOMAIN Manual /\ Q \subseteq DOMAIN Manual
  OBVIOUS
<1>a. PICK F \in Coding(Char, Char) :
         \A c \in Char : F[c] = IF c = char THEN <<"\\", Manual[char]>> ELSE <<c>>
  <2>1. PartCoded({char}) \in Coding(Char, Char)
    BY <1>0, PartCodedFacts
  <2>2. \A c \in Char : PartCoded({char})[c] = IF c \in {char} THEN <<"\\", Manual[c]>> ELSE <<c>>
    BY <1>0, PartCodedFacts
  <2> QED BY <2>1, <2>2
<1>b. PICK E \in Coding(Char, Char) : E = PartCoded(P)
  BY PartCodedFacts
<1>c. PICK H \in Coding(Char, Char) : H = PartCoded(Q)
  BY <1>0, PartCodedFacts
<1>d. \A c \in Char : E[c] = IF c \in P THEN <<"\\", Manual[c]>> ELSE <<c>>
  BY <1>b, PartCodedFacts
<1>e. \A c \in Char : H[c] = IF c \in Q THEN <<"\\", Manual[c]>> ELSE <<c>>
  BY <1>0, <1>c, PartCodedFacts
<1>2. PICK u \in Seq(Char) : u = Mapped(t, E)
  BY MappedType
<1>3. Replace(u, char, Manual[char]) = Mapped(u, F)
  <2>1. \A i \in DOMAIN u : u[i] \in Char
    OBVIOUS
  <2>2. [i \in DOMAIN u |-> IF u[i] = char THEN <<"\\", Manual[char]>> ELSE <<u[i]>>]
           = [i \in DOMAIN u |-> F[u[i]]]
    BY <1>a, <2>1, Zenon
  <2> QED BY <2>2, Zenon DEF Replace, Mapped
<1>4. ASSUME NEW c \in Char PROVE H[c] = Mapped(E[c], F)
  <2>1. CASE c \in P
    <3>1. PICK code \in Char : code = Manual[c] /\ code # char /\ "\\" \in Char /\ char # "\\"
      BY <2>1, ManualFacts DEF Safe
    <3>2. Mapped(<<"\\", code>>, F) = F["\\"] \o F[code]
      <4>1. "\\" \in Char
        BY <3>1
      <4> QED BY <4>1, MappedTwo
    <3>3. F["\\"] = <<"\\">> /\ F[code] = <<code>>
      BY <1>a, <3>1, Zenon
    <3>4. <<"\\">> \o <<code>> = <<"\\", code>>
      BY <3>1, PairConcat
    <3>5. c \in Q
      BY <2>1
    <3> QED BY <1>d, <1>e, <2>1, <3>1, <3>2, <3>3, <3>4, <3>5, Zenon
  <2>2. CASE c \notin P
    <3>1. E[c] = <<c>>
      BY <1>d, <2>2, Zenon
    <3>2. Mapped(<<c>>, F) = F[c]
      BY MappedOne
    <3>3. H[c] = F[c]
      <4>1. c \in Q <=> c = char
        BY <2>2
      <4> QED BY <1>a, <1>e, <4>1, Zenon
    <3> QED BY <3>1, <3>2, <3>3, Zenon
  <2> QED BY <2>1, <2>2
<1>5. Mapped(Mapped(t, E), F) = Mapped(t, H)
  BY <1>4, MappedTwice
<1> QED BY <1>b, <1>c, <1>2, <1>3, <1>5

LEMMA UpTo ==
    ASSUME NEW i \in Nat, i # 0
    PROVE  1 .. i # {} /\ Max(1 .. i) = i /\ (1 .. i) \ {Max(1 .. i)} = 1 .. (i - 1)
<1>1. i \in 1 .. i /\ 1 .. i \subseteq Nat /\ \A k \in 1 .. i : k <= i
  OBVIOUS
<1>2. Max(1 .. i) = i
  BY <1>1, MaxOf, Zenon
<1>3. (1 .. i) \ {i} = 1 .. (i - 1)
  OBVIOUS
<1> QED BY <1>1, <1>2, <1>3

\* The function that the fold of escape() over its map is.
IsEscapes(f, text) ==
    f = [s \in SUBSET DOMAIN EscapeMap |->
            IF s = {} THEN text
            ELSE Replace(f[s \ {Max(s)}], EscapeMap[Max(s)][1], EscapeMap[Max(s)][2])]

LEMMA EscapeFold == \A text : Escape(text) = (CHOOSE f : IsEscapes(f, text))[DOMAIN EscapeMap]
  BY Zenon DEF Escape, FoldLeft, MapThenFoldSet, IsEscapes

LEMMA EscapeMapFacts ==
    /\ DOMAIN EscapeMap = 1 .. 11
    /\ \A i \in 1 .. 11 : /\ EscapeMap[i][1] \in DOMAIN Manual
                          /\ EscapeMap[i][2] = Manual[EscapeMap[i][1]]
                          /\ EscapeMap[i][2] \in DOMAIN Manual => EscapeMap[i][2] = EscapeMap[i][1]
    /\ \A i, j \in 1 .. 11 : EscapeMap[i][1] = EscapeMap[j][1] => i = j
    /\ EscapeMap[1][1] = "\\"
    /\ \A c \in DOMAIN Manual : \E i \in 1 .. 11 : EscapeMap[i][1] = c
<1> DEFINE Place(c) ==
      CASE c = "\\" -> 1 [] c = "/" -> 2 [] c = " " -> 3 [] c = "|" -> 4 [] c = "BEL" -> 5 [] c = "BS" -> 6
        [] c = "\f" -> 7 [] c = "\n" -> 8 [] c = "\r" -> 9 [] c = "\t" -> 10 [] c = "VT" -> 11
           char(i) == EscapeMap[i][1]
           code(i) == EscapeMap[i][2]
           Fits(i) == /\ char(i) \in DOMAIN Manual /\ Place(char(i)) = i /\ code(i) = Manual[char(i)]
                      /\ code(i) \in DOMAIN Manual => code(i) = char(i)
<1>0. DOMAIN EscapeMap = 1 .. 11
  BY DEF EscapeMap
<1>a. DOMAIN Manual = {"\\", "/", " ", "|", "BEL", "BS", "\f", "\n", "\r", "\t", "VT"}
  BY ManualFacts
<1>1. char(1) = "\\" /\ Fits(1)
  <2>1. EscapeMap[1][1] = "\\" /\ EscapeMap[1][2] = "\\"
    BY DEF EscapeMap
  <2>2. Manual["\\"] = "\\"
    BY DEF Manual
  <2> QED BY <1>a, <2>1, <2>2
<1>2. char(2) = "/" /\ Fits(2)
  <2>1. EscapeMap[2][1] = "/" /\ EscapeMap[2][2] = "/"
    BY DEF EscapeMap
  <2>2. Manual["/"] = "/"
    BY DEF Manual
  <2> QED BY <1>a, <2>1, <2>2
<1>3. char(3) = " " /\ Fits(3)
  <2>1. EscapeMap[3][1] = " " /\ EscapeMap[3][2] = "s"
    BY DEF EscapeMap
  <2>2. Manual[" "] = "s"
    BY DEF Manual
  <2> QED BY <1>a, <2>1, <2>2
<1>4. char(4) = "|" /\ Fits(4)
  <2>1. EscapeMap[4][1] = "|" /\ EscapeMap[4][2] = "p"
    BY DEF EscapeMap
  <2>2. Manual["|"] = "p"
    BY DEF Manual
  <2> QED BY <1>a, <2>1, <2>2
<1>5. char(5) = "BEL" /\ Fits(5)
  <2>1. EscapeMap[5][1] = "BEL" /\ EscapeMap[5][2] = "a"
    BY DEF EscapeMap
  <2>2. Manual["BEL"] = "a"
    BY DEF Manual
  <2> QED BY <1>a, <2>1, <2>2
<1>6. char(6) = "BS" /\ Fits(6)
  <2>1. EscapeMap[6][1] = "BS" /\ EscapeMap[6][2] = "b"
    BY DEF EscapeMap
  <2>2. Manual["BS"] = "b"
    BY DEF Manual
  <2> QED BY <1>a, <2>1, <2>2
<1>7. char(7) = "\f" /\ Fits(7)
  <2>1. EscapeMap[7][1] = "\f" /\ EscapeMap[7][2] = "f"
    BY DEF EscapeMap
  <2>2. Manual["\f"] = "f"
    BY DEF Manual
  <2> QED BY <1>a, <2>1, <2>2
<1>8. char(8) = "\n" /\ Fits(8)
  <2>1. EscapeMap[8][1] = "\n" /\ EscapeMap[8][2] = "n"
    BY DEF EscapeMap
  <2>2. Manual["\n"] = "n"
    BY DEF Manual
  <2> QED BY <1>a, <2>1, <2>2
<1>9. char(9) = "\r" /\ Fits(9)
  <2>1. EscapeMap[9][1] = "\r" /\ EscapeMap[9][2] = "r"
    BY DEF EscapeMap
  <2>2. Manual["\r"] = "r"
    BY DEF Manual
  <2> QED BY <1>a, <2>1, <2>2
<1>10. char(10) = "\t" /\ Fits(10)
  <2>1. EscapeMap[10][1] = "\t" /\ EscapeMap[10][2] = "t"
    BY DEF EscapeMap
  <2>2. Manual["\t"] = "t"
    BY DEF Manual
  <2> QED BY <1>a, <2>1, <2>2
<1>11. char(11) = "VT" /\ Fits(11)
  <2>1. EscapeMap[11][1] = "VT" /\ EscapeMap[11][2] = "v"
    BY DEF EscapeMap
  <2>2. Manual["VT"] = "v"
    BY DEF Manual
  <2> QED BY <1>a, <2>1, <2>2
<1> HIDE DEF Fits
<1>12. \A i \in 1 .. 11 : Fits(i)
  <2> TAKE i \in 1 .. 11
  <2>1. i = 1 \/ i = 2 \/ i = 3 \/ i = 4 \/ i = 5 \/ i = 6 \/ i = 7 \/ i = 8 \/ i = 9 \/ i = 10 \/ i = 11
    OBVIOUS
  <2> QED BY <1>1, <1>2, <1>3, <1>4, <1>5, <1>6, <1>7, <1>8, <1>9, <1>10, <1>11, <2>1
<1>13. \A c \in DOMAIN Manual : \E i \in 1 .. 11 : char(i) = c
  <2> HIDE DEF char
  <2>1. \A i \in {1, 2, 3, 4, 5, 6, 7, 8, 9, 10, 11} : i \in 1 .. 11
    OBVIOUS
  <2> TAKE c \in DOMAIN Manual
  <2> QED BY <1>a, <1>1, <1>2, <1>3, <1>4, <1>5, <1>6, <1>7, <1>8, <1>9, <1>10, <1>11, <2>1
<1> HIDE DEF Place
<1>14. \A i, j \in 1 .. 11 : char(i) = char(j) => i = j
  BY <1>12 DEF Fits
<1> QED BY <1>0, <1>1, <1>12, <1>13, <1>14 DEF Fits

LEMMA ReplaceType ==
    ASSUME NEW t \in Seq(Char), NEW i \in 1 .. 11
    PROVE  Replace(t, EscapeMap[i][1], EscapeMap[i][2]) \in Seq(Char)
<1>1. PICK c \in Char, d \in Char : c = EscapeMap[i][1] /\ d = EscapeMap[i][2]
  <2>1. EscapeMap[i][1] \in Char /\ EscapeMap[i][2] \in Char
    BY EscapeMapFacts, ManualFacts DEF Safe
  <2> QED BY <2>1
<1>2. "\\" \in Char
  BY WireAssumption
<1> DEFINE F == [x \in Char |-> IF x = c THEN <<"\\", d>> ELSE <<x>>]
<1>3. F \in Coding(Char, Char)
  BY <1>2 DEF Coding
<1>4. Replace(t, c, d) = Mapped(t, F)
  <2>1. \A k \in DOMAIN t : t[k] \in Char
    OBVIOUS
  <2>2. [k \in DOMAIN t |-> IF t[k] = c THEN <<"\\", d>> ELSE <<t[k]>>] = [k \in DOMAIN t |-> F[t[k]]]
    BY <2>1, Zenon
  <2> HIDE DEF F
  <2> QED BY <2>2, Zenon DEF Replace, Mapped
<1> HIDE DEF F
<1>5. Mapped(t, F) \in Seq(Char)
  BY <1>3, MappedType
<1> QED BY <1>1, <1>4, <1>5

LEMMA EscapesExist ==
    ASSUME NEW text \in Seq(Char)
    PROVE  \E f : IsEscapes(f, text)
<1>1. DOMAIN EscapeMap = 1 .. 11
  BY DEF EscapeMap
<1> DEFINE G == [x \in (1 .. 11) \X Seq(Char) |-> Replace(x[2], EscapeMap[x[1]][1], EscapeMap[x[1]][2])]
<1>2. G \in [(1 .. 11) \X Seq(Char) -> Seq(Char)]
  BY ReplaceType
<1>3. \A i \in 1 .. 11, t \in Seq(Char) : G[<<i, t>>] = Replace(t, EscapeMap[i][1], EscapeMap[i][2])
  OBVIOUS
<1> HIDE DEF G
<1>4. PICK f \in Folds(11, Seq(Char), text, G) : TRUE
  BY <1>2, FoldExists
<1>5. /\ f \in [SUBSET (1 .. 11) -> Seq(Char)]
      /\ \A s \in SUBSET (1 .. 11) : f[s] = IF s = {} THEN text ELSE G[<<Max(s), f[s \ {Max(s)}]>>]
  BY Zenon DEF Folds
<1>6. ASSUME NEW s \in SUBSET (1 .. 11)
      PROVE  f[s] = IF s = {} THEN text
                    ELSE Replace(f[s \ {Max(s)}], EscapeMap[Max(s)][1], EscapeMap[Max(s)][2])
  <2>1. CASE s = {}
    BY <1>5, <2>1
  <2>2. CASE s # {}
    <3>1. Max(s) \in s
      BY <2>2, MaxIn
    <3>2. f[s \ {Max(s)}] \in Seq(Char)
      BY <1>5
    <3>3. G[<<Max(s), f[s \ {Max(s)}]>>]
             = Replace(f[s \ {Max(s)}], EscapeMap[Max(s)][1], EscapeMap[Max(s)][2])
      BY <1>3, <3>1, <3>2
    <3> QED BY <1>5, <2>2, <3>3
  <2> QED BY <2>1, <2>2
<1>7. IsEscapes(f, text)
  BY <1>1, <1>5, <1>6, Zenon DEF IsEscapes
<1> QED BY <1>7

\* escape.py does what the manual asks for, one character after the other.
LEMMA EscapeMapped ==
    ASSUME NEW text \in Seq(Char)
    PROVE  Escape(text) = Mapped(text, Coded)
<1> DEFINE g == CHOOSE f : IsEscapes(f, text)
           First(i) == {EscapeMap[k][1] : k \in 1 .. i}
<1>1. IsEscapes(g, text)
  BY EscapesExist
<1> HIDE DEF g
<1>2. /\ \A s \in SUBSET (1 .. 11) :
            g[s] = IF s = {} THEN text
                   ELSE Replace(g[s \ {Max(s)}], EscapeMap[Max(s)][1], EscapeMap[Max(s)][2])
      /\ Escape(text) = g[1 .. 11]
  <2>1. g = [s \in SUBSET (1 .. 11) |->
               IF s = {} THEN text
               ELSE Replace(g[s \ {Max(s)}], EscapeMap[Max(s)][1], EscapeMap[Max(s)][2])]
    BY <1>1, EscapeMapFacts, Zenon DEF IsEscapes
  <2>2. \A s \in SUBSET (1 .. 11) :
            g[s] = IF s = {} THEN text
                   ELSE Replace(g[s \ {Max(s)}], EscapeMap[Max(s)][1], EscapeMap[Max(s)][2])
    BY <2>1, Zenon
  <2>3. Escape(text) = g[1 .. 11]
    BY EscapeFold, EscapeMapFacts DEF g
  <2> QED BY <2>2, <2>3
<1> DEFINE Done == {i \in Nat : i <= 11 => g[1 .. i] = Mapped(text, PartCoded(First(i)))}
<1>3. 0 \in Done
  <2>1. First(0) = {} /\ 1 .. 0 = {}
    OBVIOUS
  <2>2. g[{}] = text
    BY <1>2
  <2>3. Mapped(text, PartCoded({})) = text
    <3>1. [i \in DOMAIN text |-> PartCoded({})[text[i]]] = [i \in 1 .. Len(text) |-> <<text[i]>>]
      <4>1. {} \subseteq DOMAIN Manual /\ DOMAIN text = 1 .. Len(text) /\ \A i \in 1 .. Len(text) : text[i] \in Char
        OBVIOUS
      <4>2. \A c \in Char : PartCoded({})[c] = <<c>>
        BY DEF PartCoded
      <4> QED BY <4>1, <4>2
    <3> QED BY <3>1, FlattenSingles DEF Mapped
  <2> QED BY <2>1, <2>2, <2>3
<1>4. ASSUME NEW i \in Nat, i \in Done PROVE i + 1 \in Done
  <2> SUFFICES ASSUME i + 1 <= 11 PROVE g[1 .. i + 1] = Mapped(text, PartCoded(First(i + 1)))
    OBVIOUS
  <2>1. PICK j \in 1 .. 11 : j = i + 1 /\ j - 1 = i
    OBVIOUS
  <2>2. g[1 .. i] = Mapped(text, PartCoded(First(i)))
    BY <1>4
  <2>3. g[1 .. j] = Replace(g[1 .. i], EscapeMap[j][1], EscapeMap[j][2])
    <3>1. 1 .. j # {} /\ Max(1 .. j) = j /\ (1 .. j) \ {Max(1 .. j)} = 1 .. i
      BY <2>1, UpTo
    <3>2. 1 .. j \in SUBSET (1 .. 11)
      OBVIOUS
    <3> QED BY <1>2, <3>1, <3>2, Zenon
  <2>a. \A k \in 1 .. i : k \in 1 .. 11 /\ k # j
    BY <2>1
  <2>b. EscapeMap[j][1] \in DOMAIN Manual /\ EscapeMap[j][2] = Manual[EscapeMap[j][1]]
    BY EscapeMapFacts, Zenon
  <2>c. \A k \in 1 .. i : EscapeMap[k][1] # EscapeMap[j][1] /\ EscapeMap[k][1] \in DOMAIN Manual
    BY <2>a, EscapeMapFacts, Zenon
  <2>d. \A k \in 1 .. i : Manual[EscapeMap[k][1]] # EscapeMap[j][1]
    <3> TAKE k \in 1 .. i
    <3>1. k \in 1 .. 11
      BY <2>a
    <3>2. EscapeMap[k][2] = Manual[EscapeMap[k][1]]
      BY <3>1, EscapeMapFacts, Zenon
    <3>3. EscapeMap[k][2] \in DOMAIN Manual => EscapeMap[k][2] = EscapeMap[k][1]
      BY <3>1, EscapeMapFacts, Zenon
    <3> QED BY <2>b, <2>c, <3>2, <3>3, Zenon
  <2>4. First(i) \subseteq DOMAIN Manual /\ EscapeMap[j][1] \notin First(i)
    BY <2>c
  <2>5. EscapeMap[j][1] # "\\" \/ First(i) = {}
    <3>1. CASE i = 0
      BY <3>1
    <3>2. CASE i # 0
      <4>1. 1 \in 1 .. i
        BY <3>2
      <4> QED BY <2>c, <4>1, EscapeMapFacts, Zenon
    <3> QED BY <3>1, <3>2
  <2>6. \A c \in First(i) : Manual[c] # EscapeMap[j][1]
    BY <2>d
  <2>7. First(j) = First(i) \cup {EscapeMap[j][1]}
    BY <2>1
  <2> HIDE DEF First
  <2>8. Replace(Mapped(text, PartCoded(First(i))), EscapeMap[j][1], EscapeMap[j][2])
           = Mapped(text, PartCoded(First(j)))
    <3>1. PICK P, R, char : P = First(i) /\ R = First(j) /\ char = EscapeMap[j][1]
      OBVIOUS
    <3>2. P \subseteq DOMAIN Manual /\ char \in DOMAIN Manual /\ char \notin P
      BY <2>b, <2>4, <3>1
    <3>3. (char # "\\" \/ P = {}) /\ (\A c \in P : Manual[c] # char) /\ R = P \cup {char}
      BY <2>5, <2>6, <2>7, <3>1
    <3>4. Replace(Mapped(text, PartCoded(P)), char, Manual[char]) = Mapped(text, PartCoded(R))
      BY <3>2, <3>3, ReplaceStep
    <3> QED BY <2>b, <3>1, <3>4
  <2> QED BY <2>1, <2>2, <2>3, <2>8
<1>5. 11 \in Done
  <2> HIDE DEF Done
  <2> QED BY <1>3, <1>4, NatSetInduction
<1>6. First(11) = DOMAIN Manual
  <2>1. First(11) \subseteq DOMAIN Manual
    <3>1. \A k \in 1 .. 11 : EscapeMap[k][1] \in DOMAIN Manual
      BY EscapeMapFacts, Zenon
    <3> QED BY <3>1
  <2>2. DOMAIN Manual \subseteq First(11)
    BY EscapeMapFacts, Zenon
  <2> QED BY <2>1, <2>2
<1> QED BY <1>2, <1>5, <1>6 DEF Coded

-----------------------------------------------------------------------------
(* Unescaping, as the client does it *)

LEMMA UnescapeMapFacts ==
    /\ \A c \in DOMAIN Manual : Manual[c] \in DOMAIN UnescapeMap /\ UnescapeMap[Manual[c]] = c
    /\ \A code \in DOMAIN UnescapeMap : UnescapeMap[code] \in Char
<1>1. ToSet(EscapeMap) = {EscapeMap[i] : i \in 1 .. 11}
  BY EscapeMapFacts DEF ToSet
<1>2. \A pair \in ToSet(EscapeMap) : pair[1] \in DOMAIN Manual /\ pair[2] = Manual[pair[1]]
  <2> TAKE pair \in ToSet(EscapeMap)
  <2>1. PICK i \in 1 .. 11 : pair = EscapeMap[i]
    BY <1>1
  <2> QED BY <2>1, EscapeMapFacts, Zenon
<1>3. \A c \in DOMAIN Manual : \E pair \in ToSet(EscapeMap) : pair[1] = c
  <2> TAKE c \in DOMAIN Manual
  <2>1. PICK i \in 1 .. 11 : EscapeMap[i][1] = c
    BY EscapeMapFacts, Zenon
  <2> QED BY <1>1, <2>1
<1> DEFINE chosen(code) == CHOOSE pair \in ToSet(EscapeMap) : pair[2] = code
<1>4. /\ DOMAIN UnescapeMap = {pair[2] : pair \in ToSet(EscapeMap)}
      /\ \A code \in DOMAIN UnescapeMap : UnescapeMap[code] = chosen(code)[1]
  BY Zenon DEF UnescapeMap
<1>5. \A code \in DOMAIN UnescapeMap : chosen(code) \in ToSet(EscapeMap) /\ chosen(code)[2] = code
  BY <1>4
<1> HIDE DEF chosen
<1>6. ASSUME NEW c \in DOMAIN Manual
      PROVE  Manual[c] \in DOMAIN UnescapeMap /\ UnescapeMap[Manual[c]] = c
  <2>1. PICK pair \in ToSet(EscapeMap) : pair[1] = c
    BY <1>3
  <2>2. pair[2] = Manual[c]
    BY <1>2, <2>1
  <2>3. Manual[c] \in DOMAIN UnescapeMap
    BY <1>4, <2>2
  <2>4. PICK other \in ToSet(EscapeMap) : other = chosen(Manual[c]) /\ other[2] = Manual[c]
    BY <1>5, <2>3
  <2>5. other[1] = c
    BY <1>2, <2>4, ManualFacts, Zenon
  <2> QED BY <1>4, <2>3, <2>4, <2>5
<1>7. \A code \in DOMAIN UnescapeMap : UnescapeMap[code] \in Char
  BY <1>2, <1>4, <1>5, ManualFacts
<1> QED BY <1>6, <1>7

IsEscapeAt(text, i) == text[i] = "\\" /\ i < Len(text) /\ text[i + 1] \in DOMAIN UnescapeMap

\* The function that unescape() is defined by: what the rest from i stands for.
IsUnescaped(f, text) ==
    f = [i \in 1 .. Len(text) + 1 |->
            IF i > Len(text) THEN <<>>
            ELSE IF IsEscapeAt(text, i) THEN <<UnescapeMap[text[i + 1]]>> \o f[i + 2]
                                        ELSE <<text[i]>> \o f[i + 1]]

LEMMA UnescapeChosen == \A text : Unescape(text) = (CHOOSE f : IsUnescaped(f, text))[1]
  BY Zenon DEF Unescape, IsUnescaped, IsEscapeAt

LEMMA UnescapedExists ==
    ASSUME NEW text \in Seq(Char)
    PROVE  \E f : IsUnescaped(f, text)
<1>0. PICK n \in Nat : n = Len(text)
  OBVIOUS
<1>1. \A i \in 1 .. n : text[i] \in Char
  BY <1>0
<1> DEFINE T == Seq(Char)
           First(p, x) == IF IsEscapeAt(text, p) THEN <<UnescapeMap[text[p + 1]]>> \o x[2]
                                                 ELSE <<text[p]>> \o x[1]
           G == [y \in Nat \X (T \X T) |->
                   IF y[1] < n THEN <<First(n - y[1], y[2]), y[2][1]>> ELSE y[2]]
<1>2. ASSUME NEW p \in 1 .. n, NEW x \in T \X T PROVE First(p, x) \in T
  <2>1. x[1] \in T /\ x[2] \in T
    OBVIOUS
  <2>2. <<text[p]>> \in T
    BY <1>1
  <2>3. CASE IsEscapeAt(text, p)
    <3>1. UnescapeMap[text[p + 1]] \in Char
      BY <2>3, UnescapeMapFacts DEF IsEscapeAt
    <3>2. PICK d \in Char : d = UnescapeMap[text[p + 1]]
      BY <3>1
    <3>3. <<d>> \o x[2] \in T
      BY <2>1
    <3> QED BY <2>3, <3>2, <3>3
  <2>4. CASE ~IsEscapeAt(text, p)
    <3>1. <<text[p]>> \o x[1] \in T
      BY <2>1, <2>2
    <3> QED BY <2>4, <3>1
  <2> QED BY <2>3, <2>4
<1> HIDE DEF First, T
<1>3. G \in [Nat \X (T \X T) -> T \X T]
  <2>1. ASSUME NEW y \in Nat \X (T \X T)
        PROVE  (IF y[1] < n THEN <<First(n - y[1], y[2]), y[2][1]>> ELSE y[2]) \in T \X T
    <3>1. y[1] \in Nat /\ y[2] \in T \X T /\ y[2][1] \in T
      OBVIOUS
    <3>2. y[1] < n => n - y[1] \in 1 .. n
      BY <3>1
    <3>3. y[1] < n => First(n - y[1], y[2]) \in T
      BY <1>2, <3>1, <3>2
    <3> QED BY <3>1, <3>3
  <2> QED BY <2>1
<1>4. \A k \in Nat, x \in T \X T :
         k < n => G[<<k, x>>][1] = First(n - k, x) /\ G[<<k, x>>][2] = x[1]
  OBVIOUS
<1> HIDE DEF G
<1>5. PICK h \in [Nat -> T \X T] :
         h[0] = << <<>>, <<>> >> /\ \A k \in Nat : h[k + 1] = G[<<k, h[k]>>]
  <2>0. <<>> \in T
    BY DEF T
  <2>1. << <<>>, <<>> >> \in T \X T
    BY <2>0
  <2>2. IndexedFunctions(T \X T, << <<>>, <<>> >>, G) # {}
    BY <1>3, <2>1, IndexedRecursion
  <2> QED BY <2>2 DEF IndexedFunctions
<1>6. ASSUME NEW k \in Nat, k < n
      PROVE  h[k + 1][1] = First(n - k, h[k]) /\ h[k + 1][2] = h[k][1]
  <2>1. h[k] \in T \X T
    OBVIOUS
  <2> QED BY <1>4, <1>5, <1>6, <2>1
<1> DEFINE f == [i \in 1 .. n + 1 |-> h[n + 1 - i][1]]
<1>7. ASSUME NEW i \in 1 .. n + 1
      PROVE  f[i] = IF i > n THEN <<>>
                    ELSE IF IsEscapeAt(text, i) THEN <<UnescapeMap[text[i + 1]]>> \o f[i + 2]
                                                ELSE <<text[i]>> \o f[i + 1]
  <2>1. CASE i > n
    BY <1>5, <2>1
  <2>2. CASE ~(i > n)
    <3>1. PICK k \in Nat : k = n - i /\ k < n /\ i \in 1 .. n /\ k + 1 = n + 1 - i /\ i + 1 \in 1 .. n + 1
                           /\ k = n + 1 - (i + 1) /\ i = n - k
      BY <2>2
    <3>2. f[i] = First(i, h[k])
      BY <1>6, <3>1
    <3>3. f[i + 1] = h[k][1]
      BY <3>1
    <3>4. IsEscapeAt(text, i) => f[i + 2] = h[k][2]
      <4> SUFFICES ASSUME IsEscapeAt(text, i) PROVE f[i + 2] = h[k][2]
        OBVIOUS
      <4>1. i < n
        BY <1>0 DEF IsEscapeAt
      <4>2. PICK j \in Nat : j = k - 1 /\ j < n /\ j + 1 = k /\ j = n + 1 - (i + 2) /\ i + 2 \in 1 .. n + 1
        BY <3>1, <4>1
      <4>3. h[k][2] = h[j][1]
        BY <1>6, <4>2
      <4> QED BY <4>2, <4>3
    <3> HIDE DEF f
    <3> QED BY <2>2, <3>2, <3>3, <3>4 DEF First
  <2> QED BY <2>1, <2>2
<1>8. f = [i \in 1 .. n + 1 |-> f[i]]
  OBVIOUS
<1> HIDE DEF f
<1>9. f = [i \in 1 .. n + 1 |->
             IF i > n THEN <<>>
             ELSE IF IsEscapeAt(text, i) THEN <<UnescapeMap[text[i + 1]]>> \o f[i + 2]
                                         ELSE <<text[i]>> \o f[i + 1]]
  <2>1. \A i \in 1 .. n + 1 :
           f[i] = IF i > n THEN <<>>
                  ELSE IF IsEscapeAt(text, i) THEN <<UnescapeMap[text[i + 1]]>> \o f[i + 2]
                                              ELSE <<text[i]>> \o f[i + 1]
    BY <1>7
  <2> QED BY <1>8, <2>1, Zenon
<1>10. IsUnescaped(f, text)
  BY <1>0, <1>9, Zenon DEF IsUnescaped
<1> QED BY <1>10

\* A function that unescape() could be defined by, place by place.
Unescapes(f, text, n) ==
    \A i \in 1 .. n :
       f[i] = IF IsEscapeAt(text, i) THEN <<UnescapeMap[text[i + 1]]>> \o f[i + 2]
                                     ELSE <<text[i]>> \o f[i + 1]

Unescaping(text) ==
    {f \in {CHOOSE g : IsUnescaped(g, text)} :
        Unescape(text) = f[1] /\ f[Len(text) + 1] = <<>> /\ Unescapes(f, text, Len(text))}

LEMMA UnescapedFacts ==
    ASSUME NEW text \in Seq(Char)
    PROVE  Unescaping(text) # {}
<1> DEFINE f == CHOOSE g : IsUnescaped(g, text)
<1>0. PICK n \in Nat : n = Len(text)
  OBVIOUS
<1>1. IsUnescaped(f, text)
  BY UnescapedExists
<1>2. Unescape(text) = f[1]
  BY UnescapeChosen
<1>a. PICK h : h = f
  OBVIOUS
<1> HIDE DEF f
<1>3. \A i \in 1 .. n + 1 :
         h[i] = IF i > n THEN <<>>
                ELSE IF IsEscapeAt(text, i) THEN <<UnescapeMap[text[i + 1]]>> \o h[i + 2]
                                            ELSE <<text[i]>> \o h[i + 1]
  <2>1. h = [i \in 1 .. n + 1 |->
               IF i > n THEN <<>>
               ELSE IF IsEscapeAt(text, i) THEN <<UnescapeMap[text[i + 1]]>> \o h[i + 2]
                                           ELSE <<text[i]>> \o h[i + 1]]
    BY <1>0, <1>1, <1>a, Zenon DEF IsUnescaped
  <2> QED BY <2>1, Zenon
<1>4. h[n + 1] = <<>>
  <2>1. n + 1 \in 1 .. n + 1 /\ n + 1 > n
    OBVIOUS
  <2> QED BY <1>3, <2>1, Zenon
<1>5. Unescapes(h, text, n)
  <2>1. ASSUME NEW i \in 1 .. n
        PROVE  h[i] = IF IsEscapeAt(text, i) THEN <<UnescapeMap[text[i + 1]]>> \o h[i + 2]
                                             ELSE <<text[i]>> \o h[i + 1]
    <3>1. i \in 1 .. n + 1 /\ ~(i > n)
      OBVIOUS
    <3> QED BY <1>3, <3>1, Zenon
  <2> QED BY <2>1, Zenon DEF Unescapes
<1>6. h \in Unescaping(text)
  BY <1>0, <1>2, <1>4, <1>5, <1>a, Zenon DEF Unescaping, f
<1> QED BY <1>6

LEMMA UnescapeNone == Unescape(<<>>) = <<>>
<1>1. <<>> \in Seq(Char) /\ Len(<<>>) = 0
  OBVIOUS
<1>2. PICK f \in Unescaping(<<>>) : TRUE
  BY <1>1, UnescapedFacts
<1>3. Unescape(<<>>) = f[1] /\ f[Len(<<>>) + 1] = <<>>
  BY Zenon DEF Unescaping
<1> QED BY <1>1, <1>3

\* What the rest stands for does not depend on what is in front of it.
Shifted(a, s, w) ==
    {f \in Unescaping(w) : f[Len(a) + 1] = Unescape(s)}

LEMMA UnescapedShift ==
    ASSUME NEW a \in Seq(Char), NEW s \in Seq(Char)
    PROVE  Shifted(a, s, a \o s) # {}
<1>0. PICK w, m, n : w = a \o s /\ m = Len(a) /\ n = Len(s)
  OBVIOUS
<1>n. m \in Nat /\ n \in Nat
  BY <1>0
<1> USE <1>n
<1>1. /\ w \in Seq(Char) /\ Len(w) = m + n
      /\ \A i \in 1 .. m + n : w[i] = IF i <= m THEN a[i] ELSE s[i - m]
  BY <1>0, ConcatProperties
<1>a. PICK f \in Unescaping(w) : TRUE
  BY <1>1, UnescapedFacts
<1>2. /\ Unescape(w) = f[1] /\ f[(m + n) + 1] = <<>>
      /\ \A i \in 1 .. m + n :
            f[i] = IF IsEscapeAt(w, i) THEN <<UnescapeMap[w[i + 1]]>> \o f[i + 2]
                                       ELSE <<w[i]>> \o f[i + 1]
  BY <1>1, Zenon DEF Unescaping, Unescapes
<1>b. PICK g \in Unescaping(s) : TRUE
  BY UnescapedFacts
<1>3. /\ Unescape(s) = g[1] /\ g[n + 1] = <<>>
      /\ \A i \in 1 .. n :
            g[i] = IF IsEscapeAt(s, i) THEN <<UnescapeMap[s[i + 1]]>> \o g[i + 2]
                                       ELSE <<s[i]>> \o g[i + 1]
  BY <1>0, Zenon DEF Unescaping, Unescapes
<1> DEFINE Same == {k \in Nat : \A i \in 1 .. n + 1 : i + k >= n + 1 => f[m + i] = g[i]}
<1>4. 0 \in Same
  <2>1. ASSUME NEW i \in 1 .. n + 1, i + 0 >= n + 1 PROVE f[m + i] = g[i]
    <3>1. i = n + 1 /\ m + i = (m + n) + 1
      BY <2>1
    <3> QED BY <1>2, <1>3, <3>1, Zenon
  <2> QED BY <2>1
<1>5. ASSUME NEW k \in Nat, k \in Same PROVE k + 1 \in Same
  <2>1. ASSUME NEW i \in 1 .. n + 1, i + (k + 1) >= n + 1 PROVE f[m + i] = g[i]
    <3>1. CASE i = n + 1
      <4>1. m + i = (m + n) + 1
        BY <3>1
      <4> QED BY <1>2, <1>3, <3>1, <4>1, Zenon
    <3>2. CASE i # n + 1
      <4>0. m + i \in 1 .. m + n
        BY <3>2
      <4>1. PICK j \in 1 .. m + n : /\ j = m + i /\ j + 1 = m + (i + 1) /\ j + 2 = m + (i + 2)
                                    /\ i \in 1 .. n /\ j - m = i /\ ~(j <= m)
        BY <3>2, <4>0
      <4>2. w[j] = s[i]
        BY <1>1, <4>1
      <4>3. j < m + n <=> i < n
        BY <4>1
      <4>4. i < n => w[j + 1] = s[i + 1]
        <5> SUFFICES ASSUME i < n PROVE w[j + 1] = s[i + 1]
          OBVIOUS
        <5>1. j + 1 \in 1 .. m + n /\ ~(j + 1 <= m) /\ j + 1 - m = i + 1
          BY <4>1
        <5> QED BY <1>1, <5>1
      <4>5. IsEscapeAt(w, j) <=> IsEscapeAt(s, i)
        BY <1>0, <1>1, <4>2, <4>3, <4>4 DEF IsEscapeAt
      <4>6. i + 1 \in 1 .. n + 1 /\ (i + 1) + k >= n + 1
        BY <2>1, <4>1
      <4>7. f[j + 1] = g[i + 1]
        BY <1>5, <4>1, <4>6
      <4>8. i < n => f[j + 2] = g[i + 2]
        <5> SUFFICES ASSUME i < n PROVE f[j + 2] = g[i + 2]
          OBVIOUS
        <5>1. i + 2 \in 1 .. n + 1 /\ (i + 2) + k >= n + 1
          BY <4>6
        <5> QED BY <1>5, <4>1, <5>1
      <4>9. IsEscapeAt(s, i) => i < n
        BY <1>0 DEF IsEscapeAt
      <4>10. f[j] = IF IsEscapeAt(w, j) THEN <<UnescapeMap[w[j + 1]]>> \o f[j + 2]
                                        ELSE <<w[j]>> \o f[j + 1]
        BY <1>2, <4>1, Zenon
      <4>11. g[i] = IF IsEscapeAt(s, i) THEN <<UnescapeMap[s[i + 1]]>> \o g[i + 2]
                                        ELSE <<s[i]>> \o g[i + 1]
        BY <1>3, <4>1, Zenon
      <4>12. f[j] = g[i]
        <5>1. CASE IsEscapeAt(s, i)
          BY <4>4, <4>5, <4>8, <4>9, <4>10, <4>11, <5>1, Zenon
        <5>2. CASE ~IsEscapeAt(s, i)
          BY <4>2, <4>5, <4>7, <4>10, <4>11, <5>2, Zenon
        <5> QED BY <5>1, <5>2
      <4> QED BY <4>1, <4>12
    <3> QED BY <3>1, <3>2
  <2> QED BY <2>1
<1>6. n \in Same
  <2> HIDE DEF Same
  <2> QED BY <1>4, <1>5, NatSetInduction
<1>7. f[m + 1] = Unescape(s)
  <2>1. 1 \in 1 .. n + 1 /\ 1 + n >= n + 1
    OBVIOUS
  <2> QED BY <1>3, <1>6, <2>1
<1> HIDE DEF Same
<1>8. f \in Shifted(a, s, w)
  BY <1>0, <1>7, Zenon DEF Shifted
<1> QED BY <1>0, <1>8

LEMMA UnescapePlain ==
    ASSUME NEW c \in Char, c # "\\", NEW s \in Seq(Char)
    PROVE  Unescape(<<c>> \o s) = <<c>> \o Unescape(s)
<1>1. PICK n, a, w : n = Len(s) /\ a = <<c>> /\ w = a \o s
  OBVIOUS
<1>2. a \in Seq(Char) /\ Len(a) = 1 /\ n \in Nat /\ Len(w) = 1 + n /\ w[1] = c /\ 1 \in 1 .. Len(w)
  BY <1>1
<1>3. PICK f \in Shifted(a, s, w) : TRUE
  BY <1>1, <1>2, UnescapedShift
<1>4. /\ Unescape(w) = f[1] /\ f[Len(a) + 1] = Unescape(s)
      /\ f[1] = IF IsEscapeAt(w, 1) THEN <<UnescapeMap[w[1 + 1]]>> \o f[1 + 2]
                                    ELSE <<w[1]>> \o f[1 + 1]
  BY <1>2, Zenon DEF Shifted, Unescaping, Unescapes
<1>5. ~IsEscapeAt(w, 1)
  BY <1>2 DEF IsEscapeAt
<1> QED BY <1>1, <1>2, <1>4, <1>5, Zenon

LEMMA UnescapeCode ==
    ASSUME NEW code \in DOMAIN UnescapeMap, code \in Char, NEW s \in Seq(Char)
    PROVE  Unescape(<<"\\", code>> \o s) = <<UnescapeMap[code]>> \o Unescape(s)
<1>0. "\\" \in Char
  BY WireAssumption
<1>1. PICK n, a, w : n = Len(s) /\ a = <<"\\", code>> /\ w = a \o s
  OBVIOUS
<1>2. /\ a \in Seq(Char) /\ Len(a) = 2 /\ n \in Nat /\ Len(w) = 2 + n /\ 1 \in 1 .. Len(w)
      /\ w[1] = "\\" /\ w[1 + 1] = code
  BY <1>0, <1>1
<1>3. PICK f \in Shifted(a, s, w) : TRUE
  BY <1>1, <1>2, UnescapedShift
<1>4. /\ Unescape(w) = f[1] /\ f[Len(a) + 1] = Unescape(s)
      /\ f[1] = IF IsEscapeAt(w, 1) THEN <<UnescapeMap[w[1 + 1]]>> \o f[1 + 2]
                                    ELSE <<w[1]>> \o f[1 + 1]
  BY <1>2, Zenon DEF Shifted, Unescaping, Unescapes
<1>5. IsEscapeAt(w, 1)
  BY <1>2 DEF IsEscapeAt
<1>6. 1 + 2 = Len(a) + 1
  BY <1>2
<1> QED BY <1>1, <1>2, <1>4, <1>5, <1>6, Zenon

\* What the server has escaped, the client reads back, whatever it was.
THEOREM UnescapeServerEscape ==
    ASSUME NEW text \in Seq(Char)
    PROVE  Unescape(ServerEscape(text)) = text
<1> DEFINE T == {t \in Seq(Char) : Unescape(Mapped(t, Coded)) = t}
<1>1. <<>> \in T
  BY MappedNone, UnescapeNone
<1>2. ASSUME NEW s \in Seq(Char), NEW c \in Char, s \in T PROVE <<c>> \o s \in T
  <2>1. PICK x, y : x = Mapped(s, Coded) /\ y = Mapped(<<c>> \o s, Coded)
    OBVIOUS
  <2>2. Coded \in Coding(Char, Char) /\ <<c>> \in Seq(Char) /\ <<c>> \o s \in Seq(Char)
    BY CodedFacts
  <2>3. Unescape(x) = s /\ x \in Seq(Char)
    BY <1>2, <2>1, <2>2, MappedType
  <2>4. y = Coded[c] \o x
    <3>1. Mapped(<<c>> \o s, Coded) = Mapped(<<c>>, Coded) \o Mapped(s, Coded)
      BY <2>2, MappedConcat
    <3>2. Mapped(<<c>>, Coded) = Coded[c]
      BY <2>2, MappedOne
    <3> QED BY <2>1, <3>1, <3>2
  <2>5. CASE c \in DOMAIN Manual
    <3>1. PICK code : code = Manual[c] /\ code \in DOMAIN UnescapeMap /\ UnescapeMap[code] = c /\ code \in Char
      BY <2>5, UnescapeMapFacts, ManualFacts DEF Safe
    <3>2. Coded[c] = <<"\\", code>>
      BY <2>5, <3>1, CodedFacts
    <3>3. Unescape(y) = <<c>> \o s
      BY <2>3, <2>4, <3>1, <3>2, UnescapeCode
    <3> QED BY <2>1, <2>2, <3>3
  <2>6. CASE c \notin DOMAIN Manual
    <3>1. Coded[c] = <<c>> /\ c # "\\"
      BY <2>6, CodedFacts, ManualFacts
    <3>2. Unescape(y) = <<c>> \o s
      BY <2>3, <2>4, <3>1, UnescapePlain
    <3> QED BY <2>1, <2>2, <3>2
  <2> QED BY <2>5, <2>6
<1>3. Seq(Char) \subseteq T
  <2> HIDE DEF T
  <2> QED BY <1>1, <1>2, SeqFrontInduction
<1> QED BY <1>3, ServerEscapeMapped

\* The n characters in front of place i are all the backslashes there are.
IsRun(word, i, n) ==
    /\ \A k \in i - n .. i - 1 : word[k] = "\\"
    /\ n < i - 1 => word[i - n - 1] # "\\"

BackRun(word, i) == CHOOSE n \in 0 .. i - 1 : IsRun(word, i, n)

RawOf(code) == CHOOSE c \in DOMAIN Manual : Manual[c] = code

PieceAt(word, i) ==
    IF BackRun(word, i) % 2 = 1 THEN <<RawOf(word[i])>> ELSE IF word[i] = "\\" THEN <<>> ELSE <<word[i]>>

LEMMA ServerUnescapeChosen ==
    \A word : ServerUnescape(word) = FlattenSeq([i \in DOMAIN word |-> PieceAt(word, i)])
  BY Zenon DEF ServerUnescape, PieceAt, RawOf, BackRun, IsRun

LEMMA RunUnique ==
    ASSUME NEW word, NEW i \in Nat, NEW n \in 0 .. i - 1, IsRun(word, i, n)
    PROVE  BackRun(word, i) = n
<1>1. ASSUME NEW a \in 0 .. i - 1, NEW b \in 0 .. i - 1, IsRun(word, i, a), IsRun(word, i, b), a < b
      PROVE  FALSE
  <2>1. i - a - 1 \in i - b .. i - 1 /\ a < i - 1
    BY <1>1
  <2> QED BY <1>1, <2>1 DEF IsRun
<1>2. \A m \in 0 .. i - 1 : IsRun(word, i, m) => m = n
  <2> TAKE m \in 0 .. i - 1
  <2>1. m < n \/ n < m \/ m = n
    OBVIOUS
  <2> QED BY <1>1, <2>1
<1>3. IsRun(word, i, BackRun(word, i)) /\ BackRun(word, i) \in 0 .. i - 1
  BY Zenon DEF BackRun
<1> QED BY <1>2, <1>3

LEMMA RunExists ==
    ASSUME NEW word, NEW m \in Nat
    PROVE  \E n \in 0 .. m : IsRun(word, m + 1, n)
<1> DEFINE T == {k \in Nat : \E n \in 0 .. k : IsRun(word, k + 1, n)}
<1>1. 0 \in T
  <2>1. IsRun(word, 0 + 1, 0) /\ 0 \in 0 .. 0
    BY DEF IsRun
  <2> QED BY <2>1
<1>2. ASSUME NEW k \in Nat, k \in T PROVE k + 1 \in T
  <2>1. PICK n \in 0 .. k : IsRun(word, k + 1, n)
    BY <1>2
  <2>2. CASE word[k + 1] = "\\"
    <3>1. IsRun(word, (k + 1) + 1, n + 1)
      <4>1. ASSUME NEW j \in (k + 1) + 1 - (n + 1) .. (k + 1) + 1 - 1 PROVE word[j] = "\\"
        <5>1. j = k + 1 \/ j \in (k + 1) - n .. (k + 1) - 1
          OBVIOUS
        <5> QED BY <2>1, <2>2, <5>1 DEF IsRun
      <4>2. n + 1 < (k + 1) + 1 - 1 => word[(k + 1) + 1 - (n + 1) - 1] # "\\"
        <5>1. (k + 1) + 1 - (n + 1) - 1 = (k + 1) - n - 1 /\ (n + 1 < (k + 1) + 1 - 1 <=> n < (k + 1) - 1)
          OBVIOUS
        <5> QED BY <2>1, <5>1 DEF IsRun
      <4> QED BY <4>1, <4>2 DEF IsRun
    <3>2. n + 1 \in 0 .. k + 1
      OBVIOUS
    <3> QED BY <3>1, <3>2
  <2>3. CASE word[k + 1] # "\\"
    <3>1. (k + 1) + 1 - 0 - 1 = k + 1 /\ 0 \in 0 .. k + 1
      OBVIOUS
    <3>2. IsRun(word, (k + 1) + 1, 0)
      BY <2>3, <3>1 DEF IsRun
    <3> QED BY <3>1, <3>2
  <2> QED BY <2>2, <2>3
<1> QED
  <2> HIDE DEF T
  <2>1. m \in T
    BY <1>1, <1>2, NatSetInduction
  <2> QED BY <2>1 DEF T

\* One character more.
LEMMA RunStep ==
    ASSUME NEW w \in Seq(Char), NEW d \in Char, NEW n \in 0 .. Len(w), IsRun(w, Len(w) + 1, n)
    PROVE  /\ d = "\\" => IsRun(Append(w, d), Len(w) + 2, n + 1)
           /\ d # "\\" => IsRun(Append(w, d), Len(w) + 2, 0)
<1>1. PICK m, v : m = Len(w) /\ v = Append(w, d)
  OBVIOUS
<1>2. m \in Nat /\ n \in 0 .. m /\ v[m + 1] = d /\ \A k \in 1 .. m : v[k] = w[k]
  BY <1>1
<1>3. ASSUME d = "\\" PROVE IsRun(v, m + 2, n + 1)
  <2>1. ASSUME NEW j \in (m + 2) - (n + 1) .. (m + 2) - 1 PROVE v[j] = "\\"
    <3>1. j = m + 1 \/ (j \in (m + 1) - n .. (m + 1) - 1 /\ j \in 1 .. m)
      BY <1>2
    <3> QED BY <1>1, <1>2, <1>3, <3>1 DEF IsRun
  <2>2. ASSUME n + 1 < (m + 2) - 1 PROVE v[(m + 2) - (n + 1) - 1] # "\\"
    <3>1. (m + 2) - (n + 1) - 1 = (m + 1) - n - 1 /\ n < (m + 1) - 1 /\ (m + 1) - n - 1 \in 1 .. m
      BY <1>2, <2>2
    <3>2. w[(m + 1) - n - 1] # "\\"
      BY <1>1, <3>1 DEF IsRun
    <3> QED BY <1>2, <3>1, <3>2
  <2> QED BY <2>1, <2>2 DEF IsRun
<1>4. ASSUME d # "\\" PROVE IsRun(v, m + 2, 0)
  <2>1. (m + 2) - 0 - 1 = m + 1 /\ (m + 2) - 0 .. (m + 2) - 1 = {}
    BY <1>2
  <2> QED BY <1>2, <1>4, <2>1, Zenon DEF IsRun
<1> QED BY <1>1, <1>3, <1>4

\* What the server makes of a place is not changed by what comes behind it.
LEMMA PieceSame ==
    ASSUME NEW w \in Seq(Char), NEW d \in Char, NEW i \in 1 .. Len(w)
    PROVE  PieceAt(Append(w, d), i) = PieceAt(w, i)
<1>1. PICK v : v = Append(w, d)
  OBVIOUS
<1>2. i \in Nat /\ \A k \in 1 .. Len(w) : v[k] = w[k]
  BY <1>1
<1>3. PICK n \in 0 .. i - 1 : IsRun(w, i, n)
  <2>1. i - 1 \in Nat /\ (i - 1) + 1 = i
    OBVIOUS
  <2> QED BY <2>1, RunExists
<1>4. IsRun(v, i, n)
  <2>1. ASSUME NEW j \in i - n .. i - 1 PROVE v[j] = "\\"
    <3>1. j \in 1 .. Len(w)
      OBVIOUS
    <3> QED BY <1>2, <1>3, <3>1 DEF IsRun
  <2>2. ASSUME n < i - 1 PROVE v[i - n - 1] # "\\"
    <3>1. i - n - 1 \in 1 .. Len(w)
      BY <2>2
    <3> QED BY <1>2, <1>3, <2>2, <3>1 DEF IsRun
  <2> QED BY <2>1, <2>2 DEF IsRun
<1>5. BackRun(w, i) = n /\ BackRun(v, i) = n
  BY <1>2, <1>3, <1>4, RunUnique
<1>6. v[i] = w[i]
  BY <1>2
<1> QED BY <1>1, <1>5, <1>6, Zenon DEF PieceAt

AnyChar == Char \cup {RawOf(c) : c \in Char}

LEMMA ServerUnescapeStep ==
    ASSUME NEW w \in Seq(Char), NEW d \in Char, NEW n \in 0 .. Len(w), IsRun(w, Len(w) + 1, n)
    PROVE  /\ ServerUnescape(w) \in Seq(AnyChar)
           /\ ServerUnescape(Append(w, d)) = ServerUnescape(w) \o PieceAt(Append(w, d), Len(w) + 1)
           /\ PieceAt(Append(w, d), Len(w) + 1)
                 = IF n % 2 = 1 THEN <<RawOf(d)>> ELSE IF d = "\\" THEN <<>> ELSE <<d>>
<1>1. PICK v, m : v = Append(w, d) /\ m = Len(w)
  OBVIOUS
<1>2. v \in Seq(Char) /\ m \in Nat /\ Len(v) = m + 1 /\ v[m + 1] = d
  BY <1>1
<1>a. ASSUME NEW u \in Seq(Char), NEW i \in 1 .. Len(u) PROVE PieceAt(u, i) \in Seq(AnyChar)
  <2>1. u[i] \in Char
    OBVIOUS
  <2>2. u[i] \in AnyChar /\ RawOf(u[i]) \in AnyChar
    BY <2>1 DEF AnyChar
  <2> HIDE DEF AnyChar
  <2> QED BY <2>2 DEF PieceAt
<1>3. PICK a : a = [i \in 1 .. m |-> PieceAt(w, i)]
  OBVIOUS
<1>4. a \in Seq(Seq(AnyChar)) /\ Len(a) = m
  <2>1. \A i \in 1 .. m : PieceAt(w, i) \in Seq(AnyChar)
    BY <1>1, <1>a
  <2> QED BY <1>2, <1>3, <2>1
<1>5. PICK p : p = PieceAt(v, m + 1)
  OBVIOUS
<1>6. p \in Seq(AnyChar)
  BY <1>2, <1>5, <1>a
<1>7. [i \in 1 .. m + 1 |-> PieceAt(v, i)] = Append(a, p)
  <2>1. \A i \in 1 .. m : PieceAt(v, i) = a[i]
    BY <1>1, <1>3, PieceSame
  <2>2. \A i \in 1 .. m + 1 : PieceAt(v, i) = Append(a, p)[i]
    BY <1>4, <1>5, <2>1
  <2>3. PICK u : u = Append(a, p)
    OBVIOUS
  <2>4. u \in Seq(Seq(AnyChar)) /\ Len(u) = m + 1
    BY <1>4, <1>6, <2>3, AppendProperties
  <2>5. u = [i \in 1 .. m + 1 |-> u[i]]
    BY <2>4
  <2> QED BY <2>2, <2>3, <2>5, Zenon
<1>8. ServerUnescape(v) = FlattenSeq(Append(a, p)) /\ ServerUnescape(w) = FlattenSeq(a)
  <2>1. DOMAIN v = 1 .. m + 1 /\ DOMAIN w = 1 .. m
    BY <1>1, <1>2
  <2> QED BY <1>3, <1>7, <2>1, ServerUnescapeChosen, Zenon
<1>9. FlattenSeq(Append(a, p)) = FlattenSeq(a) \o p /\ FlattenSeq(a) \in Seq(AnyChar)
  BY <1>4, <1>6, FlattenAppend, FlattenType
<1>10. BackRun(v, m + 1) = n
  <2>1. IsRun(v, m + 1, n)
    <3>1. ASSUME NEW j \in (m + 1) - n .. (m + 1) - 1 PROVE v[j] = "\\"
      <4>1. j \in 1 .. m /\ w[j] = "\\"
        BY <1>1, <1>2 DEF IsRun
      <4> QED BY <1>1, <4>1
    <3>2. ASSUME n < (m + 1) - 1 PROVE v[(m + 1) - n - 1] # "\\"
      <4>1. (m + 1) - n - 1 \in 1 .. m
        BY <1>1, <1>2, <3>2
      <4>2. w[(m + 1) - n - 1] # "\\"
        BY <1>1, <3>2 DEF IsRun
      <4> QED BY <1>1, <4>1, <4>2
    <3> QED BY <3>1, <3>2 DEF IsRun
  <2>2. m + 1 \in Nat /\ n \in 0 .. (m + 1) - 1
    BY <1>1, <1>2
  <2> QED BY <2>1, <2>2, RunUnique
<1>11. PieceAt(v, m + 1) = IF n % 2 = 1 THEN <<RawOf(d)>> ELSE IF d = "\\" THEN <<>> ELSE <<d>>
  BY <1>2, <1>10, Zenon DEF PieceAt
<1> QED BY <1>1, <1>5, <1>8, <1>9, <1>11

LEMMA RawOfManual ==
    ASSUME NEW c \in DOMAIN Manual
    PROVE  RawOf(Manual[c]) = c
<1>1. RawOf(Manual[c]) \in DOMAIN Manual /\ Manual[RawOf(Manual[c])] = Manual[c]
  BY Zenon DEF RawOf
<1> QED BY <1>1, ManualFacts

\* What the client has escaped, the server reads back, whatever it was.
THEOREM ServerUnescapeEscape ==
    ASSUME NEW text \in Seq(Char)
    PROVE  ServerUnescape(Escape(text)) = text
<1> DEFINE Read(t, w) == /\ ServerUnescape(w) = t
                         /\ \E n \in 0 .. Len(w) : IsRun(w, Len(w) + 1, n) /\ n % 2 = 0
           T == {t \in Seq(Char) : Read(t, Mapped(t, Coded))}
<1>0. Coded \in Coding(Char, Char) /\ "\\" \in Char
  BY CodedFacts, WireAssumption
<1>1. <<>> \in T
  <2>1. ServerUnescape(<<>>) = <<>>
    <3>1. [i \in DOMAIN <<>> |-> PieceAt(<<>>, i)] = <<>>
      OBVIOUS
    <3> QED BY <3>1, ServerUnescapeChosen, FlattenNone
  <2>2. IsRun(<<>>, Len(<<>>) + 1, 0)
    BY DEF IsRun
  <2>3. 0 \in 0 .. Len(<<>>) /\ 0 % 2 = 0 /\ <<>> \in Seq(Char)
    OBVIOUS
  <2> QED BY <2>1, <2>2, <2>3, MappedNone, Zenon
<1>2. ASSUME NEW s \in Seq(Char), NEW c \in Char, s \in T PROVE Append(s, c) \in T
  <2>1. PICK w, y : w = Mapped(s, Coded) /\ y = Mapped(Append(s, c), Coded)
    OBVIOUS
  <2>2. w \in Seq(Char)
    BY <1>0, <2>1, MappedType
  <2>3. PICK n \in 0 .. Len(w) : IsRun(w, Len(w) + 1, n) /\ n % 2 = 0
    BY <1>2, <2>1
  <2>4. ServerUnescape(w) = s
    BY <1>2, <2>1
  <2>5. y = w \o Coded[c]
    BY <1>0, <2>1, MappedAppend
  <2>6. n % 2 # 1 /\ (n + 1) % 2 = 1 /\ (n + 1 + 1) % 2 = 0 /\ n + 1 \in 0 .. Len(w) + 1 /\ Len(w) \in Nat
    BY <2>2, <2>3
  <2>7. CASE c \in DOMAIN Manual
    <3>1. PICK code : code = Manual[c] /\ code \in Char /\ RawOf(code) = c
      BY <2>7, ManualFacts, RawOfManual DEF Safe
    <3>2. PICK u, v : u = Append(w, "\\") /\ v = Append(u, code)
      OBVIOUS
    <3>3. u \in Seq(Char) /\ v \in Seq(Char) /\ Len(u) = Len(w) + 1 /\ Len(v) = Len(w) + 2
      BY <1>0, <2>2, <3>1, <3>2
    <3>4. y = v
      <4>1. Coded[c] = <<"\\", code>>
        BY <2>7, <3>1, CodedFacts
      <4>2. w \o <<"\\", code>> = Append(Append(w, "\\"), code)
        BY <1>0, <2>2, <3>1
      <4> QED BY <2>5, <3>2, <4>1, <4>2
    <3>5. IsRun(u, Len(u) + 1, n + 1)
      <4>1. IsRun(Append(w, "\\"), Len(w) + 2, n + 1)
        BY <1>0, <2>2, <2>3, RunStep
      <4>2. Len(u) + 1 = Len(w) + 2
        BY <2>6, <3>3
      <4> QED BY <3>2, <4>1, <4>2
    <3>6. ServerUnescape(u) = s
      <4>1. ServerUnescape(Append(w, "\\")) = ServerUnescape(w) \o PieceAt(Append(w, "\\"), Len(w) + 1)
        BY <1>0, <2>2, <2>3, ServerUnescapeStep
      <4>2. PieceAt(Append(w, "\\"), Len(w) + 1) = <<>>
        BY <1>0, <2>2, <2>3, <2>6, ServerUnescapeStep
      <4>3. s \o <<>> = s
        OBVIOUS
      <4> QED BY <2>4, <3>2, <4>1, <4>2, <4>3
    <3>7. ServerUnescape(v) = Append(s, c)
      <4>0. n + 1 \in 0 .. Len(u)
        BY <2>6, <3>3
      <4>1. ServerUnescape(Append(u, code)) = ServerUnescape(u) \o PieceAt(Append(u, code), Len(u) + 1)
        BY <3>1, <3>3, <3>5, <4>0, ServerUnescapeStep
      <4>2. PieceAt(Append(u, code), Len(u) + 1) = <<RawOf(code)>>
        BY <2>6, <3>1, <3>3, <3>5, <4>0, ServerUnescapeStep
      <4>3. s \o <<c>> = Append(s, c)
        OBVIOUS
      <4> QED BY <3>1, <3>2, <3>6, <4>1, <4>2, <4>3
    <3>8. \E k \in 0 .. Len(v) : IsRun(v, Len(v) + 1, k) /\ k % 2 = 0
      <4>0. n + 1 \in 0 .. Len(u) /\ Len(u) + 2 = Len(v) + 1
        BY <2>6, <3>3
      <4>1. CASE code = "\\"
        <5>1. IsRun(v, Len(v) + 1, n + 1 + 1)
          BY <3>1, <3>2, <3>3, <3>5, <4>0, <4>1, RunStep
        <5>2. n + 1 + 1 \in 0 .. Len(v)
          BY <2>6, <3>3
        <5> QED BY <2>6, <5>1, <5>2
      <4>2. CASE code # "\\"
        <5>1. IsRun(v, Len(v) + 1, 0)
          BY <3>1, <3>2, <3>3, <3>5, <4>0, <4>2, RunStep
        <5>2. 0 \in 0 .. Len(v) /\ 0 % 2 = 0
          BY <3>3
        <5> QED BY <5>1, <5>2
      <4> QED BY <4>1, <4>2
    <3> QED BY <2>1, <3>4, <3>7, <3>8, Zenon, AppendProperties
  <2>8. CASE c \notin DOMAIN Manual
    <3>1. Coded[c] = <<c>> /\ c # "\\"
      BY <2>8, CodedFacts, ManualFacts
    <3>2. y = Append(w, c)
      BY <2>2, <2>5, <3>1
    <3>3. ServerUnescape(y) = Append(s, c)
      <4>1. ServerUnescape(Append(w, c)) = ServerUnescape(w) \o PieceAt(Append(w, c), Len(w) + 1)
        BY <2>2, <2>3, ServerUnescapeStep
      <4>2. PieceAt(Append(w, c), Len(w) + 1) = <<c>>
        BY <2>2, <2>3, <2>6, <3>1, ServerUnescapeStep
      <4>3. s \o <<c>> = Append(s, c)
        OBVIOUS
      <4> QED BY <2>4, <3>2, <4>1, <4>2, <4>3
    <3>4. IsRun(y, Len(y) + 1, 0) /\ 0 \in 0 .. Len(y) /\ 0 % 2 = 0
      <4>1. IsRun(Append(w, c), Len(w) + 2, 0)
        BY <2>2, <2>3, <3>1, RunStep
      <4>2. Len(y) + 1 = Len(w) + 2 /\ 0 \in 0 .. Len(y) /\ 0 % 2 = 0
        BY <2>2, <3>2
      <4> QED BY <3>2, <4>1, <4>2
    <3> QED BY <2>1, <3>3, <3>4, Zenon, AppendProperties
  <2> QED BY <2>7, <2>8
<1>3. Seq(Char) \subseteq T
  <2> HIDE DEF T
  <2> QED BY <1>1, <1>2, SeqSetInduction
<1> QED BY <1>3, EscapeMapped

-----------------------------------------------------------------------------
(* Splitting and joining *)

Pieces == Seq(Seq(Char)) \ {<<>>}

\* One step of split().
Cut(pieces, c, sep) ==
    IF c = sep THEN Append(pieces, <<>>) ELSE [pieces EXCEPT ![Len(pieces)] = Append(@, c)]

LEMMA CutType ==
    ASSUME NEW pieces \in Pieces, NEW c \in Char, NEW sep
    PROVE  Cut(pieces, c, sep) \in Pieces
<1>1. pieces \in Seq(Seq(Char)) /\ Len(pieces) \in 1 .. Len(pieces)
  BY DEF Pieces
<1>2. pieces[Len(pieces)] \in Seq(Char)
  BY <1>1
<1>3. Append(pieces[Len(pieces)], c) \in Seq(Char)
  BY <1>2
<1>4. PICK R : R = Seq(Char)
  OBVIOUS
<1>5. pieces \in Seq(R) /\ <<>> \in R /\ Append(pieces[Len(pieces)], c) \in R
  BY <1>1, <1>3, <1>4
<1>6. Append(pieces, <<>>) \in Seq(R) \ {<<>>}
  BY <1>5
<1>7. [pieces EXCEPT ![Len(pieces)] = Append(@, c)] \in Seq(R) \ {<<>>}
  BY <1>1, <1>5
<1> QED BY <1>4, <1>6, <1>7 DEF Cut, Pieces

\* The function that the fold of split() is.
IsSplit(f, text, sep) ==
    f = [s \in SUBSET DOMAIN text |->
            IF s = {} THEN << <<>> >> ELSE Cut(f[s \ {Max(s)}], text[Max(s)], sep)]

LEMMA SplitFold == \A text, sep : Split(text, sep) = (CHOOSE f : IsSplit(f, text, sep))[DOMAIN text]
  BY Zenon DEF Split, FoldLeft, MapThenFoldSet, IsSplit, Cut

LEMMA SplitsExist ==
    ASSUME NEW text \in Seq(Char), NEW sep
    PROVE  \E f : IsSplit(f, text, sep)
<1>0. PICK n \in Nat : n = Len(text) /\ DOMAIN text = 1 .. n
  OBVIOUS
<1>1. \A i \in 1 .. n : text[i] \in Char
  BY <1>0
<1> DEFINE G == [x \in (1 .. n) \X Pieces |-> Cut(x[2], text[x[1]], sep)]
<1>2. G \in [(1 .. n) \X Pieces -> Pieces]
  BY <1>1, CutType
<1>3. \A i \in 1 .. n, t \in Pieces : G[<<i, t>>] = Cut(t, text[i], sep)
  OBVIOUS
<1> HIDE DEF G
<1>b. << <<>> >> \in Pieces
  BY DEF Pieces
<1>4. PICK f \in Folds(n, Pieces, << <<>> >>, G) : TRUE
  BY <1>2, <1>b, FoldExists
<1>5. /\ f \in [SUBSET (1 .. n) -> Pieces]
      /\ \A s \in SUBSET (1 .. n) : f[s] = IF s = {} THEN << <<>> >> ELSE G[<<Max(s), f[s \ {Max(s)}]>>]
  BY Zenon DEF Folds
<1>6. ASSUME NEW s \in SUBSET (1 .. n)
      PROVE  f[s] = IF s = {} THEN << <<>> >> ELSE Cut(f[s \ {Max(s)}], text[Max(s)], sep)
  <2>1. CASE s = {}
    BY <1>5, <2>1
  <2>2. CASE s # {}
    <3>1. Max(s) \in s
      BY <2>2, MaxIn
    <3>2. f[s \ {Max(s)}] \in Pieces
      BY <1>5
    <3>3. G[<<Max(s), f[s \ {Max(s)}]>>] = Cut(f[s \ {Max(s)}], text[Max(s)], sep)
      BY <1>3, <3>1, <3>2
    <3> QED BY <1>5, <2>2, <3>3
  <2> QED BY <2>1, <2>2
<1>7. IsSplit(f, text, sep)
  BY <1>0, <1>5, <1>6, Zenon DEF IsSplit
<1> QED BY <1>7

\* A text is split character by character: how many have been read, and the
\* pieces so far.
Splitting(text, sep) ==
    {p \in [0 .. Len(text) -> Pieces] :
        /\ p[0] = << <<>> >>
        /\ \A i \in 1 .. Len(text) : p[i] = Cut(p[i - 1], text[i], sep)
        /\ p[Len(text)] = Split(text, sep)}

LEMMA SplitSteps ==
    ASSUME NEW text \in Seq(Char), NEW sep
    PROVE  Splitting(text, sep) # {}
<1>0. PICK n \in Nat : n = Len(text) /\ DOMAIN text = 1 .. n
  OBVIOUS
<1>1. \A i \in 1 .. n : text[i] \in Char
  BY <1>0
<1> DEFINE h == CHOOSE f : IsSplit(f, text, sep)
<1>2. IsSplit(h, text, sep)
  BY SplitsExist
<1>3. Split(text, sep) = h[1 .. n]
  BY <1>0, SplitFold
<1>4. PICK g : g = h
  OBVIOUS
<1> HIDE DEF h
<1>5. \A s \in SUBSET (1 .. n) :
         g[s] = IF s = {} THEN << <<>> >> ELSE Cut(g[s \ {Max(s)}], text[Max(s)], sep)
  <2>1. g = [s \in SUBSET (1 .. n) |-> IF s = {} THEN << <<>> >> ELSE Cut(g[s \ {Max(s)}], text[Max(s)], sep)]
    BY <1>0, <1>2, <1>4, Zenon DEF IsSplit
  <2> QED BY <2>1, Zenon
<1>6. g[1 .. 0] = << <<>> >>
  <2>1. 1 .. 0 = {} /\ {} \in SUBSET (1 .. n)
    OBVIOUS
  <2> QED BY <1>5, <2>1, Zenon
<1>7. ASSUME NEW i \in 1 .. n PROVE g[1 .. i] = Cut(g[1 .. (i - 1)], text[i], sep)
  <2>1. 1 .. i # {} /\ Max(1 .. i) = i /\ (1 .. i) \ {Max(1 .. i)} = 1 .. (i - 1)
    <3>1. i \in Nat /\ i # 0
      OBVIOUS
    <3> QED BY <3>1, UpTo
  <2>2. 1 .. i \in SUBSET (1 .. n)
    OBVIOUS
  <2>3. g[1 .. i] = Cut(g[(1 .. i) \ {Max(1 .. i)}], text[Max(1 .. i)], sep)
    BY <1>5, <2>1, <2>2, Zenon
  <2> QED BY <2>1, <2>3, Zenon
<1> DEFINE T == {i \in Nat : i <= n => g[1 .. i] \in Pieces}
<1>8. 0 \in T
  <2>1. << <<>> >> \in Pieces
    BY DEF Pieces
  <2> QED BY <1>6, <2>1
<1>9. ASSUME NEW i \in Nat, i \in T PROVE i + 1 \in T
  <2> SUFFICES ASSUME i + 1 <= n PROVE g[1 .. i + 1] \in Pieces
    OBVIOUS
  <2>1. i + 1 \in 1 .. n /\ (i + 1) - 1 = i /\ g[1 .. i] \in Pieces
    BY <1>9
  <2>2. g[1 .. i + 1] = Cut(g[1 .. ((i + 1) - 1)], text[i + 1], sep)
    BY <1>7, <2>1, Zenon
  <2>3. g[1 .. i + 1] = Cut(g[1 .. i], text[i + 1], sep)
    BY <2>1, <2>2, Zenon
  <2> QED BY <1>1, <2>1, <2>3, CutType
<1>10. \A i \in 0 .. n : g[1 .. i] \in Pieces
  <2> HIDE DEF T
  <2>1. Nat \subseteq T
    BY <1>8, <1>9, NatSetInduction
  <2> QED BY <2>1 DEF T
<1> DEFINE p == [i \in 0 .. n |-> g[1 .. i]]
<1>11. p \in [0 .. n -> Pieces] /\ \A i \in 0 .. n : p[i] = g[1 .. i]
  BY <1>10
<1> HIDE DEF p
<1>12. p[0] = << <<>> >> /\ p[n] = Split(text, sep)
  BY <1>3, <1>4, <1>6, <1>11
<1>13. \A i \in 1 .. n : p[i] = Cut(p[i - 1], text[i], sep)
  <2> TAKE i \in 1 .. n
  <2>1. i \in 0 .. n /\ i - 1 \in 0 .. n
    OBVIOUS
  <2> QED BY <1>7, <1>11, <2>1
<1>14. p \in Splitting(text, sep)
  BY <1>0, <1>11, <1>12, <1>13, Zenon DEF Splitting
<1> QED BY <1>14

LEMMA SplitType ==
    ASSUME NEW text \in Seq(Char), NEW sep
    PROVE  Split(text, sep) \in Pieces
<1>1. PICK p \in Splitting(text, sep) : TRUE
  BY SplitSteps
<1>2. p \in [0 .. Len(text) -> Pieces] /\ p[Len(text)] = Split(text, sep)
  BY Zenon DEF Splitting
<1> QED BY <1>2

LEMMA SplitNone == \A sep : Split(<<>>, sep) = << <<>> >>
<1> TAKE sep
<1>1. <<>> \in Seq(Char) /\ Len(<<>>) = 0
  OBVIOUS
<1>2. PICK p \in Splitting(<<>>, sep) : TRUE
  BY <1>1, SplitSteps
<1> QED BY <1>1, <1>2, Zenon DEF Splitting

LEMMA SplitAppend ==
    ASSUME NEW t \in Seq(Char), NEW c \in Char, NEW sep
    PROVE  Split(Append(t, c), sep) = Cut(Split(t, sep), c, sep)
<1>1. PICK w, n : w = Append(t, c) /\ n = Len(t)
  OBVIOUS
<1>2. w \in Seq(Char) /\ n \in Nat /\ Len(w) = n + 1 /\ w[n + 1] = c /\ \A i \in 1 .. n : w[i] = t[i]
  BY <1>1
<1>3. PICK p \in Splitting(t, sep) : TRUE
  BY SplitSteps
<1>4. PICK q \in Splitting(w, sep) : TRUE
  BY <1>2, SplitSteps
<1>5. /\ p[0] = << <<>> >> /\ p[n] = Split(t, sep)
      /\ \A i \in 1 .. n : p[i] = Cut(p[i - 1], t[i], sep)
  BY <1>1, <1>3, Zenon DEF Splitting
<1>6. /\ q[0] = << <<>> >> /\ q[n + 1] = Split(w, sep)
      /\ \A i \in 1 .. n + 1 : q[i] = Cut(q[i - 1], w[i], sep)
  BY <1>2, <1>4, Zenon DEF Splitting
<1> DEFINE T == {i \in Nat : i <= n => p[i] = q[i]}
<1>7. 0 \in T
  BY <1>5, <1>6
<1>8. ASSUME NEW i \in Nat, i \in T PROVE i + 1 \in T
  <2> SUFFICES ASSUME i + 1 <= n PROVE p[i + 1] = q[i + 1]
    OBVIOUS
  <2>1. i + 1 \in 1 .. n /\ i + 1 \in 1 .. n + 1 /\ (i + 1) - 1 = i /\ p[i] = q[i]
    BY <1>2, <1>8
  <2>2. p[i + 1] = Cut(p[i], t[i + 1], sep)
    BY <1>5, <2>1
  <2>3. q[i + 1] = Cut(q[i], w[i + 1], sep)
    BY <1>6, <2>1
  <2> QED BY <1>2, <2>1, <2>2, <2>3
<1>9. p[n] = q[n]
  <2> HIDE DEF T
  <2>1. n \in T
    BY <1>2, <1>7, <1>8, NatSetInduction
  <2> QED BY <1>2, <2>1 DEF T
<1>10. q[n + 1] = Cut(q[n], c, sep)
  <2>1. n + 1 \in 1 .. n + 1 /\ (n + 1) - 1 = n
    BY <1>2
  <2> QED BY <1>2, <1>6, <2>1
<1> QED BY <1>1, <1>5, <1>6, <1>9, <1>10

\* What join() puts one after the other.
Jointed(pieces, sep) ==
    [i \in DOMAIN pieces |-> IF i = 1 THEN pieces[i] ELSE <<sep>> \o pieces[i]]

Jointing(S, ps, sep) ==
    {q \in Seq(Seq(S)) :
        /\ Len(q) = Len(ps) /\ Join(ps, sep) = FlattenSeq(q)
        /\ \A i \in 1 .. Len(ps) : q[i] = IF i = 1 THEN ps[i] ELSE <<sep>> \o ps[i]}

LEMMA JointedFacts ==
    ASSUME NEW S, NEW sep \in S, NEW ps \in Seq(Seq(S))
    PROVE  Jointing(S, ps, sep) # {}
<1>1. PICK n \in Nat : n = Len(ps) /\ DOMAIN ps = 1 .. n
  OBVIOUS
<1>2. ASSUME NEW i \in 1 .. n PROVE (IF i = 1 THEN ps[i] ELSE <<sep>> \o ps[i]) \in Seq(S)
  <2>1. ps[i] \in Seq(S) /\ <<sep>> \in Seq(S)
    BY <1>1
  <2> QED BY <2>1
<1>3. Jointed(ps, sep) = [i \in 1 .. n |-> IF i = 1 THEN ps[i] ELSE <<sep>> \o ps[i]]
  BY <1>1, Zenon DEF Jointed
<1>4. Join(ps, sep) = FlattenSeq(Jointed(ps, sep))
  BY Zenon DEF Join, Jointed
<1>5. Jointed(ps, sep) \in [1 .. n -> Seq(S)]
  BY <1>2, <1>3, Zenon
<1>6. Jointed(ps, sep) \in Seq(Seq(S)) /\ Len(Jointed(ps, sep)) = n
  BY <1>5
<1>7. \A i \in 1 .. n : Jointed(ps, sep)[i] = IF i = 1 THEN ps[i] ELSE <<sep>> \o ps[i]
  BY <1>3, Zenon
<1>8. Jointed(ps, sep) \in Jointing(S, ps, sep)
  BY <1>1, <1>4, <1>6, <1>7, Zenon DEF Jointing
<1> QED BY <1>8

LEMMA JoinType ==
    ASSUME NEW S, NEW sep \in S, NEW ps \in Seq(Seq(S))
    PROVE  Join(ps, sep) \in Seq(S)
<1>1. PICK q \in Jointing(S, ps, sep) : TRUE
  BY JointedFacts
<1>2. q \in Seq(Seq(S)) /\ Join(ps, sep) = FlattenSeq(q)
  BY Zenon DEF Jointing
<1> QED BY <1>2, FlattenType

LEMMA JoinNone == \A sep : Join(<<>>, sep) = <<>>
<1> TAKE sep
<1>1. Jointed(<<>>, sep) = <<>>
  BY DEF Jointed
<1>2. Join(<<>>, sep) = FlattenSeq(Jointed(<<>>, sep))
  BY Zenon DEF Join, Jointed
<1> QED BY <1>1, <1>2, FlattenNone

LEMMA JoinOne ==
    ASSUME NEW S, NEW sep \in S, NEW p \in Seq(S)
    PROVE  Join(<<p>>, sep) = p
<1>1. PICK ps : ps = <<p>>
  OBVIOUS
<1>2. ps \in Seq(Seq(S)) /\ Len(ps) = 1 /\ ps[1] = p
  BY <1>1
<1>3. PICK q \in Jointing(S, ps, sep) : TRUE
  BY <1>2, JointedFacts
<1>4. q \in Seq(Seq(S)) /\ Len(q) = 1 /\ q[1] = p /\ Join(ps, sep) = FlattenSeq(q)
  <2>1. 1 \in 1 .. Len(ps)
    BY <1>2
  <2> QED BY <1>2, <1>3, <2>1, Zenon DEF Jointing
<1>5. q = <<p>>
  BY <1>4
<1> QED BY <1>1, <1>4, <1>5, FlattenOne

LEMMA JoinAppend ==
    ASSUME NEW S, NEW sep \in S, NEW ps \in Seq(Seq(S)), ps # <<>>, NEW p \in Seq(S)
    PROVE  Join(Append(ps, p), sep) = Join(ps, sep) \o (<<sep>> \o p)
<1>1. PICK n, more, x : n = Len(ps) /\ more = Append(ps, p) /\ x = <<sep>> \o p
  OBVIOUS
<1>2. /\ more \in Seq(Seq(S)) /\ Len(more) = n + 1 /\ more[n + 1] = p /\ n \in Nat /\ n # 0 /\ x \in Seq(S)
      /\ \A i \in 1 .. n : more[i] = ps[i]
  BY <1>1, AppendProperties
<1>3. PICK a \in Jointing(S, ps, sep) : TRUE
  BY JointedFacts
<1>b. PICK b \in Jointing(S, more, sep) : TRUE
  BY <1>2, JointedFacts
<1>4. /\ a \in Seq(Seq(S)) /\ Len(a) = n /\ Join(ps, sep) = FlattenSeq(a)
      /\ \A i \in 1 .. n : a[i] = IF i = 1 THEN ps[i] ELSE <<sep>> \o ps[i]
  BY <1>1, <1>3, Zenon DEF Jointing
<1>5. /\ b \in Seq(Seq(S)) /\ Len(b) = n + 1 /\ Join(more, sep) = FlattenSeq(b)
      /\ \A i \in 1 .. n + 1 : b[i] = IF i = 1 THEN more[i] ELSE <<sep>> \o more[i]
  BY <1>2, <1>b, Zenon DEF Jointing
<1>6. PICK R : R = Seq(S)
  OBVIOUS
<1>7. b = Append(a, x)
  <2>1. PICK c : c = Append(a, x)
    OBVIOUS
  <2>2. c \in Seq(R) /\ Len(c) = n + 1 /\ c[n + 1] = x /\ \A i \in 1 .. n : c[i] = a[i]
    BY <1>2, <1>4, <1>6, <2>1, AppendProperties
  <2>3. ASSUME NEW i \in 1 .. n + 1 PROVE b[i] = c[i]
    <3>1. CASE i = n + 1
      <4>1. i # 1
        BY <1>2, <3>1
      <4>2. b[i] = <<sep>> \o more[i]
        BY <1>5, <4>1, Zenon
      <4> QED BY <1>1, <1>2, <2>2, <3>1, <4>2, Zenon
    <3>2. CASE i # n + 1
      <4>1. i \in 1 .. n
        BY <1>2, <3>2
      <4>2. b[i] = IF i = 1 THEN more[i] ELSE <<sep>> \o more[i]
        BY <1>5, Zenon
      <4>3. a[i] = IF i = 1 THEN ps[i] ELSE <<sep>> \o ps[i]
        BY <1>4, <4>1, Zenon
      <4>4. more[i] = ps[i] /\ c[i] = a[i]
        BY <1>2, <2>2, <4>1, Zenon
      <4> QED BY <4>2, <4>3, <4>4, Zenon
    <3> QED BY <3>1, <3>2
  <2>4. b \in Seq(R)
    BY <1>5, <1>6
  <2> QED BY <1>2, <1>5, <2>1, <2>2, <2>3, <2>4, SeqEqual
<1>8. FlattenSeq(Append(a, x)) = FlattenSeq(a) \o x
  BY <1>2, <1>4, FlattenAppend
<1> QED BY <1>1, <1>4, <1>5, <1>7, <1>8, Zenon

GoesOn(x, d, y, e) == (x \o (d \o y)) \o e = x \o (d \o (y \o e))

LEMMA ConcatFour ==
    ASSUME NEW S, NEW x \in Seq(S), NEW d \in Seq(S), NEW y \in Seq(S), NEW e \in Seq(S)
    PROVE  GoesOn(x, d, y, e)
<1>1. PICK f : f = d \o y
  OBVIOUS
<1>a. f \in Seq(S)
  BY <1>1
<1>2. (x \o f) \o e = x \o (f \o e)
  BY <1>a
<1>3. (d \o y) \o e = d \o (y \o e)
  OBVIOUS
<1> QED BY <1>1, <1>2, <1>3 DEF GoesOn

Grows(R, a, c, s) ==
    a \o Append(c, s) = Append(a \o c, s) /\ a \o c \in Seq(R) /\ Append(c, s) \in Seq(R) /\ a \o c # <<>>

LEMMA AppendBehind ==
    ASSUME NEW R, NEW a \in Seq(R), a # <<>>, NEW c \in Seq(R), NEW s \in R
    PROVE  Grows(R, a, c, s)
<1>1. a \o Append(c, s) = Append(a \o c, s)
  OBVIOUS
<1>2. a \o c \in Seq(R) /\ Append(c, s) \in Seq(R)
  OBVIOUS
<1>3. a \o c # <<>>
  OBVIOUS
<1> QED BY <1>1, <1>2, <1>3, Zenon DEF Grows

LEMMA JoinConcat ==
    ASSUME NEW S, NEW sep \in S, NEW a \in Seq(Seq(S)), a # <<>>, NEW b \in Seq(Seq(S)), b # <<>>
    PROVE  Join(a \o b, sep) = Join(a, sep) \o (<<sep>> \o Join(b, sep))
<1> DEFINE T == {c \in Seq(Seq(S)) : c # <<>> => Join(a \o c, sep) = Join(a, sep) \o (<<sep>> \o Join(c, sep))}
<1>1. <<>> \in T
  OBVIOUS
<1>2. ASSUME NEW c \in Seq(Seq(S)), NEW s \in Seq(S), c \in T PROVE Append(c, s) \in T
  <2>1. PICK R : R = Seq(S)
    OBVIOUS
  <2>2. a \o Append(c, s) = Append(a \o c, s) /\ a \o c \in Seq(R) /\ Append(c, s) \in Seq(R) /\ a \o c # <<>>
    <3>1. a \in Seq(R) /\ c \in Seq(R) /\ s \in R
      BY <2>1
    <3>2. Grows(R, a, c, s)
      BY <3>1, AppendBehind, Zenon
    <3> QED BY <3>2, Zenon DEF Grows
  <2>3. PICK x \in Seq(S) : x = Join(a, sep)
    BY JoinType
  <2>4. Join(a \o Append(c, s), sep) = Join(a \o c, sep) \o (<<sep>> \o s)
    BY <2>1, <2>2, JoinAppend
  <2>5. CASE c = <<>>
    <3>1. a \o c = a /\ Append(c, s) = <<s>>
      BY <2>5
    <3>2. Join(<<s>>, sep) = s
      BY JoinOne
    <3> QED BY <2>1, <2>2, <2>4, <3>1, <3>2
  <2>6. CASE c # <<>>
    <3>1. PICK y \in Seq(S) : y = Join(c, sep)
      BY JoinType
    <3>2. Join(a \o c, sep) = x \o (<<sep>> \o y)
      BY <1>2, <2>3, <2>6, <3>1
    <3>3. Join(Append(c, s), sep) = y \o (<<sep>> \o s)
      BY <2>6, <3>1, JoinAppend
    <3>4. (x \o (<<sep>> \o y)) \o (<<sep>> \o s) = x \o (<<sep>> \o (y \o (<<sep>> \o s)))
      <4>1. <<sep>> \in Seq(S) /\ <<sep>> \o s \in Seq(S)
        OBVIOUS
      <4>2. GoesOn(x, <<sep>>, y, <<sep>> \o s)
        BY <4>1, ConcatFour, Zenon
      <4> QED BY <4>2 DEF GoesOn
    <3> QED BY <2>1, <2>2, <2>3, <2>4, <3>2, <3>3, <3>4
  <2> QED BY <2>5, <2>6
<1>3. Seq(Seq(S)) \subseteq T
  <2> HIDE DEF T
  <2> QED BY <1>1, <1>2, SeqSetInduction
<1> QED BY <1>3

\* What stands at the end of the last piece stands at the end of all.
LEMMA JoinLast ==
    ASSUME NEW S, NEW sep \in S, NEW P \in Seq(Seq(S)), NEW a \in Seq(S), NEW b \in Seq(S)
    PROVE  Join(Append(P, a \o b), sep) = Join(Append(P, a), sep) \o b
<1>1. CASE P = <<>>
  <2>1. Append(P, a \o b) = <<a \o b>> /\ Append(P, a) = <<a>> /\ a \o b \in Seq(S)
    BY <1>1
  <2> QED BY <2>1, JoinOne
<1>2. CASE P # <<>>
  <2>1. PICK x \in Seq(S) : x = Join(P, sep)
    BY JoinType
  <2>2. Join(Append(P, a), sep) = x \o (<<sep>> \o a)
    BY <1>2, <2>1, JoinAppend
  <2>3. Join(Append(P, a \o b), sep) = x \o (<<sep>> \o (a \o b))
    <3>1. a \o b \in Seq(S)
      OBVIOUS
    <3> QED BY <1>2, <2>1, <3>1, JoinAppend
  <2>4. x \o (<<sep>> \o (a \o b)) = (x \o (<<sep>> \o a)) \o b
    <3>1. PICK d, e : d = <<sep>> /\ e = d \o a
      OBVIOUS
    <3>2. d \in Seq(S) /\ e \in Seq(S)
      BY <3>1
    <3>3. d \o (a \o b) = e \o b
      BY <3>1, <3>2, ConcatAssociative
    <3>4. x \o (e \o b) = (x \o e) \o b
      BY <3>2
    <3> QED BY <3>1, <3>3, <3>4
  <2> QED BY <2>2, <2>3, <2>4
<1> QED BY <1>1, <1>2

\* The characters that do not end a piece.
Free(sep) == Char \ {sep}

LEMMA CutAppend ==
    ASSUME NEW P \in Seq(Seq(Char)), NEW a \in Seq(Char), NEW c \in Char, NEW sep
    PROVE  Cut(Append(P, a), c, sep)
              = IF c = sep THEN Append(Append(P, a), <<>>) ELSE Append(P, Append(a, c))
<1>1. PICK R, n, q, r, b : R = Seq(Char) /\ n = Len(P) /\ q = Append(P, a) /\ b = Append(a, c) /\ r = Append(P, b)
  OBVIOUS
<1>2. P \in Seq(R) /\ a \in R /\ b \in R /\ n \in Nat
  BY <1>1
<1>3. /\ q \in Seq(R) /\ Len(q) = n + 1 /\ q[n + 1] = a /\ \A i \in 1 .. n : q[i] = P[i]
      /\ r \in Seq(R) /\ Len(r) = n + 1 /\ r[n + 1] = b /\ \A i \in 1 .. n : r[i] = P[i]
  BY <1>1, <1>2, AppendProperties
<1>4. [q EXCEPT ![n + 1] = b] = r
  <2>1. [q EXCEPT ![n + 1] = b] \in Seq(R) /\ Len([q EXCEPT ![n + 1] = b]) = n + 1
    BY <1>2, <1>3
  <2>2. \A i \in 1 .. n + 1 : [q EXCEPT ![n + 1] = b][i] = r[i]
    <3> TAKE i \in 1 .. n + 1
    <3>1. i = n + 1 \/ i \in 1 .. n
      BY <1>2
    <3>2. i \in DOMAIN q
      BY <1>3
    <3> QED BY <1>3, <3>1, <3>2
  <2> QED BY <1>3, <2>1, <2>2, SeqEqual
<1>5. [q EXCEPT ![Len(q)] = Append(@, c)] = r
  BY <1>1, <1>3, <1>4
<1> QED BY <1>1, <1>5, Zenon DEF Cut

LEMMA FrontLast ==
    ASSUME NEW S, NEW s \in Seq(S), s # <<>>
    PROVE  \E P \in Seq(S), a \in S : s = Append(P, a)
<1>1. PICK n \in Nat : Len(s) = n + 1
  <2>1. Len(s) \in Nat /\ Len(s) # 0
    OBVIOUS
  <2> QED BY <2>1
<1>2. SubSeq(s, 1, n) \in Seq(S) /\ s[n + 1] \in S
  BY <1>1
<1>3. s = Append(SubSeq(s, 1, n), s[n + 1])
  BY <1>1
<1> QED BY <1>2, <1>3

LEMMA ConcatAppend ==
    ASSUME NEW S, NEW s \in Seq(S), NEW t \in Seq(S), NEW c \in S
    PROVE  s \o Append(t, c) = Append(s \o t, c)
  OBVIOUS

LEMMA AppendNonEmpty ==
    ASSUME NEW S, NEW s \in Seq(S), NEW c \in S
    PROVE  Append(s, c) \in Seq(S) \ {<<>>}
<1>1. Append(s, c) \in Seq(S)
  OBVIOUS
<1>2. Len(Append(s, c)) = Len(s) + 1
  OBVIOUS
<1>3. Append(s, c) # <<>>
  <2>1. Len(s) \in Nat /\ Len(<<>>) = 0
    OBVIOUS
  <2>2. Len(Append(s, c)) # Len(<<>>)
    BY <1>2, <2>1
  <2> QED BY <2>2, Zenon
<1> QED BY <1>1, <1>3, Zenon

\* The last piece of x, and those before it.
Splits(x, sep, P, a) == Split(x, sep) = Append(P, a)

LEMMA SplitOneMore ==
    ASSUME NEW sep, NEW P \in Seq(Seq(Char)), NEW a \in Seq(Char), NEW x \in Seq(Char),
           Splits(x, sep, P, a), NEW c \in Char
    PROVE  /\ c = sep => Splits(Append(x, c), sep, Append(P, a), <<>>)
           /\ c # sep => Splits(Append(x, c), sep, P, Append(a, c))
<1>1. Split(Append(x, c), sep) = Cut(Append(P, a), c, sep)
  BY SplitAppend DEF Splits
<1> QED BY <1>1, CutAppend DEF Splits

\* What is free of separators goes to the end of the last piece.
LEMMA SplitTail ==
    ASSUME NEW sep, NEW P \in Seq(Seq(Char)), NEW a \in Seq(Char), NEW x \in Seq(Char),
           Splits(x, sep, P, a), NEW p \in Seq(Free(sep))
    PROVE  Splits(x \o p, sep, P, a \o p)
<1> DEFINE T == {t \in Seq(Free(sep)) : Splits(x \o t, sep, P, a \o t)}
<1>1. <<>> \in T
  <2>1. x \o <<>> = x /\ a \o <<>> = a /\ <<>> \in Seq(Free(sep))
    OBVIOUS
  <2> QED BY <2>1
<1>2. ASSUME NEW t \in Seq(Free(sep)), NEW c \in Free(sep), t \in T PROVE Append(t, c) \in T
  <2>1. t \in Seq(Char) /\ c \in Char /\ c # sep
    BY DEF Free
  <2>2. PICK y, b : y = x \o t /\ b = a \o t
    OBVIOUS
  <2>3. y \in Seq(Char) /\ b \in Seq(Char)
    BY <2>1, <2>2
  <2>4. Splits(y, sep, P, b)
    BY <1>2, <2>2
  <2>5. Splits(Append(y, c), sep, P, Append(b, c))
    BY <2>1, <2>3, <2>4, SplitOneMore, Zenon
  <2>6. Append(t, c) \in Seq(Free(sep))
    OBVIOUS
  <2>7. x \o Append(t, c) = Append(x \o t, c)
    BY <2>1, ConcatAppend
  <2>8. a \o Append(t, c) = Append(a \o t, c)
    BY <2>1, ConcatAppend
  <2> QED BY <2>2, <2>5, <2>6, <2>7, <2>8
<1>3. Seq(Free(sep)) \subseteq T
  <2> HIDE DEF T
  <2> QED BY <1>1, <1>2, SeqSetInduction
<1> QED BY <1>3

LEMMA SplitFree ==
    ASSUME NEW sep, NEW p \in Seq(Free(sep))
    PROVE  Split(p, sep) = <<p>>
<1>1. PICK x, P, a : x = <<>> /\ P = <<>> /\ a = <<>>
  OBVIOUS
<1>2. x \in Seq(Char) /\ P \in Seq(Seq(Char)) /\ a \in Seq(Char) /\ p \in Seq(Char)
  BY <1>1 DEF Free
<1>3. Splits(x, sep, P, a)
  BY <1>1, SplitNone DEF Splits
<1>4. Split(x \o p, sep) = Append(P, a \o p)
  BY <1>2, <1>3, SplitTail DEF Splits
<1>5. x \o p = p /\ Append(P, a \o p) = <<p>>
  BY <1>1, <1>2
<1> QED BY <1>4, <1>5

\* Behind a separator, what is free of them is a piece of its own.
LEMMA SplitNext ==
    ASSUME NEW sep \in Char, NEW x \in Seq(Char), NEW p \in Seq(Free(sep))
    PROVE  Split(x \o (<<sep>> \o p), sep) = Append(Split(x, sep), p)
<1>1. PICK Q : Q = Split(x, sep)
  OBVIOUS
<1>2. Q \in Seq(Seq(Char)) /\ Q # <<>>
  BY <1>1, SplitType DEF Pieces
<1>3. PICK y, e : y = Append(x, sep) /\ e = <<>>
  OBVIOUS
<1>4. y \in Seq(Char) /\ e \in Seq(Char) /\ p \in Seq(Char)
  BY <1>3 DEF Free
<1>5. Splits(y, sep, Q, e)
  <2>1. Split(y, sep) = Cut(Q, sep, sep)
    BY <1>1, <1>3, SplitAppend
  <2> QED BY <1>3, <2>1 DEF Cut, Splits
<1>6. Split(y \o p, sep) = Append(Q, e \o p)
  BY <1>2, <1>4, <1>5, SplitTail DEF Splits
<1>7. y \o p = x \o (<<sep>> \o p) /\ e \o p = p
  BY <1>3, <1>4
<1> QED BY <1>1, <1>6, <1>7

\* What is joined of pieces without the separator is split into them again.
LEMMA SplitJoin ==
    ASSUME NEW sep \in Char, NEW ps \in Seq(Seq(Free(sep))), ps # <<>>
    PROVE  Split(Join(ps, sep), sep) = ps
<1>1. PICK R : R = Seq(Free(sep))
  OBVIOUS
<1> DEFINE T == {qs \in Seq(R) : qs # <<>> => Split(Join(qs, sep), sep) = qs}
<1>2. <<>> \in T
  OBVIOUS
<1>3. ASSUME NEW qs \in Seq(R), NEW q \in R, qs \in T PROVE Append(qs, q) \in T
  <2>1. q \in Seq(Char) /\ qs \in Seq(Seq(Char)) /\ Append(qs, q) \in Seq(R)
    <3>1. R \subseteq Seq(Char)
      BY <1>1 DEF Free
    <3>2. qs \in Seq(Seq(Char))
      <4> PICK U : U = Seq(Char)
        OBVIOUS
      <4>1. qs \in Seq(U)
        BY <3>1
      <4> QED BY <4>1
    <3> QED BY <3>1, <3>2
  <2>2. CASE qs = <<>>
    <3>1. Append(qs, q) = <<q>>
      BY <2>2
    <3>2. Join(<<q>>, sep) = q /\ Split(q, sep) = <<q>>
      BY <1>1, <2>1, JoinOne, SplitFree
    <3> QED BY <2>1, <3>1, <3>2
  <2>3. CASE qs # <<>>
    <3>1. PICK x \in Seq(Char) : x = Join(qs, sep)
      BY <2>1, JoinType
    <3>2. Join(Append(qs, q), sep) = x \o (<<sep>> \o q)
      BY <2>1, <2>3, <3>1, JoinAppend
    <3>3. Split(x \o (<<sep>> \o q), sep) = Append(Split(x, sep), q)
      BY <1>1, SplitNext
    <3>4. Split(x, sep) = qs
      BY <1>3, <2>3, <3>1
    <3> QED BY <2>1, <3>2, <3>3, <3>4
  <2> QED BY <2>2, <2>3
<1>4. Seq(R) \subseteq T
  <2> HIDE DEF T
  <2> QED BY <1>2, <1>3, SeqSetInduction
<1> QED BY <1>1, <1>4

Joined(ps, sep, w) == Join(ps, sep) = w

LEMMA JoinedLast ==
    ASSUME NEW S, NEW sep \in S, NEW P \in Seq(Seq(S)), NEW a \in Seq(S), NEW b \in Seq(S), NEW w,
           Joined(Append(P, a), sep, w)
    PROVE  Joined(Append(P, a \o b), sep, w \o b)
<1>1. Join(Append(P, a \o b), sep) = Join(Append(P, a), sep) \o b
  BY JoinLast
<1> QED BY <1>1 DEF Joined

\* What a text is split into has no separators, and is joined to the text.
LEMMA JoinSplit ==
    ASSUME NEW sep \in Char, NEW t \in Seq(Char)
    PROVE  Split(t, sep) \in Seq(Seq(Free(sep))) /\ Join(Split(t, sep), sep) = t
<1>1. PICK R : R = Seq(Free(sep))
  OBVIOUS
<1>a. <<>> \in R /\ R \subseteq Seq(Char)
  BY <1>1 DEF Free
<1> DEFINE T == {u \in Seq(Char) : Split(u, sep) \in Seq(R) \ {<<>>} /\ Join(Split(u, sep), sep) = u}
<1>2. <<>> \in T
  <2>1. Split(<<>>, sep) = << <<>> >> /\ <<>> \in Seq(Char)
    BY SplitNone
  <2>2. Join(<< <<>> >>, sep) = <<>>
    BY <2>1, JoinOne
  <2>3. << <<>> >> \in Seq(R) \ {<<>>}
    BY <1>a
  <2> QED BY <2>1, <2>2, <2>3
<1>3. ASSUME NEW u \in Seq(Char), NEW c \in Char, u \in T PROVE Append(u, c) \in T
  <2>1. PICK P \in Seq(R), a \in R : Split(u, sep) = Append(P, a)
    BY <1>3, FrontLast
  <2>2. P \in Seq(Seq(Char)) /\ a \in Seq(Char)
    <3>1. a \in Seq(Char)
      BY <1>a
    <3>2. P \in Seq(Seq(Char))
      <4> PICK U : U = Seq(Char)
        OBVIOUS
      <4>1. P \in Seq(U)
        BY <1>a
      <4> QED BY <4>1
    <3> QED BY <3>1, <3>2
  <2>3. Splits(u, sep, P, a)
    BY <2>1 DEF Splits
  <2>4. Join(Append(P, a), sep) = u
    BY <1>3, <2>1
  <2>5. Append(u, c) \in Seq(Char)
    OBVIOUS
  <2>6. CASE c = sep
    <3>1. PICK Q : Q = Append(P, a)
      OBVIOUS
    <3>a. Q \in Seq(R) \ {<<>>}
      BY <3>1, AppendNonEmpty
    <3>b. Q \in Seq(R) /\ Q # <<>>
      BY <3>a
    <3>c. Append(Q, <<>>) \in Seq(R) \ {<<>>}
      BY <1>a, <3>b, AppendNonEmpty
    <3>2. Q \in Seq(R) /\ Q # <<>> /\ Append(Q, <<>>) \in Seq(R) \ {<<>>}
      BY <3>b, <3>c
    <3>3. Q \in Seq(Seq(Char)) /\ <<>> \in Seq(Char)
      <4> PICK U : U = Seq(Char)
        OBVIOUS
      <4>1. P \in Seq(U) /\ a \in U
        BY <2>2
      <4>2. Append(P, a) \in Seq(U)
        BY <4>1
      <4> QED BY <3>1, <4>2
    <3>4. Join(Append(Q, <<>>), sep) = Join(Q, sep) \o (<<sep>> \o <<>>)
      BY <3>2, <3>3, JoinAppend
    <3>5. u \o (<<sep>> \o <<>>) = Append(u, c)
      BY <2>6
    <3>6. Split(Append(u, c), sep) = Append(Q, <<>>)
      BY <2>2, <2>3, <2>6, <3>1, SplitOneMore DEF Splits
    <3> QED BY <2>4, <2>5, <3>1, <3>2, <3>4, <3>5, <3>6
  <2>7. CASE c # sep
    <3>1. PICK b : b = Append(a, c)
      OBVIOUS
    <3>2. b \in R
      <4>1. a \in Seq(Free(sep)) /\ c \in Free(sep)
        BY <1>1, <2>7 DEF Free
      <4> QED BY <1>1, <3>1, <4>1
    <3>3. Append(P, b) \in Seq(R) \ {<<>>}
      BY <3>2, AppendNonEmpty
    <3>4. Joined(Append(P, a \o <<c>>), sep, u \o <<c>>)
      <4>1. <<c>> \in Seq(Char) /\ Joined(Append(P, a), sep, u)
        BY <2>4 DEF Joined
      <4> QED BY <2>2, <4>1, JoinedLast, Zenon
    <3>5. a \o <<c>> = b /\ u \o <<c>> = Append(u, c)
      BY <2>2, <3>1
    <3>6. Split(Append(u, c), sep) = Append(P, b)
      BY <2>2, <2>3, <2>7, <3>1, SplitOneMore DEF Splits
    <3> QED BY <2>5, <3>3, <3>4, <3>5, <3>6 DEF Joined
  <2> QED BY <2>6, <2>7
<1>4. Seq(Char) \subseteq T
  <2> HIDE DEF T
  <2> QED BY <1>2, <1>3, SeqSetInduction
<1> QED BY <1>1, <1>4

LEMMA SetOf ==
    ASSUME NEW S, NEW s \in Seq(S)
    PROVE  /\ \A i \in 1 .. Len(s) : s[i] \in ToSet(s)
           /\ \A x \in ToSet(s) : \E i \in 1 .. Len(s) : x = s[i]
<1>1. DOMAIN s = 1 .. Len(s)
  OBVIOUS
<1> QED BY <1>1, Zenon DEF ToSet

\* The elements of s \o t.
Collected(s, t, u) == ToSet(u) = ToSet(s) \cup ToSet(t)

LEMMA SetOfConcat ==
    ASSUME NEW S, NEW s \in Seq(S), NEW t \in Seq(S)
    PROVE  Collected(s, t, s \o t)
<1>1. PICK u, m, n : u = s \o t /\ m = Len(s) /\ n = Len(t)
  OBVIOUS
<1>2. /\ u \in Seq(S) /\ Len(u) = m + n /\ m \in Nat /\ n \in Nat
      /\ \A i \in 1 .. m + n : u[i] = IF i <= m THEN s[i] ELSE t[i - m]
  BY <1>1, ConcatProperties
<1>4. ASSUME NEW x \in ToSet(u) PROVE x \in ToSet(s) \cup ToSet(t)
  <2>0. PICK i \in 1 .. m + n : x = u[i]
    BY <1>2, SetOf
  <2>1. i \in 1 .. m \/ (i - m \in 1 .. n /\ ~(i <= m))
    BY <1>2
  <2>2. i \in 1 .. m => x = s[i]
    BY <1>2, <2>0
  <2>3. i - m \in 1 .. n /\ ~(i <= m) => x = t[i - m]
    BY <1>2, <2>0
  <2>4. i \in 1 .. m => x \in ToSet(s)
    BY <1>1, <2>2, SetOf
  <2>5. i - m \in 1 .. n /\ ~(i <= m) => x \in ToSet(t)
    BY <1>1, <2>3, SetOf
  <2> QED BY <2>1, <2>4, <2>5
<1>5. ASSUME NEW x \in ToSet(s) PROVE x \in ToSet(u)
  <2>1. PICK i \in 1 .. m : x = s[i]
    BY <1>1, SetOf
  <2>2. i \in 1 .. m + n /\ u[i] = s[i]
    BY <1>2
  <2> QED BY <1>2, <2>1, <2>2, SetOf
<1>6. ASSUME NEW x \in ToSet(t) PROVE x \in ToSet(u)
  <2>1. PICK i \in 1 .. n : x = t[i]
    BY <1>1, SetOf
  <2>2. i + m \in 1 .. m + n /\ ~(i + m <= m) /\ (i + m) - m = i
    BY <1>2
  <2>3. u[i + m] = t[i]
    BY <1>2, <2>2
  <2> QED BY <1>2, <2>1, <2>2, <2>3, SetOf
<1>7. ToSet(u) = ToSet(s) \cup ToSet(t)
  BY <1>4, <1>5, <1>6, Zenon
<1> QED BY <1>1, <1>7, Zenon DEF Collected

LEMMA SetOfOne == \A x : ToSet(<<x>>) = {x}
  BY DEF ToSet

LEMMA SetOfAppend ==
    ASSUME NEW S, NEW s \in Seq(S), NEW x \in S
    PROVE  Collected(s, <<x>>, Append(s, x))
<1>1. s \o <<x>> = Append(s, x)
  OBVIOUS
<1>2. <<x>> \in Seq(S)
  OBVIOUS
<1>3. Collected(s, <<x>>, s \o <<x>>)
  BY <1>2, SetOfConcat, Zenon
<1> QED BY <1>1, <1>3

\* Leaving out the elements in S, one by one.
Dropping(R, S) == [x \in R |-> IF x \in S THEN <<>> ELSE <<x>>]

LEMMA DroppingFacts ==
    ASSUME NEW R, NEW S
    PROVE  /\ Dropping(R, S) \in Coding(R, R \ S)
           /\ \A x \in R : Dropping(R, S)[x] = IF x \in S THEN <<>> ELSE <<x>>
<1>1. ASSUME NEW x \in R PROVE (IF x \in S THEN <<>> ELSE <<x>>) \in Seq(R \ S)
  <2>1. <<>> \in Seq(R \ S)
    OBVIOUS
  <2>2. x \notin S => <<x>> \in Seq(R \ S)
    <3> SUFFICES ASSUME x \notin S PROVE <<x>> \in Seq(R \ S)
      OBVIOUS
    <3>1. PICK Q : Q = R \ S
      OBVIOUS
    <3>2. x \in Q
      BY <3>1
    <3>3. <<x>> \in Seq(Q)
      BY <3>2
    <3> QED BY <3>1, <3>3
  <2> QED BY <2>1, <2>2
<1> QED BY <1>1 DEF Dropping, Coding

Kept(seq, S, w) == Without(seq, S) = w

LEMMA WithoutMapped ==
    ASSUME NEW R, NEW S, NEW seq \in Seq(R)
    PROVE  Kept(seq, S, Mapped(seq, Dropping(R, S)))
<1>1. \A i \in DOMAIN seq : seq[i] \in R
  OBVIOUS
<1>a. \A i \in DOMAIN seq : Dropping(R, S)[seq[i]] = IF seq[i] \in S THEN <<>> ELSE <<seq[i]>>
  <2>1. PICK E : E = Dropping(R, S)
    OBVIOUS
  <2>2. \A x \in R : E[x] = IF x \in S THEN <<>> ELSE <<x>>
    BY <2>1 DEF Dropping
  <2>3. \A i \in DOMAIN seq : E[seq[i]] = IF seq[i] \in S THEN <<>> ELSE <<seq[i]>>
    BY <1>1, <2>2
  <2> QED BY <2>1, <2>3, Zenon
<1>2. [i \in DOMAIN seq |-> IF seq[i] \in S THEN <<>> ELSE <<seq[i]>>]
         = [i \in DOMAIN seq |-> Dropping(R, S)[seq[i]]]
  BY <1>a, Zenon
<1> QED BY <1>2, Zenon DEF Kept, Without, Mapped

LEMMA WithoutType ==
    ASSUME NEW R, NEW S, NEW seq \in Seq(R)
    PROVE  Without(seq, S) \in Seq(R \ S)
<1>1. Without(seq, S) = Mapped(seq, Dropping(R, S))
  BY WithoutMapped, Zenon DEF Kept
<1>2. Mapped(seq, Dropping(R, S)) \in Seq(R \ S)
  BY DroppingFacts, MappedType, Zenon
<1> QED BY <1>1, <1>2

LEMMA WithoutNone == \A S : Without(<<>>, S) = <<>>
<1> TAKE S
<1>1. <<>> \in Seq({})
  OBVIOUS
<1>2. Kept(<<>>, S, Mapped(<<>>, Dropping({}, S)))
  BY <1>1, WithoutMapped, Zenon
<1>3. Mapped(<<>>, Dropping({}, S)) = <<>>
  BY MappedNone
<1> QED BY <1>2, <1>3 DEF Kept

LEMMA WithoutAppend ==
    ASSUME NEW R, NEW S, NEW seq \in Seq(R), NEW x \in R
    PROVE  Without(Append(seq, x), S) = IF x \in S THEN Without(seq, S) ELSE Append(Without(seq, S), x)
<1>1. PICK E \in Coding(R, R \ S) : E = Dropping(R, S)
  BY DroppingFacts, Zenon
<1>2. E[x] = IF x \in S THEN <<>> ELSE <<x>>
  BY <1>1, DroppingFacts, Zenon
<1>3. PICK more, w : more = Append(seq, x) /\ w = Without(seq, S)
  OBVIOUS
<1>4. more \in Seq(R)
  BY <1>3
<1>5. Without(more, S) = Mapped(more, E) /\ w = Mapped(seq, E)
  BY <1>1, <1>3, <1>4, WithoutMapped, Zenon DEF Kept
<1>6. Mapped(more, E) = Mapped(seq, E) \o E[x]
  BY <1>3, MappedAppend
<1>7. w \in Seq(R \ S)
  BY <1>3, WithoutType, Zenon
<1>8. w \o <<>> = w /\ w \o <<x>> = Append(w, x)
  BY <1>7
<1> QED BY <1>2, <1>3, <1>5, <1>6, <1>8, Zenon

LEMMA WithoutConcat ==
    ASSUME NEW R, NEW S, NEW a \in Seq(R), NEW b \in Seq(R)
    PROVE  Kept(a \o b, S, Without(a, S) \o Without(b, S))
<1>1. PICK E \in Coding(R, R \ S) : E = Dropping(R, S)
  BY DroppingFacts, Zenon
<1>2. a \o b \in Seq(R)
  OBVIOUS
<1>3. Without(a \o b, S) = Mapped(a \o b, E) /\ Without(a, S) = Mapped(a, E) /\ Without(b, S) = Mapped(b, E)
  BY <1>1, <1>2, WithoutMapped, Zenon DEF Kept
<1>4. Mapped(a \o b, E) = Mapped(a, E) \o Mapped(b, E)
  BY MappedConcat
<1> QED BY <1>3, <1>4, Zenon DEF Kept

LEMMA WithoutOutside ==
    ASSUME NEW R, NEW S, NEW seq \in Seq(R), \A i \in 1 .. Len(seq) : seq[i] \notin S
    PROVE  Without(seq, S) = seq
<1>1. DOMAIN seq = 1 .. Len(seq)
  OBVIOUS
<1>2. PICK a : a = [i \in 1 .. Len(seq) |-> <<seq[i]>>]
  OBVIOUS
<1>3. Without(seq, S) = FlattenSeq(a)
  BY <1>1, <1>2, Zenon DEF Without
<1>4. FlattenSeq(a) = seq
  BY <1>2, FlattenSingles
<1> QED BY <1>3, <1>4, Zenon

\* What is left are the elements that are not in S.
LEMMA WithoutSet ==
    ASSUME NEW R, NEW S, NEW seq \in Seq(R)
    PROVE  ToSet(Without(seq, S)) = ToSet(seq) \ S
<1> DEFINE T == {s \in Seq(R) : ToSet(Without(s, S)) = ToSet(s) \ S}
<1>1. <<>> \in T
  <2>1. ToSet(<<>>) = {} /\ <<>> \in Seq(R)
    BY DEF ToSet
  <2> QED BY <2>1, WithoutNone
<1>2. ASSUME NEW s \in Seq(R), NEW x \in R, s \in T PROVE Append(s, x) \in T
  <2>1. PICK w, more : w = Without(s, S) /\ more = Append(s, x)
    OBVIOUS
  <2>2. w \in Seq(R) /\ more \in Seq(R)
    <3>1. w \in Seq(R \ S)
      BY <2>1, WithoutType, Zenon
    <3> QED BY <2>1, <3>1
  <2>3. ToSet(more) = ToSet(s) \cup {x}
    <3>1. Collected(s, <<x>>, more)
      BY <2>1, SetOfAppend, Zenon
    <3> QED BY <3>1, SetOfOne DEF Collected
  <2>4. ToSet(Append(w, x)) = ToSet(w) \cup {x}
    <3>1. Collected(w, <<x>>, Append(w, x))
      BY <2>2, SetOfAppend, Zenon
    <3> QED BY <3>1, SetOfOne DEF Collected
  <2>5. Without(more, S) = IF x \in S THEN w ELSE Append(w, x)
    BY <2>1, WithoutAppend
  <2>6. ToSet(w) = ToSet(s) \ S
    BY <1>2, <2>1
  <2> QED BY <2>1, <2>2, <2>3, <2>4, <2>5, <2>6
<1>3. Seq(R) \subseteq T
  <2> HIDE DEF T
  <2> QED BY <1>1, <1>2, SeqSetInduction
<1> QED BY <1>3

\* The pieces of a text.
Pieced(w, sep, ps) == Split(w, sep) = ps

LEMMA FreeTexts ==
    ASSUME NEW sep, NEW ps \in Seq(Seq(Free(sep)))
    PROVE  ps \in Seq(Seq(Char))
<1>1. PICK R, U : R = Seq(Free(sep)) /\ U = Seq(Char)
  OBVIOUS
<1>2. R \subseteq U
  BY <1>1 DEF Free
<1>3. ps \in Seq(R)
  BY <1>1
<1>4. ps \in Seq(U)
  BY <1>2, <1>3
<1> QED BY <1>1, <1>4

LEMMA SplitBoth ==
    ASSUME NEW sep \in Char, NEW x \in Seq(Char), NEW u \in Seq(Char)
    PROVE  Pieced(x \o (<<sep>> \o u), sep, Split(x, sep) \o Split(u, sep))
<1>1. PICK X, U, R : X = Split(x, sep) /\ U = Split(u, sep) /\ R = Seq(Free(sep))
  OBVIOUS
<1>2. X \in Seq(R) /\ X # <<>> /\ Join(X, sep) = x
  BY <1>1, JoinSplit, SplitType DEF Pieces
<1>3. U \in Seq(R) /\ U # <<>> /\ Join(U, sep) = u
  BY <1>1, JoinSplit, SplitType DEF Pieces
<1>4. PICK Y : Y = X \o U
  OBVIOUS
<1>5. Y \in Seq(R) /\ Y # <<>>
  BY <1>2, <1>3, <1>4
<1>6. X \in Seq(Seq(Char)) /\ U \in Seq(Seq(Char))
  BY <1>1, <1>2, <1>3, FreeTexts
<1>7. Join(X \o U, sep) = Join(X, sep) \o (<<sep>> \o Join(U, sep))
  BY <1>2, <1>3, <1>6, JoinConcat
<1>8. Split(Join(Y, sep), sep) = Y
  BY <1>1, <1>5, SplitJoin
<1>9. Split(x \o (<<sep>> \o u), sep) = X \o U
  BY <1>2, <1>3, <1>4, <1>7, <1>8
<1> QED BY <1>1, <1>9 DEF Pieced

\* Between two texts with another character between them, no piece ends.
LEMMA SplitMerge ==
    ASSUME NEW sep \in Char, NEW d \in Char, d # sep, NEW x \in Seq(Char), NEW u \in Seq(Char),
           NEW P \in Seq(Seq(Free(sep))), NEW a \in Seq(Free(sep)), Splits(x, sep, P, a),
           NEW b \in Seq(Free(sep)), NEW Q \in Seq(Seq(Free(sep))), Pieced(u, sep, <<b>> \o Q)
    PROVE  Pieced(x \o (<<d>> \o u), sep, Append(P, a \o (<<d>> \o b)) \o Q)
<1>1. PICK R, m, A, B : R = Seq(Free(sep)) /\ m = a \o (<<d>> \o b) /\ A = Append(P, a) /\ B = Append(P, m)
  OBVIOUS
<1>2. m \in R
  <2>1. d \in Free(sep)
    BY DEF Free
  <2> QED BY <1>1, <2>1
<1>3. B \in Seq(R) /\ B # <<>>
  <2>1. P \in Seq(R)
    BY <1>1
  <2>2. B \in Seq(R) \ {<<>>}
    BY <1>1, <1>2, <2>1, AppendNonEmpty
  <2> QED BY <2>2
<1>4. /\ P \in Seq(Seq(Char)) /\ Q \in Seq(Seq(Char)) /\ B \in Seq(Seq(Char))
      /\ a \in Seq(Char) /\ b \in Seq(Char) /\ <<d>> \o b \in Seq(Char)
  <2>1. P \in Seq(Seq(Char)) /\ Q \in Seq(Seq(Char))
    BY FreeTexts
  <2>2. B \in Seq(Seq(Char))
    BY <1>1, <1>3, FreeTexts
  <2>3. a \in Seq(Char) /\ b \in Seq(Char)
    BY DEF Free
  <2>4. <<d>> \o b \in Seq(Char)
    BY <2>3
  <2> QED BY <2>1, <2>2, <2>3, <2>4
<1>5. Joined(A, sep, x)
  BY <1>1, JoinSplit DEF Splits, Joined
<1>6. Joined(B, sep, x \o (<<d>> \o b))
  BY <1>1, <1>4, <1>5, JoinedLast, Zenon
<1>7. Join(<<b>> \o Q, sep) = u
  BY JoinSplit DEF Pieced
<1>8. CASE Q = <<>>
  <2>1. <<b>> \o Q = <<b>> /\ B \o Q = B
    BY <1>3, <1>8
  <2>2. u = b
    BY <1>4, <1>7, <2>1, JoinOne
  <2>3. Split(Join(B, sep), sep) = B
    BY <1>1, <1>3, SplitJoin
  <2> QED BY <1>1, <1>6, <2>1, <2>2, <2>3 DEF Pieced, Joined
<1>9. CASE Q # <<>>
  <2>1. PICK q, r : q = Join(Q, sep) /\ r = <<sep>> \o q
    OBVIOUS
  <2>2. q \in Seq(Char)
    BY <1>4, <2>1, JoinType
  <2>a. r \in Seq(Char)
    BY <2>1, <2>2
  <2>3. u = b \o r
    <3>1. <<b>> \in Seq(Seq(Char)) /\ <<b>> # <<>>
      <4> PICK U : U = Seq(Char)
        OBVIOUS
      <4>1. b \in U
        BY <1>4
      <4>2. <<b>> \in Seq(U) /\ <<b>> # <<>>
        BY <4>1
      <4> QED BY <4>2
    <3>2. Join(<<b>> \o Q, sep) = Join(<<b>>, sep) \o (<<sep>> \o Join(Q, sep))
      BY <1>4, <1>9, <3>1, JoinConcat
    <3>3. Join(<<b>>, sep) = b
      BY <1>4, JoinOne
    <3> QED BY <1>7, <2>1, <3>2, <3>3
  <2>4. Join(B \o Q, sep) = Join(B, sep) \o r
    BY <1>3, <1>4, <1>9, <2>1, JoinConcat
  <2>5. (x \o (<<d>> \o b)) \o r = x \o (<<d>> \o (b \o r))
    <3>1. <<d>> \in Seq(Char)
      OBVIOUS
    <3>2. GoesOn(x, <<d>>, b, r)
      BY <1>4, <2>a, <3>1, ConcatFour, Zenon
    <3> QED BY <3>2 DEF GoesOn
  <2>6. PICK Y : Y = B \o Q
    OBVIOUS
  <2>7. Y \in Seq(R) /\ Y # <<>>
    <3>1. Q \in Seq(R)
      BY <1>1
    <3> QED BY <1>3, <2>6, <3>1
  <2>8. Split(Join(Y, sep), sep) = Y
    BY <1>1, <2>7, SplitJoin
  <2> QED BY <1>1, <1>6, <2>3, <2>4, <2>5, <2>6, <2>8 DEF Pieced, Joined
<1> QED BY <1>8, <1>9

-----------------------------------------------------------------------------
(* What the server makes of a command *)

ParamOf(word) == << <<word[1]>>, ServerUnescape(SubSeq(word, 3, Len(word))) >>

ParamsIn(text) == {ParamOf(word) : word \in ToSet(NonEmpty(Split(text, " ")))}

\* Segment by segment, but not in which order.
ReadSet(text) == {ParamsIn(segment) : segment \in ToSet(Split(text, "|"))}

\* No word of it is a switch, or empty.
WordsNamed(text) == \A w \in ToSet(Split(text, " ")) : w # <<>> /\ w[1] \in Word

LEMMA WordFacts ==
    /\ Word \subseteq Char /\ " " \in Char /\ "|" \in Char /\ "=" \in Char /\ "-" \in Char
    /\ \A w \in Word : /\ w # " " /\ w # "|" /\ w # "=" /\ w # "\n" /\ w # "\r"
                       /\ w # "-" /\ w # "notify" /\ w # "error"
<1>1. " " \in Char /\ "|" \in Char /\ "=" \in Char /\ "-" \in Char
  BY WireAssumption
<1> QED BY <1>1 DEF Word

LEMMA PiecesTyped ==
    ASSUME NEW sep \in Char, NEW t \in Seq(Char)
    PROVE  /\ Split(t, sep) \in Seq(Seq(Char)) /\ Split(t, sep) # <<>>
           /\ \A w \in ToSet(Split(t, sep)) : w \in Seq(Free(sep)) /\ w \in Seq(Char)
<1>1. Split(t, sep) \in Seq(Seq(Char)) /\ Split(t, sep) # <<>>
  BY SplitType DEF Pieces
<1>2. PICK ps, R : ps = Split(t, sep) /\ R = Seq(Free(sep))
  OBVIOUS
<1>3. ps \in Seq(R) /\ R \subseteq Seq(Char)
  BY <1>2, JoinSplit DEF Free
<1>4. \A i \in 1 .. Len(ps) : ps[i] \in R
  BY <1>3
<1>5. \A w \in ToSet(ps) : w \in R
  BY <1>3, <1>4, SetOf
<1> QED BY <1>1, <1>2, <1>3, <1>5

LEMMA ParamsInFacts ==
    ASSUME NEW t \in Seq(Char)
    PROVE  ParamsIn(t) = {ParamOf(w) : w \in ToSet(Split(t, " ")) \ {<<>>}}
<1>1. PICK ps : ps = Split(t, " ")
  OBVIOUS
<1>2. ps \in Seq(Seq(Char))
  BY <1>1, WordFacts, PiecesTyped
<1>3. ToSet(Without(ps, {<<>>})) = ToSet(ps) \ {<<>>}
  BY <1>2, WithoutSet
<1> QED BY <1>1, <1>3, Zenon DEF ParamsIn, NonEmpty

Spaced(x, u) == x \o (<<" ">> \o u)
Barred(x, u) == x \o (<<"|">> \o u)

LEMMA SpacedType ==
    ASSUME NEW x \in Seq(Char), NEW u \in Seq(Char)
    PROVE  /\ Spaced(x, u) \in Seq(Char) /\ Spaced(x, u) # <<>>
           /\ Barred(x, u) \in Seq(Char) /\ Barred(x, u) # <<>>
<1>1. ASSUME NEW c \in Char PROVE <<c>> \o u \in Seq(Char) /\ Len(<<c>> \o u) = 1 + Len(u)
  <2>1. <<c>> \in Seq(Char) /\ Len(<<c>>) = 1
    OBVIOUS
  <2>2. PICK p \in Seq(Char) : p = <<c>>
    BY <2>1
  <2>3. p \o u \in Seq(Char) /\ Len(p \o u) = Len(p) + Len(u)
    OBVIOUS
  <2> QED BY <2>1, <2>2, <2>3
<1>2. PICK d, e : d = <<" ">> \o u /\ e = <<"|">> \o u
  OBVIOUS
<1>a. " " \in Char /\ "|" \in Char
  BY WordFacts
<1>3. d \in Seq(Char) /\ Len(d) = 1 + Len(u)
  BY <1>1, <1>2, <1>a
<1>b. e \in Seq(Char) /\ Len(e) = 1 + Len(u)
  BY <1>1, <1>2, <1>a
<1>4. ASSUME NEW v \in Seq(Char), Len(v) = 1 + Len(u) PROVE x \o v \in Seq(Char) /\ x \o v # <<>>
  <2>1. x \o v \in Seq(Char) /\ Len(x \o v) = Len(x) + Len(v)
    OBVIOUS
  <2>2. Len(x \o v) # Len(<<>>)
    BY <1>4, <2>1
  <2> QED BY <2>1, <2>2
<1>5. x \o d \in Seq(Char) /\ x \o d # <<>>
  BY <1>3, <1>4
<1>6. x \o e \in Seq(Char) /\ x \o e # <<>>
  BY <1>b, <1>4
<1> QED BY <1>2, <1>5, <1>6 DEF Spaced, Barred

\* Split at sep, x and u are pieces, but for the last of x and the first of u
\* with what stands between them.
Meets(sep, d, x, u, w) ==
    \E P, Q \in Seq(Seq(Free(sep))), a, b \in Seq(Free(sep)) :
       /\ ToSet(Split(x, sep)) = ToSet(P) \cup {a}
       /\ ToSet(Split(u, sep)) = {b} \cup ToSet(Q)
       /\ ToSet(Split(w, sep)) = (ToSet(P) \cup {a \o (<<d>> \o b)}) \cup ToSet(Q)
       /\ Len(Split(x, sep)) = Len(P) + 1 /\ Len(Split(u, sep)) = 1 + Len(Q)

LEMMA FirstRest ==
    ASSUME NEW S, NEW s \in Seq(S), s # <<>>
    PROVE  \E b \in S, Q \in Seq(S) : s = <<b>> \o Q
<1>1. s[1] \in S /\ Tail(s) \in Seq(S)
  OBVIOUS
<1>2. s = <<s[1]>> \o Tail(s)
  OBVIOUS
<1> QED BY <1>1, <1>2

LEMMA SplitMeets ==
    ASSUME NEW sep \in Char, NEW d \in Char, d # sep, NEW x \in Seq(Char), NEW u \in Seq(Char)
    PROVE  Meets(sep, d, x, u, x \o (<<d>> \o u))
<1>1. PICK X, U, R : X = Split(x, sep) /\ U = Split(u, sep) /\ R = Seq(Free(sep))
  OBVIOUS
<1>2. X \in Seq(R) /\ X # <<>> /\ U \in Seq(R) /\ U # <<>>
  BY <1>1, JoinSplit, SplitType DEF Pieces
<1>3. PICK P \in Seq(R), a \in R : X = Append(P, a)
  BY <1>2, FrontLast
<1>4. PICK b \in R, Q \in Seq(R) : U = <<b>> \o Q
  BY <1>2, FirstRest
<1>5. Splits(x, sep, P, a) /\ Pieced(u, sep, <<b>> \o Q)
  BY <1>1, <1>3, <1>4 DEF Splits, Pieced
<1>6. PICK w, m, B : w = x \o (<<d>> \o u) /\ m = a \o (<<d>> \o b) /\ B = Append(P, m)
  OBVIOUS
<1>7. Pieced(w, sep, B \o Q)
  BY <1>1, <1>5, <1>6, SplitMerge
<1>8. m \in R
  <2>1. d \in Free(sep) /\ a \in Seq(Free(sep)) /\ b \in Seq(Free(sep))
    BY <1>1 DEF Free
  <2> QED BY <1>1, <1>6, <2>1
<1>9. B \in Seq(R) /\ <<b>> \in Seq(R)
  BY <1>6, <1>8
<1>10. ToSet(X) = ToSet(P) \cup {a}
  <2>1. Collected(P, <<a>>, X)
    BY <1>3, SetOfAppend, Zenon
  <2> QED BY <2>1, SetOfOne DEF Collected
<1>11. ToSet(U) = {b} \cup ToSet(Q)
  <2>1. Collected(<<b>>, Q, <<b>> \o Q)
    BY <1>9, SetOfConcat, Zenon
  <2> QED BY <1>4, <2>1, SetOfOne DEF Collected
<1>12. ToSet(B \o Q) = (ToSet(P) \cup {m}) \cup ToSet(Q)
  <2>1. Collected(B, Q, B \o Q)
    BY <1>9, SetOfConcat, Zenon
  <2>2. Collected(P, <<m>>, B)
    BY <1>6, <1>8, SetOfAppend, Zenon
  <2> QED BY <2>1, <2>2, SetOfOne DEF Collected
<1>13. Len(X) = Len(P) + 1 /\ Len(U) = 1 + Len(Q)
  BY <1>3, <1>4
<1>14. Split(w, sep) = B \o Q
  BY <1>7 DEF Pieced
<1>15. /\ P \in Seq(Seq(Free(sep))) /\ Q \in Seq(Seq(Free(sep)))
       /\ a \in Seq(Free(sep)) /\ b \in Seq(Free(sep))
  BY <1>1
<1>16. Meets(sep, d, x, u, w)
  BY <1>1, <1>6, <1>10, <1>11, <1>12, <1>13, <1>14, <1>15, Zenon DEF Meets
<1> QED BY <1>6, <1>16

\* Of a sequence of one kind all are of that kind.
LEMMA AllIn ==
    ASSUME NEW S, NEW s \in Seq(S)
    PROVE  \A x \in ToSet(s) : x \in S
<1>1. \A i \in 1 .. Len(s) : s[i] \in S
  OBVIOUS
<1> QED BY <1>1, SetOf

LEMMA FreeChars == \A sep : Seq(Free(sep)) \subseteq Seq(Char)
<1>1. \A sep : Free(sep) \subseteq Char
  BY DEF Free
<1> QED BY <1>1

\* All the parameters in it, whatever the segments.
Content(text) == UNION ReadSet(text)

SameContent(x, u, w) == Content(w) = Content(x) \cup Content(u)

SameParams(x, u, w) == ParamsIn(w) = ParamsIn(x) \cup ParamsIn(u)

LEMMA SpacedParams ==
    ASSUME NEW x \in Seq(Char), NEW u \in Seq(Char)
    PROVE  SameParams(x, u, Spaced(x, u))
<1>1. PICK w : w = Spaced(x, u)
  OBVIOUS
<1>2. w \in Seq(Char)
  BY <1>1, SpacedType
<1>3. PICK X, U, R : X = Split(x, " ") /\ U = Split(u, " ") /\ R = Seq(Char)
  OBVIOUS
<1>4. X \in Seq(R) /\ U \in Seq(R)
  BY <1>3, PiecesTyped, WordFacts
<1>5. Pieced(w, " ", X \o U)
  BY <1>1, <1>3, SplitBoth, WordFacts, Zenon DEF Spaced
<1>6. Collected(X, U, X \o U)
  BY <1>4, SetOfConcat, Zenon
<1>7. ToSet(Split(w, " ")) = ToSet(X) \cup ToSet(U)
  BY <1>5, <1>6, Zenon DEF Pieced, Collected
<1>8. ParamsIn(w) = {ParamOf(v) : v \in ToSet(Split(w, " ")) \ {<<>>}}
  BY <1>2, ParamsInFacts, Zenon
<1>9. ParamsIn(x) = {ParamOf(v) : v \in ToSet(X) \ {<<>>}}
  BY <1>3, ParamsInFacts, Zenon
<1>10. ParamsIn(u) = {ParamOf(v) : v \in ToSet(U) \ {<<>>}}
  BY <1>3, ParamsInFacts, Zenon
<1>11. ParamsIn(w) = ParamsIn(x) \cup ParamsIn(u)
  BY <1>7, <1>8, <1>9, <1>10
<1> QED BY <1>1, <1>11 DEF SameParams

LEMMA SpacedNamed ==
    ASSUME NEW x \in Seq(Char), NEW u \in Seq(Char), WordsNamed(x), WordsNamed(u)
    PROVE  WordsNamed(Spaced(x, u))
<1>1. PICK w : w = Spaced(x, u)
  OBVIOUS
<1>3. PICK X, U, R : X = Split(x, " ") /\ U = Split(u, " ") /\ R = Seq(Char)
  OBVIOUS
<1>4. X \in Seq(R) /\ U \in Seq(R)
  BY <1>3, PiecesTyped, WordFacts
<1>5. Pieced(w, " ", X \o U)
  BY <1>1, <1>3, SplitBoth, WordFacts, Zenon DEF Spaced
<1>6. Collected(X, U, X \o U)
  BY <1>4, SetOfConcat, Zenon
<1>7. ToSet(Split(w, " ")) = ToSet(X) \cup ToSet(U)
  BY <1>5, <1>6, Zenon DEF Pieced, Collected
<1>8. WordsNamed(w)
  BY <1>3, <1>7, Zenon DEF WordsNamed
<1> QED BY <1>1, <1>8

LEMMA BarredReads ==
    ASSUME NEW x \in Seq(Char), NEW u \in Seq(Char)
    PROVE  /\ ReadSet(Barred(x, u)) = ReadSet(x) \cup ReadSet(u)
           /\ SameContent(x, u, Barred(x, u))
<1>1. PICK w : w = Barred(x, u)
  OBVIOUS
<1>3. PICK X, U, R : X = Split(x, "|") /\ U = Split(u, "|") /\ R = Seq(Char)
  OBVIOUS
<1>4. X \in Seq(R) /\ U \in Seq(R)
  BY <1>3, PiecesTyped, WordFacts
<1>5. Pieced(w, "|", X \o U)
  BY <1>1, <1>3, SplitBoth, WordFacts, Zenon DEF Barred
<1>6. Collected(X, U, X \o U)
  BY <1>4, SetOfConcat, Zenon
<1>7. ToSet(Split(w, "|")) = ToSet(X) \cup ToSet(U)
  BY <1>5, <1>6, Zenon DEF Pieced, Collected
<1>8. ReadSet(w) = ReadSet(x) \cup ReadSet(u)
  BY <1>3, <1>7 DEF ReadSet
<1>9. Content(w) = Content(x) \cup Content(u)
  BY <1>8 DEF Content
<1> QED BY <1>1, <1>8, <1>9 DEF SameContent

LEMMA OneMore ==
    ASSUME NEW S, NEW d \in S, NEW b \in Seq(S)
    PROVE  <<d>> \in Seq(S) /\ <<d>> \o b \in Seq(S)
<1>1. <<d>> \in Seq(S)
  OBVIOUS
<1>2. PICK f : f = <<d>>
  OBVIOUS
<1>3. f \in Seq(S)
  BY <1>1, <1>2
<1>4. f \o b \in Seq(S)
  BY <1>3
<1> QED BY <1>2, <1>3, <1>4

LEMMA FirstOf ==
    ASSUME NEW a \in Seq(Char), a # <<>>, NEW d \in Char, NEW b \in Seq(Char)
    PROVE  (a \o (<<d>> \o b))[1] = a[1] /\ a \o (<<d>> \o b) # <<>>
<1>1. PICK e \in Seq(Char) : e = <<d>> \o b
  BY OneMore
<1>2. Len(a) # 0
  OBVIOUS
<1>3. (a \o e)[1] = a[1]
  BY <1>2
<1>4. Len(a \o e) # 0
  BY <1>2
<1>5. a \o e # <<>>
  BY <1>4
<1> QED BY <1>1, <1>3, <1>5

LEMMA BarredNamed ==
    ASSUME NEW x \in Seq(Char), NEW u \in Seq(Char), WordsNamed(x), WordsNamed(u)
    PROVE  WordsNamed(Barred(x, u))
<1>1. PICK w : w = Barred(x, u)
  OBVIOUS
<1>2. Meets(" ", "|", x, u, w)
  BY <1>1, SplitMeets, WordFacts DEF Barred
<1>3. PICK P \in Seq(Seq(Free(" "))), Q \in Seq(Seq(Free(" "))), a \in Seq(Free(" ")), b \in Seq(Free(" ")) :
         /\ ToSet(Split(x, " ")) = ToSet(P) \cup {a}
         /\ ToSet(Split(u, " ")) = {b} \cup ToSet(Q)
         /\ ToSet(Split(w, " ")) = (ToSet(P) \cup {a \o (<<"|">> \o b)}) \cup ToSet(Q)
  BY <1>2, Zenon DEF Meets
<1>4. a \in Seq(Char) /\ b \in Seq(Char)
  BY <1>3, FreeChars
<1>5. a # <<>> /\ a[1] \in Word
  BY <1>3 DEF WordsNamed
<1>6. PICK m : m = a \o (<<"|">> \o b)
  OBVIOUS
<1>7. m # <<>> /\ m[1] \in Word
  BY <1>4, <1>5, <1>6, FirstOf, WordFacts
<1>8. WordsNamed(w)
  BY <1>3, <1>6, <1>7, Zenon DEF WordsNamed
<1> QED BY <1>1, <1>8

\* In no segment a parameter has two values.
Single(S) == \A p, q \in S : p[1] = q[1] => p = q
Tidy(text) == \A S \in ReadSet(text) : Single(S)

\* No parameter is named in both.
Apart(A, B) == \A p \in A, q \in B : p[1] # q[1]

\* Segment by segment the parameters of x and of u, those of the last of x
\* with those of the first of u.
Merges(x, u, w) ==
    \E A \in ReadSet(x), B \in ReadSet(u) :
       /\ ReadSet(w) \subseteq (ReadSet(x) \cup ReadSet(u)) \cup {A \cup B}
       /\ (ReadSet(x) \ {A}) \cup (ReadSet(u) \ {B}) \cup {A \cup B} \subseteq ReadSet(w)

LEMMA SpacedReads ==
    ASSUME NEW x \in Seq(Char), NEW u \in Seq(Char)
    PROVE  Merges(x, u, Spaced(x, u))
<1>1. PICK w : w = Spaced(x, u)
  OBVIOUS
<1>2. Meets("|", " ", x, u, w)
  BY <1>1, SplitMeets, WordFacts DEF Spaced
<1>3. PICK P \in Seq(Seq(Free("|"))), Q \in Seq(Seq(Free("|"))), a \in Seq(Free("|")), b \in Seq(Free("|")) :
         /\ ToSet(Split(x, "|")) = ToSet(P) \cup {a}
         /\ ToSet(Split(u, "|")) = {b} \cup ToSet(Q)
         /\ ToSet(Split(w, "|")) = (ToSet(P) \cup {a \o (<<" ">> \o b)}) \cup ToSet(Q)
  BY <1>2, Zenon DEF Meets
<1>4. a \in Seq(Char) /\ b \in Seq(Char)
  BY <1>3, FreeChars
<1>5. SameParams(a, b, Spaced(a, b))
  BY <1>4, SpacedParams
<1>6. ParamsIn(a \o (<<" ">> \o b)) = ParamsIn(a) \cup ParamsIn(b)
  BY <1>5, Zenon DEF SameParams, Spaced
<1> DEFINE Of(T) == {ParamsIn(s) : s \in T}
<1>7. ReadSet(x) = Of(ToSet(P)) \cup {ParamsIn(a)}
  BY <1>3 DEF ReadSet
<1>8. ReadSet(u) = {ParamsIn(b)} \cup Of(ToSet(Q))
  BY <1>3 DEF ReadSet
<1>9. ReadSet(w) = (Of(ToSet(P)) \cup {ParamsIn(a \o (<<" ">> \o b))}) \cup Of(ToSet(Q))
  BY <1>3 DEF ReadSet
<1> HIDE DEF Of
<1>10. PICK L, M, A, B : L = Of(ToSet(P)) /\ M = Of(ToSet(Q)) /\ A = ParamsIn(a) /\ B = ParamsIn(b)
  OBVIOUS
<1>11. ReadSet(x) = L \cup {A} /\ ReadSet(u) = {B} \cup M
  BY <1>7, <1>8, <1>10
<1>12. ReadSet(w) = (L \cup {A \cup B}) \cup M
  BY <1>6, <1>9, <1>10
<1>a. A \in ReadSet(x) /\ B \in ReadSet(u)
  BY <1>11
<1>b. ReadSet(w) \subseteq (ReadSet(x) \cup ReadSet(u)) \cup {A \cup B}
  BY <1>11, <1>12
<1>c. (ReadSet(x) \ {A}) \cup (ReadSet(u) \ {B}) \cup {A \cup B} \subseteq ReadSet(w)
  BY <1>11, <1>12
<1>13. Merges(x, u, w)
  BY <1>a, <1>b, <1>c, Zenon DEF Merges
<1> QED BY <1>1, <1>13

LEMMA SpacedContent ==
    ASSUME NEW x \in Seq(Char), NEW u \in Seq(Char)
    PROVE  SameContent(x, u, Spaced(x, u))
<1>1. PICK w : w = Spaced(x, u)
  OBVIOUS
<1>2. Merges(x, u, w)
  BY <1>1, SpacedReads
<1>3. PICK A \in ReadSet(x), B \in ReadSet(u) :
         /\ ReadSet(w) \subseteq (ReadSet(x) \cup ReadSet(u)) \cup {A \cup B}
         /\ (ReadSet(x) \ {A}) \cup (ReadSet(u) \ {B}) \cup {A \cup B} \subseteq ReadSet(w)
  BY <1>2 DEF Merges
<1>4. ASSUME NEW p \in Content(w) PROVE p \in Content(x) \cup Content(u)
  <2>1. PICK S \in ReadSet(w) : p \in S
    BY DEF Content
  <2> QED BY <1>3, <2>1 DEF Content
<1>5. ASSUME NEW p \in Content(x) PROVE p \in Content(w)
  <2>1. PICK S \in ReadSet(x) : p \in S
    BY DEF Content
  <2> QED BY <1>3, <2>1 DEF Content
<1>6. ASSUME NEW p \in Content(u) PROVE p \in Content(w)
  <2>1. PICK S \in ReadSet(u) : p \in S
    BY DEF Content
  <2> QED BY <1>3, <2>1 DEF Content
<1>7. Content(w) = Content(x) \cup Content(u)
  BY <1>4, <1>5, <1>6
<1> QED BY <1>1, <1>7 DEF SameContent

LEMMA SpacedTidy ==
    ASSUME NEW x \in Seq(Char), NEW u \in Seq(Char), Tidy(x), Tidy(u), Apart(Content(x), Content(u))
    PROVE  Tidy(Spaced(x, u))
<1>1. PICK w : w = Spaced(x, u)
  OBVIOUS
<1>2. Merges(x, u, w)
  BY <1>1, SpacedReads
<1>3. PICK A \in ReadSet(x), B \in ReadSet(u) :
         ReadSet(w) \subseteq (ReadSet(x) \cup ReadSet(u)) \cup {A \cup B}
  BY <1>2 DEF Merges
<1>4. A \subseteq Content(x) /\ B \subseteq Content(u)
  BY <1>3 DEF Content
<1>5. Single(A) /\ Single(B) /\ Apart(A, B)
  BY <1>3, <1>4 DEF Tidy, Apart
<1>6. Single(A \cup B)
  <2> SUFFICES ASSUME NEW p \in A \cup B, NEW q \in A \cup B, p[1] = q[1] PROVE p = q
    BY DEF Single
  <2>1. CASE p \in A /\ q \in A
    BY <1>5, <2>1, Zenon DEF Single
  <2>2. CASE p \in B /\ q \in B
    BY <1>5, <2>2, Zenon DEF Single
  <2>3. ~(p \in A /\ q \in B) /\ ~(p \in B /\ q \in A)
    BY <1>5 DEF Apart
  <2> QED BY <2>1, <2>2, <2>3
<1>7. Tidy(w)
  BY <1>3, <1>6 DEF Tidy
<1> QED BY <1>1, <1>7

LEMMA BarredTidy ==
    ASSUME NEW x \in Seq(Char), NEW u \in Seq(Char), Tidy(x), Tidy(u)
    PROVE  Tidy(Barred(x, u))
BY BarredReads DEF Tidy

\* One segment.
Whole(text) == text \in Seq(Free("|"))

LEMMA WholeReads ==
    ASSUME NEW x \in Seq(Char), Whole(x)
    PROVE  ReadSet(x) = {ParamsIn(x)} /\ Content(x) = ParamsIn(x)
<1>1. Split(x, "|") = <<x>>
  BY SplitFree DEF Whole
<1>2. ToSet(Split(x, "|")) = {x}
  BY <1>1, SetOfOne
<1> QED BY <1>2 DEF ReadSet, Content

LEMMA SpacedWhole ==
    ASSUME NEW x \in Seq(Char), NEW u \in Seq(Char), Whole(x), Whole(u)
    PROVE  Whole(Spaced(x, u))
<1>1. " " \in Free("|")
  BY WordFacts DEF Free
<1>2. PICK F : F = Free("|")
  OBVIOUS
<1>4. x \in Seq(F) /\ u \in Seq(F)
  BY <1>2 DEF Whole
<1>3. " " \in F
  BY <1>1, <1>2
<1>5. PICK e \in Seq(F) : e = <<" ">> \o u
  BY <1>3, <1>4, OneMore
<1>6. x \o e \in Seq(F)
  BY <1>4
<1> QED BY <1>2, <1>5, <1>6 DEF Whole, Spaced

\* The elements one by one made into something else.
Imaged(s, E) == [i \in DOMAIN s |-> E[s[i]]]

Imaging(R, s, E, u) ==
    u \in Seq(R) /\ Len(u) = Len(s) /\ \A i \in 1 .. Len(s) : u[i] = E[s[i]]

LEMMA ImagedFacts ==
    ASSUME NEW S, NEW R, NEW E \in [S -> R], NEW s \in Seq(S)
    PROVE  Imaging(R, s, E, Imaged(s, E))
<1>1. PICK n \in Nat : n = Len(s)
  OBVIOUS
<1>2. DOMAIN s = 1 .. n /\ \A i \in 1 .. n : s[i] \in S
  BY <1>1
<1>3. Imaged(s, E) = [i \in 1 .. n |-> E[s[i]]]
  BY <1>2 DEF Imaged
<1>4. \A i \in 1 .. n : E[s[i]] \in R
  BY <1>2
<1> QED BY <1>1, <1>2, <1>3, <1>4 DEF Imaging

Images(s, E, w) == Imaged(s, E) = w

LEMMA ImagedAppend ==
    ASSUME NEW S, NEW R, NEW E \in [S -> R], NEW s \in Seq(S), NEW c \in S
    PROVE  Images(Append(s, c), E, Append(Imaged(s, E), E[c]))
<1>1. PICK n \in Nat : n = Len(s)
  OBVIOUS
<1>2. PICK a, u, b, e : a = Append(s, c) /\ u = Imaged(s, E) /\ b = Imaged(a, E) /\ e = E[c]
  OBVIOUS
<1>3. /\ a \in Seq(S) /\ Len(a) = n + 1 /\ a[n + 1] = c
      /\ \A i \in 1 .. n : a[i] = s[i]
  BY <1>1, <1>2
<1>4. u \in Seq(R) /\ Len(u) = n /\ \A i \in 1 .. n : u[i] = E[s[i]]
  <2>1. Imaging(R, s, E, u)
    BY <1>2, ImagedFacts, Zenon
  <2> QED BY <1>1, <2>1 DEF Imaging
<1>5. b \in Seq(R) /\ Len(b) = n + 1 /\ \A i \in 1 .. n + 1 : b[i] = E[a[i]]
  <2>1. Imaging(R, a, E, b)
    BY <1>2, <1>3, ImagedFacts, Zenon
  <2> QED BY <1>3, <2>1 DEF Imaging
<1>6. e \in R
  BY <1>2
<1>7. b = Append(u, e)
  <2>1. Append(u, e) \in Seq(R) /\ Len(Append(u, e)) = n + 1 /\ Append(u, e)[n + 1] = e
    BY <1>4, <1>6
  <2>2. \A i \in 1 .. n : Append(u, e)[i] = u[i]
    BY <1>4, <1>6
  <2>3. ASSUME NEW i \in 1 .. n + 1 PROVE b[i] = Append(u, e)[i]
    <3>1. CASE i = n + 1
      BY <1>2, <1>3, <1>5, <2>1, <3>1
    <3>2. CASE i # n + 1
      <4>1. i \in 1 .. n
        BY <3>2
      <4> QED BY <1>3, <1>4, <1>5, <2>2, <4>1
    <3> QED BY <3>1, <3>2
  <2> QED BY <1>5, <2>1, <2>3, SeqEqual
<1> QED BY <1>2, <1>7 DEF Images

LEMMA ImagedSet ==
    ASSUME NEW S, NEW R, NEW E \in [S -> R], NEW s \in Seq(S)
    PROVE  ToSet(Imaged(s, E)) = {E[x] : x \in ToSet(s)}
<1>1. PICK u : u = Imaged(s, E)
  OBVIOUS
<1>2. u \in Seq(R) /\ Len(u) = Len(s) /\ \A i \in 1 .. Len(s) : u[i] = E[s[i]]
  <2>1. Imaging(R, s, E, u)
    BY <1>1, ImagedFacts, Zenon
  <2> QED BY <2>1 DEF Imaging
<1>3. ASSUME NEW y \in ToSet(u) PROVE \E x \in ToSet(s) : y = E[x]
  <2>1. PICK i \in 1 .. Len(u) : y = u[i]
    BY <1>2, SetOf
  <2> QED BY <1>2, <2>1, SetOf
<1>4. ASSUME NEW x \in ToSet(s) PROVE E[x] \in ToSet(u)
  <2>1. PICK i \in 1 .. Len(s) : x = s[i]
    BY SetOf
  <2>2. u[i] \in ToSet(u)
    BY <1>2, SetOf
  <2> QED BY <1>2, <2>1, <2>2
<1>5. ToSet(u) = {E[x] : x \in ToSet(s)}
  BY <1>3, <1>4
<1> QED BY <1>1, <1>5

-----------------------------------------------------------------------------
(* What render_command() makes of parameters, blocks and switches *)

LEMMA EscapeType ==
    ASSUME NEW t \in Seq(Char)
    PROVE  Escape(t) \in Seq(Safe)
BY EscapeMapped, CodedFacts, MappedType

LEMMA TwoMore ==
    ASSUME NEW S, NEW a \in S, NEW b \in S, NEW s \in Seq(S)
    PROVE  /\ <<a, b>> \o s \in Seq(S) /\ <<a, b>> \o s # <<>> /\ (<<a, b>> \o s)[1] = a
           /\ SubSeq(<<a, b>> \o s, 3, Len(<<a, b>> \o s)) = s
<1>1. <<a, b>> \in Seq(S) /\ Len(<<a, b>>) = 2 /\ <<a, b>>[1] = a
  OBVIOUS
<1>2. PICK p \in Seq(S) : p = <<a, b>>
  BY <1>1
<1>3. Len(p) = 2 /\ p[1] = a
  BY <1>1, <1>2
<1>4. PICK n \in Nat : n = Len(s)
  OBVIOUS
<1>5. PICK w : w = p \o s
  OBVIOUS
<1>6. w \in Seq(S) /\ Len(w) = n + 2
  <2>1. p \o s \in Seq(S) /\ Len(p \o s) = Len(p) + Len(s)
    OBVIOUS
  <2> QED BY <1>3, <1>4, <1>5, <2>1
<1>a. \A i \in 1 .. Len(p) + Len(s) : (p \o s)[i] = IF i <= Len(p) THEN p[i] ELSE s[i - Len(p)]
  OBVIOUS
<1>b. \A i \in 1 .. n + 2 : w[i] = IF i <= 2 THEN p[i] ELSE s[i - 2]
  <2>1. Len(p) + Len(s) = n + 2
    BY <1>3, <1>4
  <2>2. \A i \in 1 .. n + 2 : (p \o s)[i] = IF i <= Len(p) THEN p[i] ELSE s[i - Len(p)]
    BY <1>a, <2>1
  <2> QED BY <1>3, <1>5, <2>2
<1>7. w[1] = a
  BY <1>3, <1>4, <1>b
<1>8. w # <<>>
  BY <1>6
<1>9. SubSeq(w, 3, n + 2) = s
  <2>1. \A i \in 1 .. n : w[i + 2] = s[i]
    BY <1>4, <1>b
  <2>2. PICK v : v = SubSeq(w, 3, n + 2)
    OBVIOUS
  <2>3. v \in Seq(S) /\ Len(v) = n
    BY <1>6, <2>2
  <2>4. \A i \in 1 .. n : v[i] = w[i + 2]
    BY <1>6, <2>2
  <2>5. v = s
    BY <1>4, <2>1, <2>3, <2>4, SeqEqual
  <2> QED BY <2>2, <2>5
<1> QED BY <1>2, <1>5, <1>6, <1>7, <1>8, <1>9

AnyParam == {<< <<k>>, t>> : k \in Word, t \in Seq(Char)}

\* A text that tells the parameters in A, and nothing but them.
Tells(x, A) ==
    /\ x \in Seq(Char) /\ x # <<>> /\ WordsNamed(x)
    /\ Content(x) = A /\ A \subseteq AnyParam

LEMMA SeqWider ==
    ASSUME NEW S, NEW T, S \subseteq T
    PROVE  Seq(S) \subseteq Seq(T)
OBVIOUS

LEMMA SafeWhole == Seq(Safe) \subseteq Seq(Free(" ")) \cap Seq(Free("|")) \cap Seq(Char)
<1>1. Safe \subseteq Free(" ") /\ Safe \subseteq Free("|") /\ Safe \subseteq Char
  BY DEF Safe, Free
<1>2. Seq(Safe) \subseteq Seq(Free(" "))
  BY <1>1, SeqWider
<1>3. Seq(Safe) \subseteq Seq(Free("|"))
  BY <1>1, SeqWider
<1>4. Seq(Safe) \subseteq Seq(Char)
  BY <1>1, SeqWider
<1> QED BY <1>2, <1>3, <1>4

LEMMA ParamTells ==
    ASSUME NEW k \in Word, NEW t \in Seq(Char)
    PROVE  /\ Tells(RenderParam(k, t), {<< <<k>>, t>>})
           /\ Tidy(RenderParam(k, t)) /\ Whole(RenderParam(k, t))
<1>1. PICK x, e : x = RenderParam(k, t) /\ e = Escape(t)
  OBVIOUS
<1>2. e \in Seq(Safe) /\ k \in Safe /\ "=" \in Safe
  BY <1>1, EscapeType, WordFacts DEF Safe
<1>3. x = <<k, "=">> \o e
  BY <1>1 DEF RenderParam
<1>4. x \in Seq(Safe) /\ x # <<>> /\ x[1] = k /\ SubSeq(x, 3, Len(x)) = e
  BY <1>2, <1>3, TwoMore
<1>5. x \in Seq(Free(" ")) /\ x \in Seq(Free("|")) /\ x \in Seq(Char)
  BY <1>4, SafeWhole
<1>6. Split(x, " ") = <<x>>
  BY <1>5, SplitFree
<1>7. ToSet(Split(x, " ")) = {x}
  BY <1>6, SetOfOne
<1>8. WordsNamed(x)
  BY <1>4, <1>7 DEF WordsNamed
<1>9. ParamsIn(x) = {ParamOf(x)}
  <2>1. ParamsIn(x) = {ParamOf(v) : v \in ToSet(Split(x, " ")) \ {<<>>}}
    BY <1>5, ParamsInFacts, Zenon
  <2>2. ToSet(Split(x, " ")) \ {<<>>} = {x}
    BY <1>4, <1>7
  <2> QED BY <2>1, <2>2
<1>10. ParamOf(x) = << <<k>>, t>>
  <2>1. ServerUnescape(e) = t
    BY <1>1, ServerUnescapeEscape
  <2> QED BY <1>4, <2>1 DEF ParamOf
<1>11. Whole(x)
  BY <1>5 DEF Whole
<1>12. ReadSet(x) = {{<< <<k>>, t>>}} /\ Content(x) = {<< <<k>>, t>>}
  BY <1>5, <1>9, <1>10, <1>11, WholeReads
<1>13. Tidy(x)
  BY <1>12 DEF Tidy, Single
<1>14. {<< <<k>>, t>>} \subseteq AnyParam
  BY DEF AnyParam
<1> QED BY <1>1, <1>4, <1>5, <1>8, <1>11, <1>12, <1>13, <1>14 DEF Tells

LEMMA SpacedTells ==
    ASSUME NEW x, NEW u, NEW A, NEW B, Tells(x, A), Tells(u, B)
    PROVE  /\ Tells(Spaced(x, u), A \cup B)
           /\ Whole(x) /\ Whole(u) => Whole(Spaced(x, u))
           /\ Tidy(x) /\ Tidy(u) /\ Apart(A, B) => Tidy(Spaced(x, u))
<1>1. /\ x \in Seq(Char) /\ WordsNamed(x) /\ Content(x) = A
      /\ u \in Seq(Char) /\ WordsNamed(u) /\ Content(u) = B
      /\ A \cup B \subseteq AnyParam
  BY DEF Tells
<1>2. Spaced(x, u) \in Seq(Char) /\ Spaced(x, u) # <<>>
  BY <1>1, SpacedType
<1>3. SameContent(x, u, Spaced(x, u))
  BY <1>1, SpacedContent
<1>4. Content(Spaced(x, u)) = A \cup B
  BY <1>1, <1>3 DEF SameContent
<1>5. WordsNamed(Spaced(x, u))
  BY <1>1, SpacedNamed
<1>6. Whole(x) /\ Whole(u) => Whole(Spaced(x, u))
  BY <1>1, SpacedWhole
<1>7. Tidy(x) /\ Tidy(u) /\ Apart(A, B) => Tidy(Spaced(x, u))
  BY <1>1, SpacedTidy
<1> QED BY <1>1, <1>2, <1>4, <1>5, <1>6, <1>7 DEF Tells

LEMMA BarredTells ==
    ASSUME NEW x, NEW u, NEW A, NEW B, Tells(x, A), Tells(u, B)
    PROVE  /\ Tells(Barred(x, u), A \cup B)
           /\ Tidy(x) /\ Tidy(u) => Tidy(Barred(x, u))
<1>1. /\ x \in Seq(Char) /\ WordsNamed(x) /\ Content(x) = A
      /\ u \in Seq(Char) /\ WordsNamed(u) /\ Content(u) = B
      /\ A \cup B \subseteq AnyParam
  BY DEF Tells
<1>2. Barred(x, u) \in Seq(Char) /\ Barred(x, u) # <<>>
  BY <1>1, SpacedType
<1>3. SameContent(x, u, Barred(x, u))
  BY <1>1, BarredReads
<1>4. Content(Barred(x, u)) = A \cup B
  BY <1>1, <1>3 DEF SameContent
<1>5. WordsNamed(Barred(x, u))
  BY <1>1, BarredNamed
<1>6. Tidy(x) /\ Tidy(u) => Tidy(Barred(x, u))
  BY <1>1, BarredTidy
<1> QED BY <1>1, <1>2, <1>4, <1>5, <1>6 DEF Tells

\* The parameters of an item, and the text they are rendered to.
Fields(key, texts) == {<< <<key>>, text>> : text \in ToSet(texts)}

Rendering(key, texts) == [i \in DOMAIN texts |-> RenderParam(key, texts[i])]

RenderItem(key, texts) == Join(Rendering(key, texts), "|")

ItemTells(key, texts) ==
    /\ texts = <<>> => RenderItem(key, texts) = <<>> /\ Rendering(key, texts) = <<>>
    /\ texts # <<>> => /\ Tells(RenderItem(key, texts), Fields(key, texts))
                       /\ Tidy(RenderItem(key, texts))
                       /\ Len(texts) <= 1 => Whole(RenderItem(key, texts))
                       /\ Rendering(key, texts) \in Seq(Seq(Char)) \ {<<>>}

LEMMA FieldsFacts ==
    ASSUME NEW key, NEW ts \in Seq(Seq(Char)), NEW t \in Seq(Char)
    PROVE  /\ Fields(key, <<>>) = {}
           /\ Fields(key, Append(ts, t)) = Fields(key, ts) \cup {<< <<key>>, t>>}
<1>0. PICK R : R = Seq(Char)
  OBVIOUS
<1>1. ToSet(<<>>) = {}
  BY DEF ToSet
<1>2. Collected(ts, <<t>>, Append(ts, t))
  BY <1>0, SetOfAppend, Zenon
<1>3. ToSet(Append(ts, t)) = ToSet(ts) \cup {t}
  BY <1>2, SetOfOne DEF Collected
<1> QED BY <1>1, <1>3 DEF Fields

LEMMA RenderingAppend ==
    ASSUME NEW key \in Word, NEW ts \in Seq(Seq(Char)), NEW t \in Seq(Char)
    PROVE  /\ Rendering(key, ts) \in Seq(Seq(Char)) /\ Len(Rendering(key, ts)) = Len(ts)
           /\ Rendering(key, Append(ts, t)) = Append(Rendering(key, ts), RenderParam(key, t))
<1>1. PICK R, E : R = Seq(Char) /\ E = [x \in R |-> RenderParam(key, x)]
  OBVIOUS
<1>2. \A x \in R : RenderParam(key, x) \in R
  BY <1>1, ParamTells DEF Tells
<1>3. E \in [R -> R] /\ \A x \in R : E[x] = RenderParam(key, x)
  BY <1>1, <1>2
<1>4. ts \in Seq(R) /\ t \in R
  BY <1>1
<1>5. PICK more : more = Append(ts, t)
  OBVIOUS
<1>6. more \in Seq(R)
  BY <1>4, <1>5
<1>7. \A s \in Seq(R) : Rendering(key, s) = Imaged(s, E)
  <2> SUFFICES ASSUME NEW s \in Seq(R) PROVE Rendering(key, s) = Imaged(s, E)
    OBVIOUS
  <2>1. \A i \in DOMAIN s : s[i] \in R
    OBVIOUS
  <2> QED BY <1>3, <2>1 DEF Rendering, Imaged
<1>8. Imaging(R, ts, E, Imaged(ts, E))
  BY <1>3, <1>4, ImagedFacts, Zenon
<1>9. Images(more, E, Append(Imaged(ts, E), E[t]))
  BY <1>3, <1>4, <1>5, ImagedAppend, Zenon
<1>10. Rendering(key, ts) \in Seq(R) /\ Len(Rendering(key, ts)) = Len(ts)
  BY <1>4, <1>7, <1>8 DEF Imaging
<1>11. Rendering(key, more) = Append(Rendering(key, ts), RenderParam(key, t))
  BY <1>3, <1>4, <1>6, <1>7, <1>9, Zenon DEF Images
<1> QED BY <1>1, <1>5, <1>10, <1>11

LEMMA ItemsTell ==
    ASSUME NEW key \in Word, NEW texts \in Seq(Seq(Char))
    PROVE  ItemTells(key, texts)
<1>0. PICK R : R = Seq(Char)
  OBVIOUS
<1> DEFINE T == {ts \in Seq(R) : ItemTells(key, ts)}
<1>1. <<>> \in T
  <2>1. Rendering(key, <<>>) = <<>>
    BY DEF Rendering
  <2>2. RenderItem(key, <<>>) = <<>>
    BY <2>1, JoinNone DEF RenderItem
  <2> QED BY <2>1, <2>2 DEF ItemTells
<1>2. ASSUME NEW ts \in Seq(R), NEW t \in R, ts \in T PROVE Append(ts, t) \in T
  <2>1. PICK p, q, more : p = Rendering(key, ts) /\ q = RenderParam(key, t) /\ more = Append(ts, t)
    OBVIOUS
  <2>2. p \in Seq(R) /\ Len(p) = Len(ts)
    BY <1>0, <2>1, RenderingAppend
  <2>3. Rendering(key, more) = Append(p, q)
    BY <1>0, <2>1, RenderingAppend
  <2>4. Tells(q, {<< <<key>>, t>>}) /\ Tidy(q) /\ Whole(q) /\ q \in R
    BY <1>0, <2>1, ParamTells DEF Tells
  <2>5. more \in Seq(R) /\ more # <<>> /\ Len(more) = Len(ts) + 1
    BY <2>1, AppendNonEmpty
  <2>6. Rendering(key, more) \in Seq(R) \ {<<>>}
    BY <2>2, <2>3, <2>4, AppendNonEmpty
  <2>7. PICK x, w : x = RenderItem(key, ts) /\ w = RenderItem(key, more)
    OBVIOUS
  <2>8. Fields(key, more) = Fields(key, ts) \cup {<< <<key>>, t>>}
    BY <1>0, <2>1, FieldsFacts
  <2>9. CASE ts = <<>>
    <3>1. p = <<>>
      BY <2>2, <2>9
    <3>2. Append(p, q) = <<q>>
      BY <3>1
    <3>3. Join(<<q>>, "|") = q
      BY <1>0, <2>4, JoinOne, WordFacts
    <3>4. w = q
      BY <2>3, <2>7, <3>2, <3>3 DEF RenderItem
    <3>5. Fields(key, more) = {<< <<key>>, t>>}
      BY <1>0, <2>8, <2>9, FieldsFacts
    <3>6. ItemTells(key, more)
      BY <1>0, <2>4, <2>5, <2>6, <2>7, <3>4, <3>5 DEF ItemTells
    <3> QED BY <2>1, <2>5, <3>6
  <2>10. CASE ts # <<>>
    <3>1. Tells(x, Fields(key, ts)) /\ Tidy(x)
      BY <1>2, <2>7, <2>10 DEF ItemTells
    <3>2. p # <<>> /\ Len(ts) > 0
      BY <2>2, <2>10
    <3>3. Join(Append(p, q), "|") = Join(p, "|") \o (<<"|">> \o q)
      BY <1>0, <2>2, <2>4, <3>2, JoinAppend, WordFacts
    <3>4. w = Barred(x, q)
      BY <2>1, <2>3, <2>7, <3>3 DEF RenderItem, Barred
    <3>5. Tells(w, Fields(key, more)) /\ Tidy(w)
      <4>1. PICK A, B : A = Fields(key, ts) /\ B = {<< <<key>>, t>>}
        OBVIOUS
      <4>2. Tells(x, A) /\ Tells(q, B)
        BY <2>4, <3>1, <4>1
      <4>3. Tells(Barred(x, q), A \cup B) /\ (Tidy(x) /\ Tidy(q) => Tidy(Barred(x, q)))
        BY <4>2, BarredTells, Zenon
      <4> QED BY <2>4, <2>8, <3>1, <3>4, <4>1, <4>3
    <3>6. ~(Len(more) <= 1)
      BY <2>5, <3>2
    <3>7. ItemTells(key, more)
      BY <1>0, <2>5, <2>6, <2>7, <3>5, <3>6 DEF ItemTells
    <3> QED BY <2>1, <2>5, <3>7
  <2> QED BY <2>9, <2>10
<1>3. Seq(R) \subseteq T
  <2> HIDE DEF T
  <2> QED BY <1>1, <1>2, SeqSetInduction, Zenon
<1> QED BY <1>0, <1>3

IsItem(item) == item.key \in Word /\ item.texts \in Seq(Seq(Char))

ItemsOf(block) == [i \in DOMAIN block |-> RenderItem(block[i].key, block[i].texts)]

LEMMA RenderBlockAs == \A block : RenderBlock(block) = Join(NonEmpty(ItemsOf(block)), " ")
BY DEF RenderBlock, ItemsOf, RenderItem, Rendering

ParamsOf(block) == UNION {Fields(item.key, item.texts) : item \in ToSet(block)}

Short(block) == \A item \in ToSet(block) : Len(item.texts) <= 1
Distinct(block) == \A i, j \in DOMAIN block : block[i].key = block[j].key => i = j

\* What is rendered of a block tells its parameters, if there are any.
BlockTells(block) ==
    \/ NonEmpty(ItemsOf(block)) = <<>> /\ ParamsOf(block) = {} /\ RenderBlock(block) = <<>>
    \/ /\ NonEmpty(ItemsOf(block)) \in Seq(Seq(Char)) \ {<<>>}
       /\ Tells(RenderBlock(block), ParamsOf(block))
       /\ Short(block) => Whole(RenderBlock(block))
       /\ Distinct(block) => Tidy(RenderBlock(block))

LEMMA ItemsOfAppend ==
    ASSUME NEW S, \A item \in S : IsItem(item), NEW b \in Seq(S), NEW item \in S
    PROVE  /\ ItemsOf(b) \in Seq(Seq(Char))
           /\ ItemsOf(Append(b, item)) = Append(ItemsOf(b), RenderItem(item.key, item.texts))
<1>1. PICK R, E : R = Seq(Char) /\ E = [x \in S |-> RenderItem(x.key, x.texts)]
  OBVIOUS
<1>2. ASSUME NEW x \in S PROVE RenderItem(x.key, x.texts) \in R
  <2>1. x.key \in Word /\ x.texts \in Seq(Seq(Char))
    BY DEF IsItem
  <2>2. PICK k, ts : k = x.key /\ ts = x.texts
    OBVIOUS
  <2>3. ItemTells(k, ts)
    BY <2>1, <2>2, ItemsTell
  <2>4. <<>> \in R
    BY <1>1
  <2> QED BY <1>1, <2>2, <2>3, <2>4 DEF ItemTells, Tells
<1>3. E \in [S -> R] /\ \A x \in S : E[x] = RenderItem(x.key, x.texts)
  BY <1>1, <1>2
<1>5. PICK more : more = Append(b, item)
  OBVIOUS
<1>6. more \in Seq(S)
  BY <1>5
<1>7. \A s \in Seq(S) : ItemsOf(s) = Imaged(s, E)
  <2> SUFFICES ASSUME NEW s \in Seq(S) PROVE ItemsOf(s) = Imaged(s, E)
    OBVIOUS
  <2>1. \A i \in DOMAIN s : s[i] \in S
    OBVIOUS
  <2> QED BY <1>3, <2>1 DEF ItemsOf, Imaged
<1>8. Imaging(R, b, E, Imaged(b, E))
  BY <1>3, ImagedFacts, Zenon
<1>9. Images(more, E, Append(Imaged(b, E), E[item]))
  BY <1>3, <1>5, ImagedAppend, Zenon
<1>10. ItemsOf(b) \in Seq(R)
  BY <1>7, <1>8 DEF Imaging
<1>11. ItemsOf(more) = Append(ItemsOf(b), RenderItem(item.key, item.texts))
  BY <1>3, <1>6, <1>7, <1>9, Zenon DEF Images
<1> QED BY <1>1, <1>5, <1>10, <1>11

LEMMA BlockAppend ==
    ASSUME NEW S, NEW b \in Seq(S), NEW item \in S
    PROVE  /\ ParamsOf(Append(b, item)) = ParamsOf(b) \cup Fields(item.key, item.texts)
           /\ Short(Append(b, item)) => Short(b) /\ Len(item.texts) <= 1
           /\ Distinct(Append(b, item)) => Distinct(b) /\ \A x \in ToSet(b) : x.key # item.key
<1>1. PICK more, n : more = Append(b, item) /\ n = Len(b)
  OBVIOUS
<1>2. Collected(b, <<item>>, more)
  BY <1>1, SetOfAppend, Zenon
<1>3. ToSet(more) = ToSet(b) \cup {item}
  BY <1>2, SetOfOne DEF Collected
<1>4. ParamsOf(more) = ParamsOf(b) \cup Fields(item.key, item.texts)
  BY <1>3 DEF ParamsOf
<1>5. Short(more) => Short(b) /\ Len(item.texts) <= 1
  BY <1>3, Zenon DEF Short
<1>6. ASSUME Distinct(more) PROVE Distinct(b) /\ \A x \in ToSet(b) : x.key # item.key
  <2>1. /\ n \in Nat /\ DOMAIN more = 1 .. n + 1 /\ more[n + 1] = item /\ DOMAIN b = 1 .. n
        /\ \A i \in 1 .. n : more[i] = b[i]
    BY <1>1
  <2>2. \A i, j \in 1 .. n + 1 : more[i].key = more[j].key => i = j
    BY <1>6, <2>1 DEF Distinct
  <2>3. Distinct(b)
    <3> SUFFICES ASSUME NEW i \in 1 .. n, NEW j \in 1 .. n, b[i].key = b[j].key PROVE i = j
      BY <2>1 DEF Distinct
    <3>1. i \in 1 .. n + 1 /\ j \in 1 .. n + 1
      BY <2>1
    <3>2. more[i].key = more[j].key
      BY <2>1
    <3> QED BY <2>2, <3>1, <3>2
  <2>4. ASSUME NEW x \in ToSet(b), x.key = item.key PROVE FALSE
    <3>1. PICK i \in 1 .. n : x = b[i]
      BY <1>1, SetOf
    <3>2. i \in 1 .. n + 1 /\ n + 1 \in 1 .. n + 1 /\ i # n + 1
      BY <2>1
    <3>3. more[i].key = more[n + 1].key
      BY <2>1, <2>4, <3>1
    <3> QED BY <2>2, <3>2, <3>3
  <2> QED BY <2>3, <2>4
<1> QED BY <1>1, <1>4, <1>5, <1>6

LEMMA FieldsApart ==
    ASSUME NEW b, NEW item, \A x \in ToSet(b) : x.key # item.key
    PROVE  Apart(ParamsOf(b), Fields(item.key, item.texts))
<1> SUFFICES ASSUME NEW p \in ParamsOf(b), NEW q \in Fields(item.key, item.texts) PROVE p[1] # q[1]
  BY DEF Apart
<1>1. PICK x \in ToSet(b) : p \in Fields(x.key, x.texts)
  BY DEF ParamsOf
<1>2. p[1] = <<x.key>> /\ q[1] = <<item.key>>
  BY <1>1 DEF Fields
<1>3. x.key # item.key
  BY <1>1
<1> QED BY <1>2, <1>3

LEMMA BlockStep ==
    ASSUME NEW S, \A item \in S : IsItem(item), NEW b \in Seq(S), NEW item \in S, BlockTells(b)
    PROVE  BlockTells(Append(b, item))
<1>1. PICK R, more, r, its : /\ R = Seq(Char) /\ more = Append(b, item) /\ its = ItemsOf(b)
                             /\ r = RenderItem(item.key, item.texts)
  OBVIOUS
<1>2. its \in Seq(R) /\ ItemsOf(more) = Append(its, r)
  BY <1>1, ItemsOfAppend
<1>3. PICK A, B : A = ParamsOf(b) /\ B = Fields(item.key, item.texts)
  OBVIOUS
<1>4. ParamsOf(more) = A \cup B
  BY <1>1, <1>3, BlockAppend
<1>5. Short(more) => Short(b) /\ Len(item.texts) <= 1
  BY <1>1, BlockAppend
<1>6. Distinct(more) => Distinct(b) /\ Apart(A, B)
  BY <1>1, <1>3, BlockAppend, FieldsApart
<1>7. PICK k, ts : k = item.key /\ ts = item.texts /\ k \in Word /\ ts \in Seq(R)
  BY <1>1 DEF IsItem
<1>8. ItemTells(k, ts)
  BY <1>1, <1>7, ItemsTell
<1>9. PICK kept : kept = NonEmpty(its)
  OBVIOUS
<1>10. kept \in Seq(R)
  <2>1. Without(its, {<<>>}) \in Seq(R \ {<<>>})
    BY <1>2, WithoutType
  <2>2. Seq(R \ {<<>>}) \subseteq Seq(R)
    BY SeqWider
  <2> QED BY <1>9, <2>1, <2>2 DEF NonEmpty
<1>11. RenderBlock(b) = Join(kept, " ") /\ RenderBlock(more) = Join(NonEmpty(ItemsOf(more)), " ")
  BY <1>1, <1>9, RenderBlockAs
<1>12. CASE ts = <<>>
  <2>1. r = <<>>
    BY <1>1, <1>7, <1>8, <1>12 DEF ItemTells
  <2>2. r \in R
    BY <1>1, <2>1
  <2>3. NonEmpty(ItemsOf(more)) = kept
    BY <1>2, <1>9, <2>1, <2>2, WithoutAppend DEF NonEmpty
  <2>4. B = {}
    BY <1>3, <1>7, <1>12 DEF Fields, ToSet
  <2>5. RenderBlock(more) = RenderBlock(b) /\ ParamsOf(more) = ParamsOf(b)
    BY <1>3, <1>4, <1>11, <2>3, <2>4
  <2>6. NonEmpty(ItemsOf(more)) = NonEmpty(ItemsOf(b))
    BY <1>1, <1>9, <2>3
  <2>7. BlockTells(more)
    BY <1>5, <1>6, <2>5, <2>6 DEF BlockTells
  <2> QED BY <1>1, <2>7
<1>13. CASE ts # <<>>
  <2>a. /\ Tells(r, B) /\ Tidy(r)
    BY <1>1, <1>3, <1>7, <1>8, <1>13 DEF ItemTells
  <2>b. Short(more) => Whole(r)
    BY <1>1, <1>5, <1>7, <1>8, <1>13 DEF ItemTells
  <2>2. r \in R /\ r # <<>>
    BY <1>1, <2>a DEF Tells
  <2>3. NonEmpty(ItemsOf(more)) = Append(kept, r)
    BY <1>2, <1>9, <2>2, WithoutAppend DEF NonEmpty
  <2>4. Append(kept, r) \in Seq(R) \ {<<>>}
    BY <1>10, <2>2, AppendNonEmpty
  <2>5. CASE kept = <<>>
    <3>1. Append(kept, r) = <<r>>
      BY <2>5
    <3>2. RenderBlock(more) = r
      <4>1. Join(<<r>>, " ") = r
        BY <1>1, <2>2, JoinOne, WordFacts
      <4> QED BY <1>11, <2>3, <3>1, <4>1
    <3>3. A = {}
      BY <1>1, <1>3, <1>9, <2>5 DEF BlockTells
    <3>4. Tells(RenderBlock(more), ParamsOf(more))
      BY <1>4, <2>a, <3>2, <3>3
    <3>5. BlockTells(more)
      BY <1>1, <2>a, <2>b, <2>3, <2>4, <3>2, <3>4 DEF BlockTells
    <3> QED BY <1>1, <3>5
  <2>6. CASE kept # <<>>
    <3>1. PICK x : x = RenderBlock(b)
      OBVIOUS
    <3>a. Tells(x, A) /\ (Short(b) => Whole(x)) /\ (Distinct(b) => Tidy(x))
      BY <1>1, <1>3, <1>9, <2>6, <3>1 DEF BlockTells
    <3>3. Join(Append(kept, r), " ") = Join(kept, " ") \o (<<" ">> \o r)
      BY <1>1, <1>10, <2>2, <2>6, JoinAppend, WordFacts
    <3>4. RenderBlock(more) = Spaced(x, r)
      BY <1>11, <2>3, <3>1, <3>3 DEF Spaced
    <3>5. /\ Tells(Spaced(x, r), A \cup B)
          /\ Whole(x) /\ Whole(r) => Whole(Spaced(x, r))
          /\ Tidy(x) /\ Tidy(r) /\ Apart(A, B) => Tidy(Spaced(x, r))
      BY <2>a, <3>a, SpacedTells, Zenon
    <3>6. Tells(RenderBlock(more), ParamsOf(more))
      BY <1>4, <3>4, <3>5
    <3>7. Short(more) => Whole(RenderBlock(more))
      BY <1>5, <2>b, <3>a, <3>4, <3>5
    <3>8. Distinct(more) => Tidy(RenderBlock(more))
      BY <1>6, <2>a, <3>a, <3>4, <3>5
    <3>9. BlockTells(more)
      BY <1>1, <2>3, <2>4, <3>6, <3>7, <3>8 DEF BlockTells
    <3> QED BY <1>1, <3>9
  <2> QED BY <2>5, <2>6
<1> QED BY <1>12, <1>13

LEMMA BlocksTell ==
    ASSUME NEW block, IsBlock(block)
    PROVE  BlockTells(block) /\ Distinct(block)
<1>1. PICK S : S = ToSet(block)
  OBVIOUS
<1>2. block \in Seq(S) /\ \A item \in S : IsItem(item)
  BY <1>1 DEF IsBlock, IsItem
<1> DEFINE T == {b \in Seq(S) : BlockTells(b)}
<1>3. <<>> \in T
  <2>1. ItemsOf(<<>>) = <<>>
    BY DEF ItemsOf
  <2>2. NonEmpty(ItemsOf(<<>>)) = <<>>
    BY <2>1, WithoutNone DEF NonEmpty
  <2>3. ParamsOf(<<>>) = {}
    BY DEF ParamsOf, ToSet
  <2>4. RenderBlock(<<>>) = <<>>
    BY <2>2, JoinNone, RenderBlockAs
  <2> QED BY <2>2, <2>3, <2>4 DEF BlockTells
<1>4. ASSUME NEW b \in Seq(S), NEW item \in S, b \in T PROVE Append(b, item) \in T
  BY <1>2, <1>4, BlockStep
<1>5. Seq(S) \subseteq T
  <2> HIDE DEF T
  <2> QED BY <1>3, <1>4, SeqSetInduction, Zenon
<1>6. Distinct(block)
  BY DEF IsBlock, Distinct
<1> QED BY <1>2, <1>5, <1>6

LEMMA KeptOfTwo ==
    ASSUME NEW x \in Seq(Char), NEW u \in Seq(Char)
    PROVE  /\ x = <<>> /\ u # <<>> => NonEmpty(<<x, u>>) = <<u>>
           /\ x # <<>> /\ u = <<>> => NonEmpty(<<x, u>>) = <<x>>
           /\ x # <<>> /\ u # <<>> => NonEmpty(<<x, u>>) = <<x, u>>
<1>1. PICK R, s, p, D : R = Seq(Char) /\ s = <<x>> /\ p = <<x, u>> /\ D = {<<>>}
  OBVIOUS
<1>2. s \in Seq(R) /\ p = Append(s, u) /\ s = Append(<<>>, x) /\ <<>> \in Seq(R)
  BY <1>1
<1>3. Without(<<>>, D) = <<>>
  BY WithoutNone
<1>a. ASSUME NEW q \in Seq(R), NEW y \in R
      PROVE  Without(Append(q, y), D) = IF y \in D THEN Without(q, D) ELSE Append(Without(q, D), y)
  BY WithoutAppend
<1>b. x \in R /\ u \in R
  BY <1>1
<1>4. Without(s, D) = IF x \in D THEN Without(<<>>, D) ELSE Append(Without(<<>>, D), x)
  <2>1. PICK e \in Seq(R) : e = <<>>
    BY <1>2
  <2>2. Without(Append(e, x), D) = IF x \in D THEN Without(e, D) ELSE Append(Without(e, D), x)
    BY <1>a, <1>b
  <2> QED BY <1>2, <2>1, <2>2
<1>5. Without(p, D) = IF u \in D THEN Without(s, D) ELSE Append(Without(s, D), u)
  <2>1. Without(Append(s, u), D) = IF u \in D THEN Without(s, D) ELSE Append(Without(s, D), u)
    BY <1>2, <1>a, <1>b
  <2> QED BY <1>2, <2>1
<1>6. x = <<>> => Without(s, D) = <<>>
  BY <1>1, <1>3, <1>4
<1>7. x # <<>> => Without(s, D) = <<x>>
  BY <1>1, <1>3, <1>4
<1>8. u = <<>> => Without(p, D) = Without(s, D)
  BY <1>1, <1>5
<1>9. u # <<>> => Without(p, D) = Append(Without(s, D), u)
  BY <1>1, <1>5
<1>10. x = <<>> /\ u # <<>> => Without(p, D) = <<u>>
  BY <1>6, <1>9
<1>11. x # <<>> /\ u = <<>> => Without(p, D) = <<x>>
  BY <1>7, <1>8
<1>12. x # <<>> /\ u # <<>> => Without(p, D) = <<x, u>>
  <2>1. x # <<>> => Without(s, D) = s
    BY <1>1, <1>7
  <2> QED BY <1>1, <1>2, <1>9, <2>1
<1> QED BY <1>1, <1>10, <1>11, <1>12 DEF NonEmpty

LEMMA JoinTwo ==
    ASSUME NEW sep \in Char, NEW x \in Seq(Char), NEW u \in Seq(Char)
    PROVE  Join(<<x, u>>, sep) = x \o (<<sep>> \o u)
<1>1. PICK R, s, p : R = Seq(Char) /\ s = <<x>> /\ p = <<x, u>>
  OBVIOUS
<1>2. s \in Seq(R) /\ s # <<>> /\ p = Append(s, u)
  BY <1>1
<1>3. Join(p, sep) = Join(s, sep) \o (<<sep>> \o u)
  BY <1>1, <1>2, JoinAppend
<1>4. Join(s, sep) = x
  BY <1>1, JoinOne
<1> QED BY <1>1, <1>3, <1>4

\* Another element in the place of the first.
Reheaded(S, s, a, w) ==
    w \in Seq(S) /\ Len(w) = Len(s) /\ w[1] = a /\ \A i \in 1 .. Len(s) : i # 1 => w[i] = s[i]

LEMMA OtherHead ==
    ASSUME NEW S, NEW s \in Seq(S), s # <<>>, NEW a \in S
    PROVE  Reheaded(S, s, a, <<a>> \o Tail(s))
<1>1. PICK n \in Nat, t \in Seq(S), b \in Seq(S) : n = Len(s) /\ t = Tail(s) /\ b = <<a>>
  <2>1. Len(s) \in Nat /\ Tail(s) \in Seq(S)
    OBVIOUS
  <2>2. <<a>> \in Seq(S)
    OBVIOUS
  <2> QED BY <2>1, <2>2
<1>2. n # 0 /\ Len(t) = n - 1 /\ \A i \in 1 .. n - 1 : t[i] = s[i + 1]
  BY <1>1
<1>3. Len(b) = 1 /\ b[1] = a
  BY <1>1
<1>4. PICK w : w = b \o t
  OBVIOUS
<1>5. b \o t \in Seq(S) /\ Len(b \o t) = Len(b) + Len(t)
  OBVIOUS
<1>6. \A i \in 1 .. Len(b) + Len(t) : (b \o t)[i] = IF i <= Len(b) THEN b[i] ELSE t[i - Len(b)]
  OBVIOUS
<1>7. w \in Seq(S) /\ Len(w) = n
  BY <1>2, <1>3, <1>4, <1>5
<1>8. \A i \in 1 .. n : w[i] = IF i <= 1 THEN b[i] ELSE t[i - 1]
  <2>1. Len(b) + Len(t) = n /\ Len(b) = 1
    BY <1>2, <1>3
  <2> QED BY <1>4, <1>6, <2>1
<1>9. w[1] = a
  BY <1>2, <1>3, <1>8
<1>10. ASSUME NEW i \in 1 .. n, i # 1 PROVE w[i] = s[i]
  <2>1. i - 1 \in 1 .. n - 1 /\ ~(i <= 1) /\ (i - 1) + 1 = i
    BY <1>10
  <2>2. t[i - 1] = s[(i - 1) + 1]
    BY <1>2, <2>1
  <2> QED BY <1>8, <2>1, <2>2
<1> QED BY <1>1, <1>4, <1>7, <1>9, <1>10 DEF Reheaded

\* Texts between bars tell all that each of them tells.
Telling == {x \in Seq(Char) : Tells(x, Content(x))}

BarsTell(ss) ==
    ss # <<>> => /\ Tells(Join(ss, "|"), UNION {Content(x) : x \in ToSet(ss)})
                 /\ (\A x \in ToSet(ss) : Tidy(x)) => Tidy(Join(ss, "|"))

LEMMA BarsTellAll ==
    ASSUME NEW segs \in Seq(Telling)
    PROVE  BarsTell(segs)
<1>1. PICK R : R = Seq(Char)
  OBVIOUS
<1>2. Telling \subseteq R /\ Seq(Telling) \subseteq Seq(R)
  <2>1. Telling \subseteq R
    BY <1>1 DEF Telling
  <2> QED BY <2>1, SeqWider
<1> DEFINE T == {ss \in Seq(Telling) : BarsTell(ss)}
<1>3. <<>> \in T
  BY DEF BarsTell
<1>4. ASSUME NEW ss \in Seq(Telling), NEW q \in Telling, ss \in T PROVE Append(ss, q) \in T
  <2>1. PICK more, A : more = Append(ss, q) /\ A = UNION {Content(x) : x \in ToSet(ss)}
    OBVIOUS
  <2>2. q \in R /\ ss \in Seq(R) /\ Tells(q, Content(q))
    BY <1>1, <1>2 DEF Telling
  <2>3. Collected(ss, <<q>>, more)
    BY <2>1, SetOfAppend, Zenon
  <2>4. ToSet(more) = ToSet(ss) \cup {q}
    BY <2>3, SetOfOne DEF Collected
  <2>5. UNION {Content(x) : x \in ToSet(more)} = A \cup Content(q)
    BY <2>1, <2>4
  <2>6. more \in Seq(Telling)
    BY <2>1
  <2>7. CASE ss = <<>>
    <3>1. more = <<q>> /\ ToSet(more) = {q}
      BY <2>1, <2>7, SetOfOne
    <3>2. Join(more, "|") = q
      BY <1>1, <2>2, <3>1, JoinOne, WordFacts
    <3>3. BarsTell(more)
      BY <2>2, <3>1, <3>2 DEF BarsTell
    <3> QED BY <2>1, <2>6, <3>3
  <2>8. CASE ss # <<>>
    <3>1. PICK x : x = Join(ss, "|")
      OBVIOUS
    <3>2. Join(Append(ss, q), "|") = Join(ss, "|") \o (<<"|">> \o q)
      BY <1>1, <2>2, <2>8, JoinAppend, WordFacts
    <3>3. Join(more, "|") = Barred(x, q)
      BY <2>1, <3>1, <3>2 DEF Barred
    <3>4. Tells(x, A) /\ ((\A y \in ToSet(ss) : Tidy(y)) => Tidy(x))
      BY <1>4, <2>1, <2>8, <3>1 DEF BarsTell
    <3>5. Tells(Barred(x, q), A \cup Content(q)) /\ (Tidy(x) /\ Tidy(q) => Tidy(Barred(x, q)))
      BY <2>2, <3>4, BarredTells, Zenon
    <3>6. BarsTell(more)
      BY <2>4, <2>5, <3>3, <3>4, <3>5 DEF BarsTell
    <3> QED BY <2>1, <2>6, <3>6
  <2> QED BY <2>7, <2>8
<1>5. Seq(Telling) \subseteq T
  <2> HIDE DEF T
  <2> QED BY <1>3, <1>4, SeqSetInduction, Zenon
<1> QED BY <1>5

-----------------------------------------------------------------------------
(* What the server makes of the line of a call *)

\* What call c renders its blocks to, and what they ask for.
TextsOf(c) == [i \in DOMAIN c.blocks |-> RenderBlock(c.blocks[i])]
AskedOf(c) == [i \in DOMAIN c.blocks |-> ParamsOf(c.blocks[i])]

LEMMA SegmentsAs ==
    \A c : Segments(c) = IF TextsOf(c) = <<>> THEN <<RenderBlock(c.params)>>
                         ELSE <<Join(NonEmpty(<<RenderBlock(c.params), TextsOf(c)[1]>>), " ")>>
                              \o Tail(TextsOf(c))
BY Zenon DEF Segments, TextsOf

LEMMA AskedAs ==
    \A c : Asked(c) = IF AskedOf(c) = <<>> THEN <<ParamsOf(c.params)>>
                      ELSE <<ParamsOf(c.params) \cup AskedOf(c)[1]>> \o Tail(AskedOf(c))
BY Zenon DEF Asked, AskedOf, ParamsOf, Fields

SegmentTells(c, x, A) ==
    /\ Tells(x, A) /\ (HasList(c) => Tidy(x)) /\ (~HasList(c) => Whole(x))

LEMMA CallBlocks ==
    ASSUME NEW c \in Call, NEW block \in {c.params} \cup ToSet(c.blocks)
    PROVE  /\ IsBlock(block) /\ BlockTells(block) /\ Distinct(block)
           /\ ~HasList(c) => Short(block)
<1>1. IsBlock(block)
  BY CallAssumption
<1>2. ~HasList(c) => Short(block)
  <2> SUFFICES ASSUME ~HasList(c), NEW item \in ToSet(block) PROVE Len(item.texts) <= 1
    BY DEF Short
  <2>1. ~(Len(item.texts) > 1)
    BY DEF HasList
  <2>2. Len(item.texts) \in Nat
    BY <1>1 DEF IsBlock
  <2> QED BY <2>1, <2>2
<1> QED BY <1>1, <1>2, BlocksTell

LEMMA BlockText ==
    ASSUME NEW c \in Call, NEW block \in {c.params} \cup ToSet(c.blocks)
    PROVE  /\ RenderBlock(block) \in Seq(Char)
           /\ RenderBlock(block) = <<>> => ParamsOf(block) = {}
           /\ RenderBlock(block) # <<>> => SegmentTells(c, RenderBlock(block), ParamsOf(block))
<1>1. BlockTells(block) /\ Distinct(block) /\ (~HasList(c) => Short(block))
  BY CallBlocks
<1>2. CASE RenderBlock(block) = <<>>
  <2>1. ParamsOf(block) = {}
    BY <1>1, <1>2 DEF BlockTells, Tells
  <2>2. <<>> \in Seq(Char)
    OBVIOUS
  <2> QED BY <1>2, <2>1, <2>2
<1>3. CASE RenderBlock(block) # <<>>
  BY <1>1, <1>3 DEF BlockTells, Tells, SegmentTells
<1> QED BY <1>2, <1>3

LEMMA FirstSegment ==
    ASSUME NEW c \in Call, Renderable(c), c.blocks # <<>>,
           NEW x, x = RenderBlock(c.params), NEW u, u = RenderBlock(c.blocks[1])
    PROVE  SegmentTells(c, Join(NonEmpty(<<x, u>>), " "), ParamsOf(c.params) \cup ParamsOf(c.blocks[1]))
<1>1. c.blocks \in Seq(ToSet(c.blocks))
  BY CallAssumption
<1>2. 1 \in DOMAIN c.blocks /\ c.blocks[1] \in ToSet(c.blocks)
  <2>1. PICK S, bs : S = ToSet(c.blocks) /\ bs = c.blocks
    OBVIOUS
  <2>2. bs \in Seq(S) /\ bs # <<>>
    BY <1>1, <2>1
  <2>3. 1 \in DOMAIN bs /\ bs[1] \in S
    BY <2>2
  <2> QED BY <2>1, <2>3
<1>3. PICK first, A, B : first = c.blocks[1] /\ A = ParamsOf(c.params) /\ B = ParamsOf(first)
  OBVIOUS
<1>4. u # <<>>
  BY <1>2 DEF Renderable
<1>5. x \in Seq(Char) /\ (x = <<>> => A = {}) /\ (x # <<>> => SegmentTells(c, x, A))
  BY <1>3, BlockText
<1>6. u \in Seq(Char) /\ SegmentTells(c, u, B)
  BY <1>2, <1>3, <1>4, BlockText
<1>7. CASE x = <<>>
  <2>1. NonEmpty(<<x, u>>) = <<u>>
    BY <1>4, <1>5, <1>6, <1>7, KeptOfTwo
  <2>2. Join(<<u>>, " ") = u
    BY <1>6, JoinOne, WordFacts
  <2>3. A \cup B = B
    BY <1>5, <1>7
  <2> QED BY <1>3, <1>6, <2>1, <2>2, <2>3
<1>8. CASE x # <<>>
  <2>1. NonEmpty(<<x, u>>) = <<x, u>>
    BY <1>4, <1>5, <1>6, <1>8, KeptOfTwo
  <2>2. Join(<<x, u>>, " ") = x \o (<<" ">> \o u)
    BY <1>5, <1>6, JoinTwo, WordFacts
  <2>3. Tells(x, A) /\ Tells(u, B)
    BY <1>5, <1>6, <1>8 DEF SegmentTells
  <2>4. /\ Tells(Spaced(x, u), A \cup B)
        /\ Whole(x) /\ Whole(u) => Whole(Spaced(x, u))
        /\ Tidy(x) /\ Tidy(u) /\ Apart(A, B) => Tidy(Spaced(x, u))
    BY <2>3, SpacedTells, Zenon
  <2>5. ASSUME HasList(c) PROVE Apart(A, B)
    <3>1. Keys(c.params) \cap Keys(first) = {}
      <4>1. HasList(c) /\ c.blocks # <<>> => Keys(c.params) \cap Keys(c.blocks[1]) = {}
        BY CallAssumption, Zenon
      <4> QED BY <1>3, <2>5, <4>1
    <3> SUFFICES ASSUME NEW p \in A, NEW q \in B PROVE p[1] # q[1]
      BY DEF Apart
    <3>2. PICK i \in ToSet(c.params) : p \in Fields(i.key, i.texts)
      BY <1>3 DEF ParamsOf
    <3>3. PICK j \in ToSet(first) : q \in Fields(j.key, j.texts)
      BY <1>3 DEF ParamsOf
    <3>4. p[1] = <<i.key>> /\ q[1] = <<j.key>>
      BY <3>2, <3>3 DEF Fields
    <3>5. i.key # j.key
      BY <3>1, <3>2, <3>3 DEF Keys
    <3> QED BY <3>4, <3>5
  <2>6. SegmentTells(c, Spaced(x, u), A \cup B)
    BY <1>5, <1>6, <1>8, <2>4, <2>5 DEF SegmentTells
  <2> QED BY <1>3, <2>1, <2>2, <2>6 DEF Spaced
<1> QED BY <1>7, <1>8

\* The segments, each of which tells what is asked for in it: only a call for
\* nothing has one that is empty.
SegmentsTell(c) ==
    /\ Segments(c) \in Seq(Seq(Char)) /\ Segments(c) # <<>>
    /\ Len(Asked(c)) = Len(Segments(c)) /\ Asked(c) \in Seq(ToSet(Asked(c)))
    /\ \/ Segments(c) = << <<>> >> /\ Asked(c) = << {} >>
       \/ \A i \in 1 .. Len(Segments(c)) : SegmentTells(c, Segments(c)[i], Asked(c)[i])

LEMMA CallSegments ==
    ASSUME NEW c \in Call, Renderable(c)
    PROVE  SegmentsTell(c)
<1>1. PICK bs, S, n : bs = c.blocks /\ S = ToSet(c.blocks) /\ bs \in Seq(S) /\ n = Len(bs) /\ n \in Nat
  BY CallAssumption
<1>2. PICK R, x, A : R = Seq(Char) /\ x = RenderBlock(c.params) /\ A = ParamsOf(c.params)
  OBVIOUS
<1>3. x \in R /\ (x = <<>> => A = {}) /\ (x # <<>> => SegmentTells(c, x, A))
  BY <1>2, BlockText
<1>4. CASE bs = <<>>
  <2>1. TextsOf(c) = <<>> /\ AskedOf(c) = <<>>
    BY <1>1, <1>4 DEF TextsOf, AskedOf
  <2>2. Segments(c) = <<x>> /\ Asked(c) = <<A>>
    BY <1>2, <2>1, SegmentsAs, AskedAs
  <2>3. PICK segs, asked : segs = <<x>> /\ asked = <<A>>
    OBVIOUS
  <2>4. segs \in Seq(R) /\ Len(segs) = 1 /\ segs[1] = x /\ segs # <<>>
    BY <1>3, <2>3
  <2>5. ToSet(asked) = {A} /\ asked \in Seq({A}) /\ Len(asked) = 1 /\ asked[1] = A
    BY <2>3, SetOfOne
  <2>6. CASE x = <<>>
    BY <1>2, <1>3, <2>2, <2>3, <2>4, <2>5, <2>6 DEF SegmentsTell
  <2>7. CASE x # <<>>
    <3>1. \A i \in 1 .. Len(segs) : SegmentTells(c, segs[i], asked[i])
      BY <1>3, <2>4, <2>5, <2>7
    <3> QED BY <1>2, <2>2, <2>3, <2>4, <2>5, <3>1 DEF SegmentsTell
  <2> QED BY <2>6, <2>7
<1>5. CASE bs # <<>>
  <2>1. PICK ts, as : ts = TextsOf(c) /\ as = AskedOf(c)
    OBVIOUS
  <2>2. \A i \in 1 .. n : bs[i] \in S
    BY <1>1
  <2>3. ts = [i \in 1 .. n |-> RenderBlock(bs[i])] /\ as = [i \in 1 .. n |-> ParamsOf(bs[i])]
    BY <1>1, <2>1 DEF TextsOf, AskedOf
  <2>4. ASSUME NEW i \in 1 .. n
        PROVE  RenderBlock(bs[i]) \in R /\ SegmentTells(c, RenderBlock(bs[i]), ParamsOf(bs[i]))
    <3>1. bs[i] \in ToSet(c.blocks)
      BY <1>1, <2>2
    <3>2. RenderBlock(c.blocks[i]) # <<>>
      BY <1>1 DEF Renderable
    <3>3. RenderBlock(bs[i]) # <<>>
      BY <1>1, <3>2
    <3> QED BY <1>2, <3>1, <3>3, BlockText
  <2>5. n # 0 /\ 1 \in 1 .. n
    BY <1>1, <1>5
  <2>6. PICK Q : Q = {ParamsOf(bs[i]) : i \in 1 .. n} \cup {A \cup ParamsOf(bs[1])}
    OBVIOUS
  <2>7. ts \in Seq(R) /\ Len(ts) = n /\ \A i \in 1 .. n : ts[i] = RenderBlock(bs[i])
    BY <1>1, <2>3, <2>4
  <2>8. as \in Seq(Q) /\ Len(as) = n /\ \A i \in 1 .. n : as[i] = ParamsOf(bs[i])
    BY <1>1, <2>3, <2>6
  <2>9. ts # <<>> /\ as # <<>>
    BY <2>5, <2>7, <2>8
  <2>10. PICK y, B : y = Join(NonEmpty(<<x, ts[1]>>), " ") /\ B = A \cup as[1]
    OBVIOUS
  <2>11. SegmentTells(c, y, B)
    BY <1>1, <1>2, <1>5, <2>5, <2>7, <2>8, <2>10, FirstSegment
  <2>12. y \in R /\ B \in Q
    BY <1>2, <2>5, <2>6, <2>8, <2>10, <2>11 DEF SegmentTells, Tells
  <2>13. Segments(c) = <<y>> \o Tail(ts) /\ Asked(c) = <<B>> \o Tail(as)
    BY <1>2, <2>1, <2>9, <2>10, SegmentsAs, AskedAs
  <2>14. PICK segs, asked : segs = <<y>> \o Tail(ts) /\ asked = <<B>> \o Tail(as)
    OBVIOUS
  <2>15. /\ segs \in Seq(R) /\ Len(segs) = n /\ segs[1] = y
         /\ \A i \in 1 .. n : i # 1 => segs[i] = ts[i]
    <3>1. Reheaded(R, ts, y, <<y>> \o Tail(ts))
      BY <2>7, <2>9, <2>12, OtherHead, Zenon
    <3>2. Reheaded(R, ts, y, segs)
      BY <2>14, <3>1
    <3> QED BY <2>7, <3>2 DEF Reheaded
  <2>16. /\ asked \in Seq(Q) /\ Len(asked) = n /\ asked[1] = B
         /\ \A i \in 1 .. n : i # 1 => asked[i] = as[i]
    <3>1. as \in Seq(Q) /\ as # <<>> /\ B \in Q
      BY <2>8, <2>9, <2>12
    <3>2. Reheaded(Q, as, B, <<B>> \o Tail(as))
      BY <3>1, OtherHead, Zenon
    <3>3. Reheaded(Q, as, B, asked)
      BY <2>14, <3>2
    <3> QED BY <2>8, <3>3 DEF Reheaded
  <2>17. \A i \in 1 .. n : SegmentTells(c, segs[i], asked[i])
    <3> SUFFICES ASSUME NEW i \in 1 .. n PROVE SegmentTells(c, segs[i], asked[i])
      OBVIOUS
    <3>1. CASE i = 1
      BY <2>11, <2>15, <2>16, <3>1
    <3>2. CASE i # 1
      BY <2>4, <2>7, <2>8, <2>15, <2>16, <3>2
    <3> QED BY <3>1, <3>2
  <2>18. segs # <<>>
    BY <2>5, <2>15
  <2>19. asked \in Seq(ToSet(asked))
    <3>1. \A i \in 1 .. Len(asked) : asked[i] \in ToSet(asked)
      BY <2>16, SetOf
    <3>2. asked = [i \in 1 .. Len(asked) |-> asked[i]] /\ Len(asked) \in Nat
      BY <2>16
    <3> QED BY <3>1, <3>2
  <2> QED BY <1>2, <2>13, <2>14, <2>15, <2>16, <2>17, <2>18, <2>19 DEF SegmentsTell
<1> QED BY <1>4, <1>5

\* What is between the name of a command and its switches.
BodyOf(c) == Join(NonEmpty(Segments(c)), "|")

SegmentsRead(text) == [i \in DOMAIN Split(text, "|") |-> ParamsIn(Split(text, "|")[i])]

BodyReads(c) ==
    /\ BodyOf(c) \in Seq(Char)
    /\ BodyOf(c) # <<>> => WordsNamed(BodyOf(c))
    /\ Content(BodyOf(c)) = UNION ToSet(Asked(c)) /\ Content(BodyOf(c)) \subseteq AnyParam
    /\ HasList(c) => Tidy(BodyOf(c))
    /\ ~HasList(c) => SegmentsRead(BodyOf(c)) = Asked(c)

LEMMA NothingRead ==
    /\ ParamsIn(<<>>) = {} /\ Split(<<>>, "|") = << <<>> >>
    /\ Content(<<>>) = {} /\ Tidy(<<>>) /\ SegmentsRead(<<>>) = << {} >>
<1>1. Split(<<>>, " ") = << <<>> >> /\ Split(<<>>, "|") = << <<>> >>
  BY SplitNone
<1>2. ToSet(Split(<<>>, " ")) = {<<>>} /\ ToSet(Split(<<>>, "|")) = {<<>>}
  BY <1>1, SetOfOne
<1>3. ParamsIn(<<>>) = {}
  <2>1. <<>> \in Seq(Char)
    OBVIOUS
  <2>2. ParamsIn(<<>>) = {ParamOf(v) : v \in ToSet(Split(<<>>, " ")) \ {<<>>}}
    BY <2>1, ParamsInFacts, Zenon
  <2> QED BY <1>2, <2>2
<1>a. PICK e, ps : e = <<>> /\ ps = Split(e, "|")
  OBVIOUS
<1>b. ToSet(ps) = {e} /\ ParamsIn(e) = {} /\ ps = <<e>>
  BY <1>1, <1>2, <1>3, <1>a
<1>4. ReadSet(<<>>) = {{}}
  <2>1. ReadSet(e) = {ParamsIn(s) : s \in {e}}
    BY <1>a, <1>b DEF ReadSet
  <2> QED BY <1>a, <1>b, <2>1
<1>5. Content(<<>>) = {} /\ Tidy(<<>>)
  BY <1>4 DEF Content, Tidy, Single
<1>6. SegmentsRead(<<>>) = << {} >>
  <2>1. DOMAIN ps = 1 .. 1 /\ ps[1] = e
    BY <1>b
  <2>2. \A i \in DOMAIN ps : ParamsIn(ps[i]) = {}
    BY <1>b, <2>1
  <2>3. SegmentsRead(e) = [i \in DOMAIN ps |-> ParamsIn(ps[i])]
    BY <1>a DEF SegmentsRead
  <2>4. SegmentsRead(e) = [i \in 1 .. 1 |-> {}]
    BY <2>1, <2>2, <2>3
  <2> QED BY <1>a, <2>4
<1> QED BY <1>1, <1>3, <1>5, <1>6

LEMMA BodyRead ==
    ASSUME NEW c \in Call, Renderable(c)
    PROVE  BodyReads(c)
<1>1. PICK segs, asked, R, n : /\ segs = Segments(c) /\ asked = Asked(c) /\ R = Seq(Char)
                               /\ n = Len(segs)
  OBVIOUS
<1>2. segs \in Seq(R) /\ segs # <<>> /\ n \in Nat /\ Len(asked) = n /\ asked \in Seq(ToSet(asked))
  BY <1>1, CallSegments DEF SegmentsTell
<1>3. \/ segs = << <<>> >> /\ asked = << {} >>
      \/ \A i \in 1 .. n : SegmentTells(c, segs[i], asked[i])
  BY <1>1, CallSegments DEF SegmentsTell
<1>4. CASE segs = << <<>> >> /\ asked = << {} >>
  <2>1. NonEmpty(segs) = <<>>
    <3>1. <<>> \in R /\ <<>> \in Seq(R)
      BY <1>1
    <3>2. PICK e \in Seq(R) : e = <<>>
      BY <3>1
    <3>3. Without(Append(e, <<>>), {<<>>})
             = IF <<>> \in {<<>>} THEN Without(e, {<<>>}) ELSE Append(Without(e, {<<>>}), <<>>)
      BY <3>1, WithoutAppend
    <3>4. Append(e, <<>>) = segs
      BY <1>4, <3>2
    <3> QED BY <3>2, <3>3, <3>4, WithoutNone DEF NonEmpty
  <2>2. BodyOf(c) = <<>>
    BY <1>1, <2>1, JoinNone DEF BodyOf
  <2>3. ToSet(asked) = {{}}
    BY <1>4, SetOfOne
  <2>4. UNION ToSet(asked) = {}
    BY <2>3
  <2> QED BY <1>1, <1>4, <2>2, <2>4, NothingRead DEF BodyReads
<1>5. CASE \A i \in 1 .. n : SegmentTells(c, segs[i], asked[i])
  <2>1. \A i \in 1 .. n : /\ segs[i] \in R /\ segs[i] # <<>> /\ Content(segs[i]) = asked[i]
                          /\ Tells(segs[i], asked[i])
    BY <1>1, <1>5 DEF SegmentTells, Tells
  <2>2. segs \in Seq(Telling)
    <3>1. \A i \in 1 .. n : segs[i] \in Telling
      BY <1>1, <2>1 DEF Telling
    <3> QED BY <1>1, <1>2, <3>1
  <2>3. NonEmpty(segs) = segs
    <3>1. \A i \in 1 .. Len(segs) : segs[i] \notin {<<>>}
      BY <1>1, <2>1
    <3> QED BY <1>2, <3>1, WithoutOutside DEF NonEmpty
  <2>4. PICK body : body = BodyOf(c)
    OBVIOUS
  <2>5. body = Join(segs, "|")
    BY <1>1, <2>3, <2>4 DEF BodyOf
  <2>6. BarsTell(segs)
    BY <2>2, BarsTellAll
  <2>7. {Content(x) : x \in ToSet(segs)} = ToSet(asked)
    <3>1. \A x \in ToSet(segs) : \E i \in 1 .. n : x = segs[i]
      BY <1>1, <1>2, SetOf
    <3>2. \A i \in 1 .. n : segs[i] \in ToSet(segs) /\ asked[i] \in ToSet(asked)
      BY <1>1, <1>2, SetOf
    <3>3. \A A \in ToSet(asked) : \E i \in 1 .. n : A = asked[i]
      BY <1>2, SetOf
    <3>4. \A x \in ToSet(segs) : Content(x) \in ToSet(asked)
      BY <2>1, <3>1, <3>2
    <3>5. \A A \in ToSet(asked) : \E x \in ToSet(segs) : A = Content(x)
      BY <2>1, <3>2, <3>3
    <3> QED BY <3>4, <3>5
  <2>8. Tells(body, UNION ToSet(asked))
    BY <1>2, <2>5, <2>6, <2>7 DEF BarsTell
  <2>9. ASSUME HasList(c) PROVE Tidy(body)
    <3>1. \A x \in ToSet(segs) : Tidy(x)
      <4>1. \A i \in 1 .. n : Tidy(segs[i])
        BY <1>5, <2>9 DEF SegmentTells
      <4> QED BY <1>1, <1>2, <4>1, SetOf
    <3> QED BY <1>2, <2>5, <2>6, <3>1 DEF BarsTell
  <2>10. ASSUME ~HasList(c) PROVE SegmentsRead(body) = asked
    <3>1. PICK F : F = Seq(Free("|"))
      OBVIOUS
    <3>2. \A i \in 1 .. n : segs[i] \in F /\ Whole(segs[i])
      BY <1>5, <2>10, <3>1 DEF SegmentTells, Whole
    <3>3. segs \in Seq(F)
      BY <1>1, <1>2, <3>2
    <3>4. Split(body, "|") = segs
      BY <1>2, <2>5, <3>1, <3>3, SplitJoin, WordFacts
    <3>5. \A i \in 1 .. n : ParamsIn(segs[i]) = asked[i]
      BY <1>1, <2>1, <3>2, WholeReads
    <3>6. SegmentsRead(body) = [i \in 1 .. n |-> asked[i]]
      BY <1>1, <1>2, <3>4, <3>5 DEF SegmentsRead
    <3>7. asked = [i \in 1 .. n |-> asked[i]]
      BY <1>2
    <3> QED BY <3>6, <3>7
  <2>11. /\ body \in Seq(Char) /\ WordsNamed(body) /\ Content(body) = UNION ToSet(asked)
         /\ Content(body) \subseteq AnyParam
    BY <2>8 DEF Tells
  <2> QED BY <1>1, <2>4, <2>9, <2>10, <2>11 DEF BodyReads
<1> QED BY <1>3, <1>4, <1>5

LEMMA OneOf ==
    ASSUME NEW S, NEW a \in S
    PROVE  <<a>> \in Seq(S) /\ Len(<<a>>) = 1 /\ <<a>>[1] = a /\ <<a>> # <<>>
<1>1. <<a>> \in Seq(S) /\ Len(<<a>>) = 1 /\ <<a>>[1] = a
  OBVIOUS
<1>2. <<a>> # <<>>
  OBVIOUS
<1> QED BY <1>1, <1>2

LEMMA TwoOf ==
    ASSUME NEW S, NEW a \in S, NEW b \in S
    PROVE  <<a, b>> \in Seq(S) /\ Len(<<a, b>>) = 2 /\ <<a, b>> # <<>>
<1>1. <<a, b>> \in Seq(S) /\ Len(<<a, b>>) = 2
  OBVIOUS
<1>2. <<a, b>> # <<>>
  OBVIOUS
<1> QED BY <1>1, <1>2

\* What is left behind the first.
Behind(a, s, w) == Tail(<<a>> \o s) = w

LEMMA TailOf ==
    ASSUME NEW S, NEW a \in S, NEW s \in Seq(S)
    PROVE  Behind(a, s, s)
<1>0. PICK p \in Seq(S) : p = <<a>>
  BY OneOf
<1>1. PICK n, w, v : n = Len(s) /\ p = <<a>> /\ w = p \o s /\ v = Tail(w)
  BY <1>0
<1>2. p \in Seq(S) /\ Len(p) = 1 /\ n \in Nat
  BY <1>1, OneOf
<1>3. w \in Seq(S) /\ Len(w) = n + 1
  <2>1. p \o s \in Seq(S) /\ Len(p \o s) = Len(p) + Len(s)
    OBVIOUS
  <2> QED BY <1>1, <1>2, <2>1
<1>4. \A i \in 1 .. n : w[i + 1] = s[i]
  <2>1. \A i \in 1 .. Len(p) + Len(s) : (p \o s)[i] = IF i <= Len(p) THEN p[i] ELSE s[i - Len(p)]
    OBVIOUS
  <2> SUFFICES ASSUME NEW i \in 1 .. n PROVE w[i + 1] = s[i]
    OBVIOUS
  <2>2. i + 1 \in 1 .. Len(p) + Len(s) /\ ~(i + 1 <= Len(p)) /\ (i + 1) - Len(p) = i
    BY <1>1, <1>2
  <2>3. (p \o s)[i + 1] = s[(i + 1) - Len(p)]
    BY <2>1, <2>2
  <2> QED BY <1>1, <2>2, <2>3
<1>5. v \in Seq(S) /\ Len(v) = n /\ \A i \in 1 .. n : v[i] = w[i + 1]
  <2>1. w # <<>>
    BY <1>2, <1>3
  <2>2. Tail(w) \in Seq(S) /\ Len(Tail(w)) = Len(w) - 1 /\ \A i \in 1 .. Len(w) - 1 : Tail(w)[i] = w[i + 1]
    BY <1>3, <2>1
  <2> QED BY <1>1, <1>2, <1>3, <2>2
<1>6. v = s
  BY <1>1, <1>2, <1>4, <1>5, SeqEqual
<1> QED BY <1>1, <1>6 DEF Behind

WordsOf(line) == Tail(Split(line, " "))
Switches(line) == {w \in ToSet(WordsOf(line)) : w[1] = "-"}

LEMMA ServerReadsAs ==
    \A line : ServerReads(line)
                 = [cmd |-> line[1], options |-> {w[2] : w \in Switches(line)},
                    segments |-> SegmentsRead(Join(Without(WordsOf(line), Switches(line)), " "))]
BY Zenon DEF ServerReads, WordsOf, Switches, SegmentsRead, ParamsIn, ParamOf

OptionsOf(c) == [i \in DOMAIN c.options |-> <<"-", c.options[i]>>]

LEMMA RenderCommandAs ==
    \A c : RenderCommand(c) = Join(NonEmpty(<< <<c.cmd>>, BodyOf(c) >>) \o OptionsOf(c), " ")
BY Zenon DEF RenderCommand, BodyOf, OptionsOf

LEMMA OptionsFacts ==
    ASSUME NEW c \in Call
    PROVE  /\ OptionsOf(c) \in Seq(Seq(Free(" ")))
           /\ \A w \in ToSet(OptionsOf(c)) : w[1] = "-"
           /\ {w[2] : w \in ToSet(OptionsOf(c))} = ToSet(c.options)
<1>1. PICK os, n : os = c.options /\ n = Len(os) /\ os \in Seq(Word) /\ n \in Nat
  BY CallAssumption
<1>2. PICK E, R : E = [o \in Word |-> <<"-", o>>] /\ R = Seq(Free(" "))
  OBVIOUS
<1>3. \A o \in Word : <<"-", o>> \in R
  <2>1. "-" \in Free(" ") /\ \A o \in Word : o \in Free(" ")
    BY WordFacts DEF Free
  <2> QED BY <1>2, <2>1, TwoOf
<1>4. E \in [Word -> R] /\ \A o \in Word : E[o] = <<"-", o>>
  BY <1>2, <1>3
<1>5. OptionsOf(c) = Imaged(os, E)
  <2>1. \A i \in DOMAIN os : os[i] \in Word
    BY <1>1
  <2> QED BY <1>1, <1>4, <2>1 DEF OptionsOf, Imaged
<1>6. Imaging(R, os, E, Imaged(os, E))
  BY <1>1, <1>4, ImagedFacts, Zenon
<1>7. ToSet(Imaged(os, E)) = {E[x] : x \in ToSet(os)}
  BY <1>1, <1>4, ImagedSet
<1>8. ToSet(os) \subseteq Word
  BY <1>1, AllIn
<1>9. \A o \in ToSet(os) : E[o] = <<"-", o>> /\ E[o][1] = "-" /\ E[o][2] = o
  BY <1>4, <1>8
<1>10. OptionsOf(c) \in Seq(R)
  BY <1>5, <1>6 DEF Imaging
<1>11. \A w \in ToSet(OptionsOf(c)) : w[1] = "-"
  BY <1>5, <1>7, <1>9
<1>12. {w[2] : w \in ToSet(OptionsOf(c))} = {E[x][2] : x \in ToSet(os)}
  BY <1>5, <1>7
<1>13. {E[x][2] : x \in ToSet(os)} = ToSet(os)
  BY <1>9
<1> QED BY <1>1, <1>2, <1>10, <1>11, <1>12, <1>13

\* The words of a body, none if it is empty.
BodyWords(body) == IF body = <<>> THEN <<>> ELSE Split(body, " ")

LEMMA BodyWordsFacts ==
    ASSUME NEW body \in Seq(Char), body # <<>> => WordsNamed(body)
    PROVE  /\ BodyWords(body) \in Seq(Seq(Char)) /\ Join(BodyWords(body), " ") = body
           /\ \A w \in ToSet(BodyWords(body)) : w[1] \in Word
<1>1. CASE body = <<>>
  <2>1. BodyWords(body) = <<>>
    BY <1>1 DEF BodyWords
  <2>2. ToSet(<<>>) = {}
    BY DEF ToSet
  <2>a. <<>> \in Seq(Seq(Char))
    OBVIOUS
  <2>3. Join(<<>>, " ") = <<>> /\ <<>> \in Seq(Seq(Char))
    BY <2>a, JoinNone
  <2>4. PICK ws : ws = BodyWords(body)
    OBVIOUS
  <2>5. ws \in Seq(Seq(Char)) /\ ToSet(ws) = {} /\ Join(ws, " ") = body
    BY <1>1, <2>1, <2>2, <2>3, <2>4
  <2>6. \A w \in ToSet(ws) : w[1] \in Word
    BY <2>5
  <2> QED BY <2>4, <2>5, <2>6
<1>2. CASE body # <<>>
  <2>1. BodyWords(body) = Split(body, " ")
    BY <1>2 DEF BodyWords
  <2>2. Split(body, " ") \in Seq(Seq(Char))
    BY PiecesTyped, WordFacts
  <2>3. Join(Split(body, " "), " ") = body
    BY JoinSplit, WordFacts
  <2>4. \A w \in ToSet(Split(body, " ")) : w[1] \in Word
    BY <1>2 DEF WordsNamed
  <2> QED BY <2>1, <2>2, <2>3, <2>4
<1> QED BY <1>1, <1>2

\* The words of a command line: its name, those of the body and the switches.
Worded(line, h, ws, opts) == Split(line, " ") = (<<h>> \o ws) \o opts

Lined(cmd, body, opts, line) == line = Join(NonEmpty(<< <<cmd>>, body>>) \o opts, " ")

LEMMA CommandWords ==
    ASSUME NEW cmd \in Word, NEW body \in Seq(Char), NEW opts \in Seq(Seq(Free(" "))), NEW line,
           Lined(cmd, body, opts, line)
    PROVE  /\ Worded(line, <<cmd>>, BodyWords(body), opts) /\ line \in Seq(Char)
           /\ line # <<>> /\ line[1] = cmd
<1>1. PICK R, h, ws, K : /\ R = Seq(Char) /\ h = <<cmd>> /\ ws = BodyWords(body)
                         /\ K = Join(NonEmpty(<<h, body>>), " ")
  OBVIOUS
<1>2. h \in R /\ h # <<>> /\ h[1] = cmd /\ h \in Seq(Free(" ")) /\ opts \in Seq(R)
  <2>1. cmd \in Free(" ") /\ cmd \in Char
    BY WordFacts DEF Free
  <2>2. h \in Seq(Free(" "))
    BY <1>1, <2>1, OneOf
  <2>3. h \in Seq(Char) /\ h # <<>> /\ h[1] = cmd
    BY <1>1, <2>1, OneOf
  <2>4. opts \in Seq(R)
    BY <1>1, FreeTexts
  <2> QED BY <1>1, <2>2, <2>3, <2>4
<1>3. PICK kept : kept = NonEmpty(<<h, body>>)
  OBVIOUS
<1>4. kept = IF body = <<>> THEN <<h>> ELSE <<h, body>>
  BY <1>1, <1>2, <1>3, KeptOfTwo
<1>5. kept \in Seq(R) /\ kept # <<>>
  <2>1. <<h>> \in Seq(R) /\ <<h>> # <<>>
    BY <1>2, OneOf
  <2>2. body \in R
    BY <1>1
  <2>3. <<h, body>> \in Seq(R) /\ <<h, body>> # <<>>
    BY <1>2, <2>2, TwoOf
  <2> QED BY <1>4, <2>1, <2>3
<1>6. Split(h, " ") = <<h>>
  BY <1>2, SplitFree
<1>7. K \in R /\ K # <<>> /\ K[1] = cmd /\ Split(K, " ") = <<h>> \o ws
  <2>1. CASE body = <<>>
    <3>1. K = h
      BY <1>1, <1>2, <1>3, <1>4, <2>1, JoinOne, WordFacts
    <3>2. ws = <<>>
      BY <1>1, <2>1 DEF BodyWords
    <3>3. <<h>> \in Seq(R)
      BY <1>2, OneOf
    <3>4. <<h>> \o ws = <<h>>
      BY <3>2, <3>3, ConcatEmptySeq
    <3> QED BY <1>2, <1>6, <3>1, <3>4
  <2>2. CASE body # <<>>
    <3>1. K = h \o (<<" ">> \o body)
      <4>1. K = Join(<<h, body>>, " ")
        BY <1>1, <1>3, <1>4, <2>2
      <4>2. h \in Seq(Char) /\ " " \in Char
        BY <1>1, <1>2, WordFacts
      <4>3. Join(<<h, body>>, " ") = h \o (<<" ">> \o body)
        BY <4>2, JoinTwo
      <4> QED BY <4>1, <4>3
    <3>2. ws = Split(body, " ")
      BY <1>1, <2>2 DEF BodyWords
    <3>3. Pieced(K, " ", Split(h, " ") \o Split(body, " "))
      BY <1>1, <1>2, <3>1, SplitBoth, WordFacts, Zenon
    <3>4. Split(K, " ") = <<h>> \o ws
      BY <1>6, <3>2, <3>3 DEF Pieced
    <3>5. K[1] = cmd /\ K # <<>>
      <4>1. h \in Seq(Char) /\ h # <<>> /\ " " \in Char
        BY <1>1, <1>2, WordFacts
      <4>2. (h \o (<<" ">> \o body))[1] = h[1] /\ h \o (<<" ">> \o body) # <<>>
        BY <4>1, FirstOf
      <4> QED BY <1>2, <3>1, <4>2
    <3>6. K \in R
      BY <1>1, <1>2, <3>1, SpacedType DEF Spaced
    <3> QED BY <3>4, <3>5, <3>6
  <2> QED BY <2>1, <2>2
<1>8. Split(K, " ") \in Seq(R)
  BY <1>1, <1>7, PiecesTyped, WordFacts
<1>9. CASE opts = <<>>
  <2>1. kept \o opts = kept
    BY <1>5, <1>9, ConcatEmptySeq
  <2>2. line = K
    BY <1>1, <1>3, <2>1 DEF Lined
  <2>3. Split(K, " ") \o opts = Split(K, " ")
    BY <1>8, <1>9, ConcatEmptySeq
  <2> QED BY <1>1, <1>7, <2>2, <2>3 DEF Worded
<1>10. CASE opts # <<>>
  <2>1. PICK u : u = Join(opts, " ")
    OBVIOUS
  <2>2. u \in R
    BY <1>1, <1>2, <2>1, JoinType, WordFacts
  <2>3. Join(kept \o opts, " ") = Join(kept, " ") \o (<<" ">> \o Join(opts, " "))
    BY <1>1, <1>2, <1>5, <1>10, JoinConcat, WordFacts
  <2>4. line = K \o (<<" ">> \o u)
    BY <1>1, <1>3, <2>1, <2>3 DEF Lined
  <2>5. Pieced(line, " ", Split(K, " ") \o Split(u, " "))
    BY <1>1, <1>7, <2>2, <2>4, SplitBoth, WordFacts, Zenon
  <2>6. Split(u, " ") = opts
    BY <1>10, <2>1, SplitJoin, WordFacts
  <2>7. Worded(line, h, ws, opts)
    BY <1>7, <2>5, <2>6 DEF Pieced, Worded
  <2>8. line[1] = cmd /\ line # <<>>
    <3>1. K \in Seq(Char) /\ K # <<>> /\ u \in Seq(Char) /\ " " \in Char
      BY <1>1, <1>7, <2>2, WordFacts
    <3>2. (K \o (<<" ">> \o u))[1] = K[1] /\ K \o (<<" ">> \o u) # <<>>
      BY <3>1, FirstOf
    <3> QED BY <1>7, <2>4, <3>2
  <2>9. line \in Seq(Char)
    BY <1>1, <1>7, <2>2, <2>4, SpacedType DEF Spaced
  <2> QED BY <1>1, <2>7, <2>8, <2>9
<1> QED BY <1>9, <1>10

\* What the server reads of the line a call is rendered to.
CommandReads(c) ==
    ServerReads(RenderCommand(c))
       = [cmd |-> c.cmd, options |-> ToSet(c.options), segments |-> SegmentsRead(BodyOf(c))]

LEMMA CommandRead ==
    ASSUME NEW c \in Call, Renderable(c)
    PROVE  CommandReads(c)
<1>1. PICK R, line, body, h, ws, opts :
         /\ R = Seq(Char) /\ line = RenderCommand(c) /\ body = BodyOf(c) /\ h = <<c.cmd>>
         /\ ws = BodyWords(body) /\ opts = OptionsOf(c)
  OBVIOUS
<1>2. c.cmd \in Word /\ h \in R
  <2>1. c.cmd \in Word /\ c.cmd \in Char
    BY CallAssumption, WordFacts
  <2> QED BY <1>1, <2>1, OneOf
<1>3. body \in R /\ (body # <<>> => WordsNamed(body))
  BY <1>1, BodyRead DEF BodyReads
<1>4. ws \in Seq(R) /\ Join(ws, " ") = body /\ \A w \in ToSet(ws) : w[1] \in Word
  BY <1>1, <1>3, BodyWordsFacts
<1>5. /\ opts \in Seq(Seq(Free(" "))) /\ opts \in Seq(R)
      /\ \A w \in ToSet(opts) : w[1] = "-"
      /\ {w[2] : w \in ToSet(opts)} = ToSet(c.options)
  BY <1>1, OptionsFacts, FreeTexts
<1>6. line = Join(NonEmpty(<< <<c.cmd>>, body>>) \o opts, " ")
  BY <1>1, RenderCommandAs
<1>7. Worded(line, h, ws, opts) /\ line[1] = c.cmd
  <2>1. PICK cmd : cmd = c.cmd
    OBVIOUS
  <2>2. cmd \in Word /\ body \in Seq(Char) /\ Lined(cmd, body, opts, line)
    BY <1>1, <1>2, <1>3, <1>6, <2>1 DEF Lined
  <2>3. Worded(line, <<cmd>>, BodyWords(body), opts) /\ line[1] = cmd
    BY <1>5, <2>2, CommandWords, Zenon
  <2> QED BY <1>1, <2>1, <2>3
<1>8. PICK words, sw : words = WordsOf(line) /\ sw = Switches(line)
  OBVIOUS
<1>9. words = ws \o opts
  <2>1. <<h>> \in Seq(R)
    BY <1>2, OneOf
  <2>2. PICK H \in Seq(R) : H = <<h>>
    BY <2>1
  <2>a. PICK x \in Seq(R), y \in Seq(R) : x = ws /\ y = opts
    BY <1>4, <1>5
  <2>b. (H \o x) \o y = H \o (x \o y)
    OBVIOUS
  <2>3. (H \o ws) \o opts = H \o (ws \o opts)
    BY <2>a, <2>b
  <2>d. x \o y \in Seq(R)
    OBVIOUS
  <2>c. PICK wo \in Seq(R) : wo = x \o y
    BY <2>d
  <2>4. wo = ws \o opts
    BY <2>a, <2>c
  <2>5. Behind(h, wo, wo)
    BY <1>2, TailOf
  <2>6. Tail((<<h>> \o ws) \o opts) = wo
    BY <2>2, <2>3, <2>4, <2>5 DEF Behind
  <2> QED BY <1>7, <1>8, <2>4, <2>6 DEF Worded, WordsOf
<1>10. Collected(ws, opts, ws \o opts)
  BY <1>4, <1>5, SetOfConcat, Zenon
<1>11. ToSet(words) = ToSet(ws) \cup ToSet(opts)
  BY <1>9, <1>10 DEF Collected
<1>12. sw = ToSet(opts)
  <2>1. \A w \in ToSet(ws) : w[1] # "-"
    BY <1>4, WordFacts
  <2> QED BY <1>5, <1>8, <1>11, <2>1 DEF Switches
<1>13. Without(words, sw) = ws
  <2>1. Kept(ws \o opts, sw, Without(ws, sw) \o Without(opts, sw))
    BY <1>4, <1>5, WithoutConcat, Zenon
  <2>2. Without(ws, sw) = ws
    <3>1. \A w \in ToSet(ws) : w \notin sw
      BY <1>4, <1>5, <1>12, WordFacts
    <3>2. \A i \in 1 .. Len(ws) : ws[i] \notin sw
      BY <1>4, <3>1, SetOf
    <3> QED BY <1>4, <3>2, WithoutOutside
  <2>3. Without(opts, sw) = <<>>
    <3>1. Without(opts, sw) \in Seq(R \ sw)
      BY <1>5, WithoutType
    <3>2. ToSet(Without(opts, sw)) = {}
      <4>1. ToSet(Without(opts, sw)) = ToSet(opts) \ sw
        BY <1>5, WithoutSet
      <4> QED BY <1>12, <4>1
    <3>3. PICK v : v = Without(opts, sw)
      OBVIOUS
    <3>4. v \in Seq(R \ sw) /\ ToSet(v) = {}
      BY <3>1, <3>2, <3>3
    <3>5. \A i \in 1 .. Len(v) : v[i] \in ToSet(v)
      BY <3>4, SetOf
    <3>6. Len(v) = 0
      <4>1. Len(v) \in Nat /\ (Len(v) # 0 => 1 \in 1 .. Len(v))
        BY <3>4
      <4> QED BY <3>4, <3>5, <4>1
    <3> QED BY <3>3, <3>4, <3>6
  <2>4. ws \o <<>> = ws
    BY <1>4, ConcatEmptySeq
  <2> QED BY <1>9, <2>1, <2>2, <2>3, <2>4 DEF Kept
<1>14. ServerReads(line) = [cmd |-> line[1], options |-> {w[2] : w \in Switches(line)},
                            segments |-> SegmentsRead(Join(Without(WordsOf(line), Switches(line)), " "))]
  BY ServerReadsAs
<1>15. ServerReads(line) = [cmd |-> c.cmd, options |-> ToSet(c.options), segments |-> SegmentsRead(body)]
  BY <1>4, <1>5, <1>7, <1>8, <1>12, <1>13, <1>14
<1> QED BY <1>1, <1>15 DEF CommandReads

LEMMA SegmentsReadFacts ==
    ASSUME NEW t \in Seq(Char)
    PROVE  /\ ToSet(SegmentsRead(t)) = ReadSet(t)
           /\ SegmentsRead(t) \in Seq(ReadSet(t))
<1>1. PICK ps, n, S : ps = Split(t, "|") /\ n = Len(ps) /\ S = SegmentsRead(t)
  OBVIOUS
<1>2. PICK R : R = Seq(Char)
  OBVIOUS
<1>3. ps \in Seq(R) /\ n \in Nat /\ DOMAIN ps = 1 .. n
  <2>1. ps \in Seq(R)
    BY <1>1, <1>2, PiecesTyped, WordFacts
  <2> QED BY <1>1, <2>1
<1>4. S = [i \in 1 .. n |-> ParamsIn(ps[i])]
  BY <1>1, <1>3 DEF SegmentsRead
<1>5. \A i \in 1 .. n : ps[i] \in ToSet(ps)
  BY <1>1, <1>3, SetOf
<1>6. \A x \in ToSet(ps) : \E i \in 1 .. n : x = ps[i]
  BY <1>1, <1>3, SetOf
<1>7. ReadSet(t) = {ParamsIn(x) : x \in ToSet(ps)}
  BY <1>1 DEF ReadSet
<1>8. \A i \in 1 .. n : ParamsIn(ps[i]) \in ReadSet(t)
  BY <1>5, <1>7
<1>9. S \in Seq(ReadSet(t)) /\ Len(S) = n /\ \A i \in 1 .. n : S[i] = ParamsIn(ps[i])
  BY <1>3, <1>4, <1>8
<1>10. ToSet(S) = ReadSet(t)
  <2>1. \A i \in 1 .. n : S[i] \in ToSet(S)
    BY <1>9, SetOf
  <2>2. \A y \in ToSet(S) : \E i \in 1 .. n : y = S[i]
    BY <1>9, SetOf
  <2>3. \A y \in ToSet(S) : y \in ReadSet(t)
    BY <1>8, <1>9, <2>2
  <2>4. ASSUME NEW y \in ReadSet(t) PROVE y \in ToSet(S)
    <3>1. PICK x \in ToSet(ps) : y = ParamsIn(x)
      BY <1>7
    <3>2. PICK i \in 1 .. n : x = ps[i]
      BY <1>6
    <3> QED BY <1>9, <2>1, <3>1, <3>2
  <2> QED BY <2>3, <2>4
<1> QED BY <1>1, <1>9, <1>10

\* What the server reads of a call is what the call asks for.
Understands(c, reading) ==
    /\ reading.cmd = c.cmd /\ reading.options = ToSet(c.options)
    /\ IF HasList(c)
       THEN /\ UNION ToSet(reading.segments) = UNION ToSet(Asked(c))
            /\ \A segment \in ToSet(reading.segments) : \A p, q \in segment :
                  p[1] = q[1] => p = q
       ELSE reading.segments = Asked(c)

LEMMA CommandFacts ==
    ASSUME NEW c \in Call, Renderable(c), NEW reading, reading = ServerReads(RenderCommand(c))
    PROVE  /\ Understands(c, reading)
           /\ reading.segments \in Seq(ToSet(reading.segments))
           /\ UNION ToSet(reading.segments) \subseteq AnyParam
           /\ \A S \in ToSet(reading.segments) : S \in ReadSet(BodyOf(c))
           /\ BodyOf(c) \in Seq(Char)
<1>1. reading = [cmd |-> c.cmd, options |-> ToSet(c.options), segments |-> SegmentsRead(BodyOf(c))]
  BY CommandRead DEF CommandReads
<1>2. PICK body, segs : body = BodyOf(c) /\ segs = SegmentsRead(body)
  OBVIOUS
<1>3. reading.cmd = c.cmd /\ reading.options = ToSet(c.options) /\ reading.segments = segs
  BY <1>1, <1>2
<1>4. /\ body \in Seq(Char)
      /\ Content(body) = UNION ToSet(Asked(c)) /\ Content(body) \subseteq AnyParam
      /\ HasList(c) => Tidy(body)
      /\ ~HasList(c) => segs = Asked(c)
  BY <1>2, BodyRead DEF BodyReads
<1>5. ToSet(segs) = ReadSet(body) /\ segs \in Seq(ReadSet(body))
  BY <1>2, <1>4, SegmentsReadFacts
<1>6. UNION ToSet(segs) = Content(body)
  BY <1>5 DEF Content
<1>7. HasList(c) => \A segment \in ToSet(segs) : \A p, q \in segment : p[1] = q[1] => p = q
  BY <1>4, <1>5 DEF Tidy, Single
<1>8. Understands(c, reading)
  BY <1>3, <1>4, <1>6, <1>7 DEF Understands
<1> QED BY <1>2, <1>3, <1>4, <1>5, <1>6, <1>8

\* Whatever characters its values have, the line a call is rendered to is read
\* by the server as what the call asks for: its name, its switches and, segment
\* by segment, its parameters (render_command(), escape()).
THEOREM CommandsRead ==
    \A c \in Call : Renderable(c) => Understands(c, ServerReads(RenderCommand(c)))
BY CommandFacts

-----------------------------------------------------------------------------
(* The row that is parsed from the text of a row *)

\* The elements of S, each of them once.
Lists(s, S) ==
    /\ s \in Seq(S) /\ ToSet(s) = S
    /\ \A i, j \in 1 .. Len(s) : s[i] = s[j] => i = j

LEMMA SetToSeqLists ==
    ASSUME NEW S, IsFiniteSet(S)
    PROVE  Lists(SetToSeq(S), S)
<1>1. PICK n : n = Cardinality(S)
  OBVIOUS
<1>2. n \in Nat /\ ExistsBijection(1 .. n, S)
  BY <1>1, FS_CardinalityType
<1>3. PICK g \in Bijection(1 .. n, S) : TRUE
  BY <1>2 DEF ExistsBijection
<1>4. g \in [1 .. n -> S] /\ IsInjective(g)
  BY <1>3 DEF Bijection, Injection
<1>5. PICK f : f = SetToSeq(S)
  OBVIOUS
<1>6. f \in [1 .. n -> S] /\ IsInjective(f)
  BY <1>1, <1>4, <1>5, Zenon DEF SetToSeq
<1>7. f \in Injection(1 .. n, S)
  BY <1>6 DEF Injection
<1>8. IsFiniteSet(1 .. n) /\ Cardinality(1 .. n) = n
  BY <1>2, FS_Interval
<1>9. f \in Surjection(1 .. n, S)
  BY <1>1, <1>7, <1>8, FS_Injection
<1>10. \A x \in S : \E i \in 1 .. n : f[i] = x
  BY <1>9 DEF Surjection
<1>11. f \in Seq(S) /\ Len(f) = n
  BY <1>2, <1>6
<1>12. ToSet(f) = S
  <2>1. \A i \in 1 .. n : f[i] \in ToSet(f)
    BY <1>11, SetOf
  <2>2. \A x \in ToSet(f) : x \in S
    BY <1>11, AllIn
  <2> QED BY <1>10, <2>1, <2>2
<1>13. \A i, j \in 1 .. n : f[i] = f[j] => i = j
  BY <1>6 DEF IsInjective
<1> QED BY <1>5, <1>11, <1>12, <1>13 DEF Lists

LEMMA MinOf ==
    ASSUME NEW s, NEW m \in s, s \subseteq Nat, \A i \in s : m <= i
    PROVE  Min(s) = m
<1>1. m \in s /\ \A i \in s : m <= i
  OBVIOUS
<1>2. \A x \in s : (\A i \in s : x <= i) => x = m
  OBVIOUS
<1> QED BY <1>1, <1>2, Zenon DEF Min

\* partition() at sep: what is before it and what is behind it.
Parted(w, sep, a, b) == Before(w, sep) = a /\ After(w, sep) = b

At(w, sep) == {i \in 1 .. Len(w) : w[i] = sep}

FirstAt(w, sep) == IF At(w, sep) # {} THEN Min(At(w, sep)) ELSE 0

LEMMA PartitionAs ==
    ASSUME NEW w, NEW sep, NEW i, FirstAt(w, sep) = i
    PROVE  /\ Before(w, sep) = IF i = 0 THEN w ELSE SubSeq(w, 1, i - 1)
           /\ After(w, sep) = IF i = 0 THEN <<>> ELSE SubSeq(w, i + 1, Len(w))
BY Zenon DEF Before, After, SelectInSeq, FirstAt, At

LEMMA PartedNot ==
    ASSUME NEW sep, NEW a \in Seq(Free(sep))
    PROVE  Parted(a, sep, a, <<>>)
<1>1. At(a, sep) = {}
  <2>1. \A i \in 1 .. Len(a) : a[i] \in Free(sep)
    OBVIOUS
  <2> QED BY <2>1 DEF At, Free
<1>2. FirstAt(a, sep) = 0
  BY <1>1 DEF FirstAt
<1> QED BY <1>2, PartitionAs DEF Parted

LEMMA PartedAt ==
    ASSUME NEW sep \in Char, NEW a \in Seq(Free(sep)), NEW b \in Seq(Char)
    PROVE  Parted(a \o (<<sep>> \o b), sep, a, b)
<1>1. PICK n \in Nat, m \in Nat : n = Len(a) /\ m = Len(b)
  OBVIOUS
<1>2. PICK c \in Seq(Char), e \in Seq(Char) : c = <<sep>> /\ e = <<sep>> \o b
  BY OneMore
<1>3. Len(c) = 1 /\ c[1] = sep
  BY <1>2
<1>a. PICK x \in Seq(Char) : x = a
  BY FreeChars
<1>4. Len(e) = m + 1 /\ e[1] = sep /\ \A i \in 1 .. m : e[i + 1] = b[i]
  <2>1. Len(c \o b) = Len(c) + Len(b)
    OBVIOUS
  <2>2. \A i \in 1 .. Len(c) + Len(b) : (c \o b)[i] = IF i <= Len(c) THEN c[i] ELSE b[i - Len(c)]
    OBVIOUS
  <2>3. Len(c) + Len(b) = m + 1
    BY <1>1, <1>3
  <2>4. \A i \in 1 .. m + 1 : e[i] = IF i <= 1 THEN c[i] ELSE b[i - 1]
    BY <1>2, <1>3, <2>2, <2>3
  <2> QED BY <1>2, <1>3, <2>1, <2>3, <2>4
<1>5. PICK w : w = x \o e
  OBVIOUS
<1>6. w \in Seq(Char) /\ Len(w) = n + 1 + m
  <2>1. x \o e \in Seq(Char) /\ Len(x \o e) = Len(x) + Len(e)
    OBVIOUS
  <2> QED BY <1>1, <1>a, <1>4, <1>5, <2>1
<1>7. \A i \in 1 .. n + 1 + m : w[i] = IF i <= n THEN a[i] ELSE e[i - n]
  <2>1. \A i \in 1 .. Len(x) + Len(e) : (x \o e)[i] = IF i <= Len(x) THEN x[i] ELSE e[i - Len(x)]
    OBVIOUS
  <2>2. Len(x) + Len(e) = n + 1 + m /\ Len(x) = n
    BY <1>1, <1>a, <1>4
  <2> QED BY <1>5, <1>a, <2>1, <2>2
<1>8. \A i \in 1 .. n : w[i] # sep
  <2>1. \A i \in 1 .. n : a[i] \in Free(sep)
    BY <1>1
  <2> QED BY <1>7, <2>1 DEF Free
<1>9. w[n + 1] = sep
  BY <1>4, <1>7
<1>10. PICK at : at = At(w, sep)
  OBVIOUS
<1>11. n + 1 \in at /\ at \subseteq Nat /\ \A i \in at : n + 1 <= i
  BY <1>6, <1>8, <1>9, <1>10 DEF At
<1>12. at # {} /\ Min(at) = n + 1
  BY <1>11, MinOf
<1>13. Before(w, sep) = SubSeq(w, 1, n) /\ After(w, sep) = SubSeq(w, n + 2, n + 1 + m)
  <2>1. FirstAt(w, sep) = n + 1
    BY <1>10, <1>12 DEF FirstAt
  <2>2. /\ Before(w, sep) = IF n + 1 = 0 THEN w ELSE SubSeq(w, 1, (n + 1) - 1)
        /\ After(w, sep) = IF n + 1 = 0 THEN <<>> ELSE SubSeq(w, (n + 1) + 1, Len(w))
    BY <2>1, PartitionAs, Zenon
  <2> QED BY <1>6, <2>2
<1>14. SubSeq(w, 1, n) = a
  <2>1. PICK v : v = SubSeq(w, 1, n)
    OBVIOUS
  <2>2. v \in Seq(Char) /\ Len(v) = n /\ \A i \in 1 .. n : v[i] = w[i]
    BY <1>6, <2>1
  <2>a. \A i \in 1 .. n : v[i] = x[i]
    BY <1>7, <1>a, <2>2
  <2>3. v = x
    BY <1>1, <1>a, <2>2, <2>a, SeqEqual
  <2> QED BY <1>a, <2>1, <2>3
<1>15. SubSeq(w, n + 2, n + 1 + m) = b
  <2>1. PICK v : v = SubSeq(w, n + 2, n + 1 + m)
    OBVIOUS
  <2>2. v \in Seq(Char) /\ Len(v) = m
    BY <1>6, <2>1
  <2>3. \A i \in 1 .. m : v[i] = w[i + n + 1]
    BY <1>6, <2>1
  <2>4. \A i \in 1 .. m : w[i + n + 1] = b[i]
    BY <1>4, <1>7
  <2>5. v = b
    BY <1>1, <2>2, <2>3, <2>4, SeqEqual
  <2> QED BY <2>1, <2>5
<1>16. Parted(w, sep, a, b)
  BY <1>13, <1>14, <1>15 DEF Parted
<1> QED BY <1>2, <1>5, <1>a, <1>16

\* The properties ps are those of row, in any order.
Spells(ps, row) ==
    /\ ps \in Seq(Seq(Safe) \ {<<>>})
    /\ row = [k \in DOMAIN row |-> row[k]]
    /\ DOMAIN row = {Before(p, "=") : p \in ToSet(ps)}
    /\ \A i \in 1 .. Len(ps) : Unescape(After(ps[i], "=")) = row[Before(ps[i], "=")]
    /\ \A i, j \in 1 .. Len(ps) : Before(ps[i], "=") = Before(ps[j], "=") => i = j

NamedIn(ps, name) == {i \in DOMAIN ps : Before(ps[i], "=") = name}

LEMMA ParseRowAs ==
    ASSUME NEW text, NEW ps, ps = NonEmpty(Split(text, " "))
    PROVE  ParseRow(text) = [name \in {Before(p, "=") : p \in ToSet(ps)} |->
                                Unescape(After(ps[Max(NamedIn(ps, name))], "="))]
BY DEF ParseRow, NamedIn

Properties(text, ps) == ps = NonEmpty(Split(text, " "))

LEMMA RowParsed ==
    ASSUME NEW text, NEW ps, NEW row, Properties(text, ps), Spells(ps, row)
    PROVE  ParseRow(text) = row
<1>1. PICK n, K, S : n = Len(ps) /\ K = DOMAIN row /\ S = Seq(Safe) \ {<<>>}
  OBVIOUS
<1>2. /\ ps \in Seq(S) /\ n \in Nat /\ DOMAIN ps = 1 .. n
      /\ row = [k \in K |-> row[k]] /\ K = {Before(p, "=") : p \in ToSet(ps)}
      /\ \A i \in 1 .. n : Unescape(After(ps[i], "=")) = row[Before(ps[i], "=")]
      /\ \A i, j \in 1 .. n : Before(ps[i], "=") = Before(ps[j], "=") => i = j
  <2>1. ps \in Seq(S)
    BY <1>1 DEF Spells
  <2>a. PICK s \in Seq(S) : s = ps
    BY <2>1
  <2>b. Len(s) \in Nat /\ DOMAIN s = 1 .. Len(s)
    BY LenProperties
  <2>2. n \in Nat /\ DOMAIN ps = 1 .. n
    BY <1>1, <2>a, <2>b
  <2> QED BY <1>1, <2>1, <2>2, Zenon DEF Spells
<1>a. n \in Nat
  BY <1>2
<1>3. ASSUME NEW name \in K
      PROVE  Unescape(After(ps[Max(NamedIn(ps, name))], "=")) = row[name]
  <2>1. PICK p \in ToSet(ps) : name = Before(p, "=")
    BY <1>2
  <2>2. PICK i \in 1 .. n : p = ps[i]
    BY <1>1, <1>2, <2>1, SetOf
  <2>3. PICK at : at = NamedIn(ps, name)
    OBVIOUS
  <2>4. at = {j \in 1 .. n : Before(ps[j], "=") = name}
    BY <1>2, <2>3 DEF NamedIn
  <2>5. i \in at /\ \A j \in at : j = i
    BY <1>2, <2>1, <2>2, <2>4
  <2>6. at \subseteq Nat /\ \A j \in at : j <= i
    <3>1. \A j \in at : j \in Nat
      BY <1>a, <2>4
    <3>2. i \in Nat
      BY <1>a
    <3>3. \A j \in at : j = i
      BY <2>5
    <3>4. \A j \in at : j <= i
      BY <3>2, <3>3
    <3> QED BY <3>1, <3>4
  <2>7. Max(at) = i
    BY <2>5, <2>6, MaxOf
  <2> QED BY <1>2, <2>1, <2>2, <2>3, <2>7
<1>4. ParseRow(text) = [name \in K |-> Unescape(After(ps[Max(NamedIn(ps, name))], "="))]
  <2>1. ParseRow(text) = [name \in {Before(p, "=") : p \in ToSet(ps)} |->
                             Unescape(After(ps[Max(NamedIn(ps, name))], "="))]
    BY ParseRowAs, Zenon DEF Properties
  <2> QED BY <1>2, <2>1, Zenon
<1> QED BY <1>2, <1>3, <1>4

LEMMA UnescapeOne ==
    ASSUME NEW c \in Char
    PROVE  Unescape(<<c>>) = <<c>>
<1>1. PICK t \in Seq(Char) : t = <<c>>
  BY OneOf
<1>2. Len(t) = 1 /\ t[1] = c
  BY <1>1
<1>3. PICK f \in Unescaping(t) : TRUE
  BY UnescapedFacts
<1>4. Unescape(t) = f[1] /\ f[Len(t) + 1] = <<>> /\ Unescapes(f, t, Len(t))
  BY <1>3, Zenon DEF Unescaping
<1>5. Unescape(t) = f[1] /\ f[2] = <<>> /\ Unescapes(f, t, 1)
  BY <1>2, <1>4
<1>6. ~IsEscapeAt(t, 1)
  BY <1>2 DEF IsEscapeAt
<1>7. f[1] = <<t[1]>> \o f[1 + 1]
  <2>1. 1 \in 1 .. 1
    OBVIOUS
  <2> QED BY <1>5, <1>6, <2>1, Zenon DEF Unescapes
<1>8. f[1] = t \o <<>>
  <2>1. f[1 + 1] = <<>>
    BY <1>5
  <2>2. <<t[1]>> = t
    BY <1>1, <1>2
  <2> QED BY <1>7, <2>1, <2>2
<1> QED BY <1>1, <1>5, <1>8, ConcatEmptySeq

\* p is the property key of a row, and its value is v.
Tagged(p, key, v) ==
    /\ p \in Seq(Safe) \ {<<>>} /\ p[1] \in Word
    /\ Before(p, "=") = key /\ Unescape(After(p, "=")) = v

LEMMA WordsSafe ==
    /\ Word \subseteq Safe /\ Word \subseteq Free("=") /\ "=" \in Safe /\ Safe \subseteq Char
    /\ Word \subseteq Char
BY WordFacts DEF Safe, Free

LEMMA TaggedValue ==
    ASSUME NEW w \in Word, NEW e \in Seq(Safe)
    PROVE  Tagged(<<w, "=">> \o e, <<w>>, Unescape(e))
<1>1. PICK p, key : p = <<w, "=">> \o e /\ key = <<w>>
  OBVIOUS
<1>2. p \in Seq(Safe) \ {<<>>} /\ p[1] = w
  BY <1>1, TwoMore, WordsSafe
<1>3. key \in Seq(Free("=")) /\ key \in Seq(Safe)
  BY <1>1, OneOf, WordsSafe
<1>4. e \in Seq(Char)
  BY SeqWider, WordsSafe
<1>5. p = key \o (<<"=">> \o e)
  <2>1. <<w>> \o <<"=">> = <<w, "=">>
    BY PairConcat, WordsSafe
  <2>2. PICK x \in Seq(Safe), y \in Seq(Safe) : x = <<w>> /\ y = <<"=">>
    BY OneOf, WordsSafe
  <2>3. (x \o y) \o e = x \o (y \o e)
    OBVIOUS
  <2> QED BY <1>1, <2>1, <2>2, <2>3
<1>6. Parted(key \o (<<"=">> \o e), "=", key, e)
  BY <1>3, <1>4, PartedAt, WordFacts
<1>7. Before(p, "=") = key /\ After(p, "=") = e
  BY <1>5, <1>6 DEF Parted
<1> QED BY <1>1, <1>2, <1>7 DEF Tagged

LEMMA TaggedNothing ==
    ASSUME NEW w \in Word
    PROVE  Tagged(<<w>>, <<w>>, <<>>)
<1>1. PICK key : key = <<w>>
  OBVIOUS
<1>2. key \in Seq(Free("=")) /\ key \in Seq(Safe) \ {<<>>} /\ key[1] = w
  BY <1>1, OneOf, WordsSafe
<1>3. Parted(key, "=", key, <<>>)
  BY <1>2, PartedNot
<1> QED BY <1>1, <1>2, <1>3, UnescapeNone DEF Parted, Tagged

\* What a server writes for a property.
PropOf(key, v) == IF v = <<>> THEN key ELSE key \o <<"=">> \o ServerEscape(v)

LEMMA PropTagged ==
    ASSUME NEW w \in Word, NEW v \in Seq(Char)
    PROVE  /\ Tagged(<<w, "=">> \o ServerEscape(v), <<w>>, v)
           /\ Tagged(PropOf(<<w>>, v), <<w>>, v)
<1>1. ServerEscape(v) \in Seq(Safe) /\ Unescape(ServerEscape(v)) = v
  BY ServerEscapeMapped, UnescapeServerEscape
<1>2. PICK e \in Seq(Safe) : e = ServerEscape(v)
  BY <1>1
<1>3. Tagged(<<w, "=">> \o e, <<w>>, Unescape(e))
  BY TaggedValue
<1>4. Tagged(<<w, "=">> \o e, <<w>>, v)
  BY <1>1, <1>2, <1>3
<1>5. <<w>> \o <<"=">> = <<w, "=">>
  BY PairConcat, WordsSafe
<1>6. v = <<>> => Tagged(PropOf(<<w>>, v), <<w>>, v)
  BY TaggedNothing DEF PropOf
<1>7. v # <<>> => Tagged(PropOf(<<w>>, v), <<w>>, v)
  BY <1>2, <1>4, <1>5 DEF PropOf
<1> QED BY <1>2, <1>4, <1>6, <1>7

LEMMA ThreeAppend ==
    ASSUME NEW S, NEW a \in S, NEW b \in S, NEW c \in S
    PROVE  Append(<<a, b>>, c) = <<a, b, c>>
<1>1. PICK q \in Seq(S) : q = <<a, b>>
  BY TwoOf
<1>2. Len(q) = 2 /\ q[1] = a /\ q[2] = b
  BY <1>1
<1>3. /\ Append(q, c) \in Seq(S) /\ Len(Append(q, c)) = 3 /\ Append(q, c)[3] = c
      /\ Append(q, c)[1] = a /\ Append(q, c)[2] = b
  <2>1. /\ Append(q, c) \in Seq(S) /\ Len(Append(q, c)) = Len(q) + 1
        /\ Append(q, c)[Len(q) + 1] = c
    OBVIOUS
  <2>2. \A i \in 1 .. Len(q) : Append(q, c)[i] = q[i]
    OBVIOUS
  <2> QED BY <1>2, <2>1, <2>2
<1>4. PICK z : z = <<a, b, c>>
  OBVIOUS
<1>5. z \in Seq(S) /\ Len(z) = 3 /\ z[1] = a /\ z[2] = b /\ z[3] = c
  BY <1>4
<1>6. \A i \in 1 .. 3 : Append(q, c)[i] = z[i]
  BY <1>3, <1>5
<1>7. Append(q, c) = z
  BY <1>3, <1>5, <1>6, SeqEqual
<1> QED BY <1>1, <1>4, <1>7

LEMMA IdTagged ==
    ASSUME NEW w \in Word, NEW c \in Word
    PROVE  Tagged(<<w, "=", c>>, <<w>>, <<c>>)
<1>1. PICK e \in Seq(Safe) : e = <<c>>
  BY OneOf, WordsSafe
<1>2. Tagged(<<w, "=">> \o e, <<w>>, Unescape(e))
  BY TaggedValue
<1>3. Unescape(e) = <<c>>
  BY <1>1, UnescapeOne, WordsSafe
<1>4. <<w, "=">> \o e = <<w, "=", c>>
  <2>1. PICK q \in Seq(Safe) : q = <<w, "=">>
    BY TwoOf, WordsSafe
  <2>2. Append(q, c) = q \o <<c>>
    BY AppendIsConcat, WordsSafe
  <2>3. Append(<<w, "=">>, c) = <<w, "=", c>>
    BY ThreeAppend, WordsSafe
  <2> QED BY <1>1, <2>1, <2>2, <2>3
<1> QED BY <1>2, <1>3, <1>4

\* row, and v at key.
Keyed(row, key, v) == [k \in DOMAIN row \cup {key} |-> IF k = key THEN v ELSE row[k]]

LEMMA TaggedMore ==
    ASSUME NEW ps, NEW row, Spells(ps, row), NEW p, NEW key, NEW v, Tagged(p, key, v),
           key \notin DOMAIN row
    PROVE  Spells(<<p>> \o ps, Keyed(row, key, v))
<1>1. PICK S, D : S = Seq(Safe) \ {<<>>} /\ D = DOMAIN row
  OBVIOUS
<1>2. ps \in Seq(S) /\ p \in S
  BY <1>1 DEF Spells, Tagged
<1>3. /\ D = {Before(x, "=") : x \in ToSet(ps)}
      /\ \A i \in 1 .. Len(ps) : Unescape(After(ps[i], "=")) = row[Before(ps[i], "=")]
      /\ \A i, j \in 1 .. Len(ps) : Before(ps[i], "=") = Before(ps[j], "=") => i = j
  BY <1>1, Zenon DEF Spells
<1>4. Before(p, "=") = key /\ Unescape(After(p, "=")) = v
  BY DEF Tagged
<1>5. PICK q \in Seq(S) : q = <<p>>
  BY <1>2, OneOf
<1>6. Len(q) = 1 /\ q[1] = p
  BY <1>5
<1>7. PICK s \in Seq(S), n \in Nat : s = ps /\ n = Len(s)
  BY <1>2, LenProperties
<1>8. PICK w, full : w = q \o s /\ full = Keyed(row, key, v)
  OBVIOUS
<1>9. w \in Seq(S) /\ Len(w) = n + 1
  <2>1. q \o s \in Seq(S) /\ Len(q \o s) = Len(q) + Len(s)
    OBVIOUS
  <2> QED BY <1>6, <1>7, <1>8, <2>1
<1>10. w[1] = p /\ \A i \in 1 .. n : w[i + 1] = ps[i]
  <2>1. \A i \in 1 .. Len(q) + Len(s) : (q \o s)[i] = IF i <= Len(q) THEN q[i] ELSE s[i - Len(q)]
    OBVIOUS
  <2>2. Len(q) + Len(s) = n + 1 /\ Len(q) = 1
    BY <1>6, <1>7
  <2>3. \A i \in 1 .. n + 1 : w[i] = IF i <= 1 THEN q[i] ELSE s[i - 1]
    BY <1>8, <2>1, <2>2
  <2> QED BY <1>6, <1>7, <2>3
<1>11. ToSet(w) = {p} \cup ToSet(ps)
  <2>1. Collected(q, s, w)
    BY <1>8, SetOfConcat, Zenon
  <2> QED BY <1>5, <1>7, <2>1, SetOfOne DEF Collected
<1>12. DOMAIN full = D \cup {key} /\ full[key] = v /\ \A k \in D : k # key => full[k] = row[k]
  BY <1>1, <1>8 DEF Keyed
<1>13. full = [k \in DOMAIN full |-> full[k]]
  BY <1>8 DEF Keyed
<1>14. DOMAIN full = {Before(x, "=") : x \in ToSet(w)}
  BY <1>3, <1>4, <1>11, <1>12
<1>15. \A i \in 1 .. n : Before(ps[i], "=") \in D
  <2>1. \A i \in 1 .. n : ps[i] \in ToSet(ps)
    BY <1>2, <1>7, SetOf
  <2> QED BY <1>3, <2>1
<1>16. \A i \in 1 .. n + 1 : i = 1 \/ (i - 1 \in 1 .. n /\ w[i] = ps[i - 1])
  <2> SUFFICES ASSUME NEW i \in 1 .. n + 1, i # 1 PROVE i - 1 \in 1 .. n /\ w[i] = ps[i - 1]
    OBVIOUS
  <2>1. i - 1 \in 1 .. n /\ (i - 1) + 1 = i
    OBVIOUS
  <2>2. w[(i - 1) + 1] = ps[i - 1]
    BY <1>10, <2>1
  <2> QED BY <2>1, <2>2
<1>17. ASSUME NEW i \in 1 .. n + 1 PROVE Unescape(After(w[i], "=")) = full[Before(w[i], "=")]
  <2>1. CASE i = 1
    BY <1>4, <1>10, <1>12, <2>1
  <2>2. CASE i # 1
    <3>1. i - 1 \in 1 .. n /\ w[i] = ps[i - 1]
      BY <1>16, <2>2
    <3>2. PICK x, b : x = ps[i - 1] /\ b = Before(x, "=")
      OBVIOUS
    <3>3. Unescape(After(x, "=")) = row[b] /\ b \in D
      BY <1>3, <1>7, <1>15, <3>1, <3>2
    <3>4. b # key
      BY <1>1, <3>3
    <3> QED BY <1>12, <3>1, <3>2, <3>3, <3>4
  <2> QED BY <2>1, <2>2
<1>18. ASSUME NEW i \in 1 .. n + 1, NEW j \in 1 .. n + 1, Before(w[i], "=") = Before(w[j], "=")
       PROVE  i = j
  <2>1. i # 1 => Before(w[i], "=") # key
    BY <1>1, <1>15, <1>16
  <2>2. j # 1 => Before(w[j], "=") # key
    BY <1>1, <1>15, <1>16
  <2>3. i = 1 => Before(w[i], "=") = key
    BY <1>4, <1>10
  <2>4. j = 1 => Before(w[j], "=") = key
    BY <1>4, <1>10
  <2>5. CASE i # 1 /\ j # 1
    <3>1. i - 1 \in 1 .. n /\ w[i] = ps[i - 1] /\ j - 1 \in 1 .. n /\ w[j] = ps[j - 1]
      BY <1>16, <2>5
    <3>2. i - 1 = j - 1
      BY <1>3, <1>7, <1>18, <3>1
    <3> QED BY <3>2
  <2> QED BY <1>18, <2>1, <2>2, <2>3, <2>4, <2>5
<1>19. Spells(w, full)
  <2>1. w \in Seq(Seq(Safe) \ {<<>>})
    BY <1>1, <1>9
  <2>2. \A i \in 1 .. Len(w) : Unescape(After(w[i], "=")) = full[Before(w[i], "=")]
    BY <1>9, <1>17
  <2>3. \A i, j \in 1 .. Len(w) : Before(w[i], "=") = Before(w[j], "=") => i = j
    BY <1>9, <1>18
  <2> QED BY <1>13, <1>14, <2>1, <2>2, <2>3, Zenon DEF Spells
<1> QED BY <1>5, <1>7, <1>8, <1>19

\* The properties a server writes for a row.
RowProps(row) ==
    [i \in DOMAIN SetToSeq(DOMAIN row) |->
        PropOf(SetToSeq(DOMAIN row)[i], row[SetToSeq(DOMAIN row)[i]])]

Headed(ps) == ps # <<>> => ps[1][1] \in Word

LEMMA RowTextAs == \A row : RowText(row) = Join(RowProps(row), " ")
BY Zenon DEF RowText, RowProps, PropOf

LEMMA RowPropsSpell ==
    ASSUME NEW row, IsRow(row)
    PROVE  /\ Spells(RowProps(row), row) /\ Headed(RowProps(row))
           /\ RowProps(row) = <<>> <=> DOMAIN row = {}
<1>1. PICK D, keys, S : D = DOMAIN row /\ keys = SetToSeq(D) /\ S = Seq(Safe) \ {<<>>}
  OBVIOUS
<1>2. Lists(keys, D)
  BY <1>1, SetToSeqLists DEF IsRow
<1>3. PICK k \in Seq(D), n \in Nat : k = keys /\ n = Len(k)
  BY <1>2, LenProperties DEF Lists
<1>4. DOMAIN k = 1 .. n /\ (\A i \in 1 .. n : k[i] \in D) /\ \A i, j \in 1 .. n : k[i] = k[j] => i = j
  BY <1>2, <1>3 DEF Lists
<1>5. \A key \in D : \E i \in 1 .. n : k[i] = key
  BY <1>2, <1>3, SetOf DEF Lists
<1>6. ASSUME NEW i \in 1 .. n PROVE Tagged(PropOf(k[i], row[k[i]]), k[i], row[k[i]])
  <2>1. PICK key : key = k[i]
    OBVIOUS
  <2>2. key \in D
    BY <1>4, <2>1
  <2>3. PICK w \in Word : key = <<w>>
    BY <1>1, <2>2 DEF IsRow
  <2>4. PICK v \in Seq(Char) : v = row[key]
    BY <1>1, <2>2 DEF IsRow
  <2>5. Tagged(PropOf(<<w>>, v), <<w>>, v)
    BY PropTagged
  <2> QED BY <2>1, <2>3, <2>4, <2>5
<1>7. PICK ps : ps = [i \in 1 .. n |-> PropOf(k[i], row[k[i]])]
  OBVIOUS
<1>8. RowProps(row) = ps
  BY <1>1, <1>3, <1>4, <1>7, Zenon DEF RowProps
<1>9. \A i \in 1 .. n : ps[i] = PropOf(k[i], row[k[i]])
  BY <1>7
<1>10. \A i \in 1 .. n : ps[i] \in S /\ ps[i][1] \in Word /\ Before(ps[i], "=") = k[i]
                        /\ Unescape(After(ps[i], "=")) = row[k[i]]
  BY <1>1, <1>6, <1>9, Zenon DEF Tagged
<1>11. ps \in Seq(S) /\ Len(ps) = n
  <2>1. ps \in [1 .. n -> S]
    BY <1>7, <1>9, <1>10, Zenon
  <2> QED BY <2>1
<1>12. D = {Before(p, "=") : p \in ToSet(ps)}
  <2>1. \A p \in ToSet(ps) : \E i \in 1 .. n : p = ps[i]
    BY <1>11, SetOf
  <2>2. \A i \in 1 .. n : ps[i] \in ToSet(ps)
    BY <1>11, SetOf
  <2>3. ASSUME NEW p \in ToSet(ps) PROVE Before(p, "=") \in D
    <3>1. PICK i \in 1 .. n : p = ps[i]
      BY <2>1
    <3>2. Before(p, "=") = k[i] /\ k[i] \in D
      BY <1>4, <1>10, <3>1
    <3> QED BY <3>2
  <2>4. ASSUME NEW key \in D PROVE \E p \in ToSet(ps) : Before(p, "=") = key
    <3>1. PICK i \in 1 .. n : k[i] = key
      BY <1>5
    <3>2. Before(ps[i], "=") = k[i] /\ ps[i] \in ToSet(ps)
      BY <1>10, <2>2
    <3> QED BY <3>1, <3>2
  <2> QED BY <2>3, <2>4
<1>13. row = [key \in D |-> row[key]]
  BY <1>1 DEF IsRow
<1>14. \A i \in 1 .. n : Unescape(After(ps[i], "=")) = row[Before(ps[i], "=")]
  BY <1>10, Zenon
<1>15. \A i, j \in 1 .. n : Before(ps[i], "=") = Before(ps[j], "=") => i = j
  BY <1>4, <1>10, Zenon
<1>16. Spells(ps, row)
  BY <1>1, <1>11, <1>12, <1>13, <1>14, <1>15, Zenon DEF Spells
<1>17. Headed(ps)
  <2>1. ps # <<>> => 1 \in 1 .. n
    BY <1>11
  <2>2. 1 \in 1 .. n => ps[1][1] \in Word
    BY <1>10
  <2> QED BY <2>1, <2>2 DEF Headed
<1>18. ps = <<>> <=> D = {}
  <2>1. CASE n = 0
    <3>1. ps = <<>>
      BY <1>11, <2>1
    <3>2. D = {}
      BY <1>5, <2>1
    <3> QED BY <3>1, <3>2
  <2>2. CASE n # 0
    <3>1. ps # <<>>
      BY <1>11, <2>2
    <3>2. 1 \in 1 .. n
      BY <2>2
    <3> QED BY <1>4, <3>1, <3>2
  <2> QED BY <2>1, <2>2
<1> QED BY <1>1, <1>8, <1>16, <1>17, <1>18

LEMMA JoinFirst ==
    ASSUME NEW S, S \subseteq Char, NEW sep \in S, NEW ps \in Seq(Seq(S) \ {<<>>}), ps # <<>>
    PROVE  Join(ps, sep) \in Seq(S) /\ Join(ps, sep) # <<>> /\ Join(ps, sep)[1] = ps[1][1]
<1>1. PICK R, U : R = Seq(S) \ {<<>>} /\ U = Seq(S)
  OBVIOUS
<1>2. PICK b \in R, Q \in Seq(R) : ps = <<b>> \o Q
  BY <1>1, FirstRest
<1>3. PICK a \in Seq(R) : a = <<b>>
  BY OneOf
<1>4. Len(a) = 1 /\ a[1] = b /\ a # <<>>
  BY <1>3
<1>5. ps[1] = b
  BY <1>2, <1>3, <1>4
<1>6. b \in Seq(S) /\ b # <<>>
  BY <1>1
<1>7. R \subseteq U
  BY <1>1
<1>8. a \in Seq(U) /\ Q \in Seq(U)
  BY <1>7, SeqWider
<1>9. Join(a, sep) = b
  BY <1>3, <1>6, JoinOne
<1>10. CASE Q = <<>>
  <2>1. ps = a
    BY <1>2, <1>3, <1>10
  <2> QED BY <1>5, <1>6, <1>9, <2>1
<1>11. CASE Q # <<>>
  <2>1. PICK q \in Seq(S) : q = Join(Q, sep)
    BY <1>1, <1>8, JoinType
  <2>2. Join(a \o Q, sep) = Join(a, sep) \o (<<sep>> \o Join(Q, sep))
    BY <1>1, <1>4, <1>8, <1>11, JoinConcat
  <2>3. Join(ps, sep) = b \o (<<sep>> \o q)
    BY <1>2, <1>3, <1>9, <2>1, <2>2
  <2>4. PICK e \in Seq(S) : e = <<sep>> \o q
    BY OneMore
  <2>5. b \o e \in Seq(S)
    BY <1>6
  <2>6. b \in Seq(Char) /\ q \in Seq(Char) /\ sep \in Char
    BY <1>6, SeqWider
  <2>7. (b \o (<<sep>> \o q))[1] = b[1] /\ b \o (<<sep>> \o q) # <<>>
    BY <1>6, <2>6, FirstOf
  <2> QED BY <1>5, <2>3, <2>4, <2>5, <2>7
<1> QED BY <1>10, <1>11

-----------------------------------------------------------------------------
(* What is parsed from lines *)

\* What a line is made of, and a row in it.
Inline == Char \ {"\n", "\r"}
RowChar == Char \ {"|", "\n", "\r"}

LEMMA LineChars ==
    /\ Safe \subseteq RowChar /\ RowChar \subseteq Inline /\ Inline \subseteq Char
    /\ " " \in RowChar /\ "|" \in Inline /\ RowChar \subseteq Free("|") /\ Safe \subseteq Free(" ")
    /\ Word \subseteq Safe /\ Word \subseteq RowChar /\ " " \in Inline
BY WordFacts, WordsSafe DEF Safe, RowChar, Inline, Free, Word

\* The text of a row, with the properties ps.
Holds(x, ps) == x \in Seq(RowChar) /\ x # <<>> /\ x[1] \in Word /\ Properties(x, ps)

LEMMA PropsText ==
    ASSUME NEW ps \in Seq(Seq(Safe) \ {<<>>}), ps # <<>>, Headed(ps)
    PROVE  Holds(Join(ps, " "), ps)
<1>1. PICK R, P, F, n : R = Seq(Safe) \ {<<>>} /\ P = Seq(RowChar) \ {<<>>} /\ F = Seq(Free(" ")) /\ n = Len(ps)
  OBVIOUS
<1>2. R \subseteq P /\ R \subseteq F /\ F \subseteq Seq(Char)
  BY <1>1, LineChars, SeqWider, FreeChars
<1>3. ps \in Seq(R) /\ ps \in Seq(P) /\ ps \in Seq(F)
  <2>1. ps \in Seq(R)
    BY <1>1
  <2> QED BY <1>2, <2>1, SeqWider
<1>4. PICK x : x = Join(ps, " ")
  OBVIOUS
<1>5. x \in Seq(RowChar) /\ x # <<>> /\ x[1] = ps[1][1]
  BY <1>1, <1>3, <1>4, LineChars, JoinFirst
<1>6. Split(x, " ") = ps
  BY <1>1, <1>3, <1>4, SplitJoin, WordFacts
<1>7. NonEmpty(ps) = ps
  <2>1. \A i \in 1 .. Len(ps) : ps[i] \in R
    BY <1>3
  <2>2. \A i \in 1 .. Len(ps) : ps[i] \notin {<<>>}
    BY <1>1, <2>1
  <2>3. Without(ps, {<<>>}) = ps
    BY <1>3, <2>2, WithoutOutside
  <2> QED BY <2>3 DEF NonEmpty
<1>8. ps[1][1] \in Word
  BY DEF Headed
<1>9. Properties(x, ps)
  BY <1>6, <1>7 DEF Properties
<1> QED BY <1>4, <1>5, <1>8, <1>9 DEF Holds

\* The text of a row, and the row it is parsed to.
Rowed(x, row) == x \in Seq(RowChar) /\ x # <<>> /\ x[1] \in Word /\ ParseRow(x) = row

LEMMA RowTextRead ==
    ASSUME NEW row, IsRow(row), DOMAIN row # {}
    PROVE  Rowed(RowText(row), row)
<1>1. PICK ps \in Seq(Seq(Safe) \ {<<>>}) : ps = RowProps(row)
  BY RowPropsSpell DEF Spells
<1>2. Spells(ps, row) /\ Headed(ps) /\ ps # <<>>
  BY <1>1, RowPropsSpell
<1>3. PICK x : x = Join(ps, " ")
  OBVIOUS
<1>4. Holds(x, ps)
  BY <1>2, <1>3, PropsText
<1>5. ParseRow(x) = row
  BY <1>2, <1>4, RowParsed DEF Holds
<1> QED BY <1>1, <1>3, <1>4, <1>5, RowTextAs DEF Holds, Rowed

\* A line of rows, and the rows it is parsed to.
Listing(line, rows) ==
    line \in Seq(Inline) /\ line # <<>> /\ line[1] \in Word /\ ParseDataLine(line) = rows

RowTexts(rows) == [i \in DOMAIN rows |-> RowText(rows[i])]

LEMMA DataLineAs == \A rows : DataLine(rows) = Join(RowTexts(rows), "|")
BY Zenon DEF DataLine, RowTexts

LEMMA ParseDataLineAs ==
    ASSUME NEW line, NEW ps, Pieced(line, "|", ps)
    PROVE  ParseDataLine(line) = NonEmpty([i \in DOMAIN ps |-> ParseRow(ps[i])])
BY Zenon DEF ParseDataLine, Pieced

LEMMA DataLineRead ==
    ASSUME NEW rows, AreRows(rows), rows # <<>>
    PROVE  Listing(DataLine(rows), rows)
<1>1. PICK A : A = ToSet(rows)
  OBVIOUS
<1>2. PICK rs \in Seq(A), n \in Nat : rs = rows /\ n = Len(rs)
  BY <1>1, LenProperties DEF AreRows
<1>3. DOMAIN rs = 1 .. n /\ \A i \in 1 .. n : rs[i] \in A
  BY <1>2
<1>4. n # 0
  BY <1>2
<1>5. \A i \in 1 .. n : IsRow(rs[i]) /\ DOMAIN rs[i] # {}
  BY <1>1, <1>3 DEF AreRows
<1>6. \A i \in 1 .. n : Rowed(RowText(rs[i]), rs[i])
  BY <1>5, RowTextRead
<1>7. PICK ts : ts = RowTexts(rows)
  OBVIOUS
<1>8. ts = [i \in 1 .. n |-> RowText(rs[i])]
  BY <1>2, <1>3, <1>7, Zenon DEF RowTexts
<1>9. PICK P, Q : P = Seq(RowChar) \ {<<>>} /\ Q = Seq(Inline) \ {<<>>}
  OBVIOUS
<1>10. \A i \in 1 .. n : RowText(rs[i]) \in P
  BY <1>6, <1>9 DEF Rowed
<1>11. ts \in Seq(P) /\ Len(ts) = n /\ DOMAIN ts = 1 .. n /\ \A i \in 1 .. n : ts[i] = RowText(rs[i])
  BY <1>8, <1>10
<1>12. ts # <<>>
  BY <1>4, <1>11
<1>13. PICK F : F = Seq(Free("|"))
  OBVIOUS
<1>14. ts \in Seq(Q) /\ ts \in Seq(F)
  <2>1. P \subseteq Q /\ P \subseteq F
    BY <1>9, <1>13, LineChars, SeqWider
  <2> QED BY <1>11, <2>1, SeqWider
<1>15. PICK line : line = Join(ts, "|")
  OBVIOUS
<1>16. line \in Seq(Inline) /\ line # <<>> /\ line[1] = ts[1][1]
  BY <1>9, <1>12, <1>14, <1>15, LineChars, JoinFirst
<1>17. line[1] \in Word
  <2>1. 1 \in 1 .. n
    BY <1>4
  <2> QED BY <1>6, <1>11, <1>16, <2>1 DEF Rowed
<1>18. Pieced(line, "|", ts)
  BY <1>12, <1>13, <1>14, <1>15, SplitJoin, WordFacts DEF Pieced
<1>19. ParseDataLine(line) = NonEmpty([i \in DOMAIN ts |-> ParseRow(ts[i])])
  BY <1>18, ParseDataLineAs
<1>20. \A i \in 1 .. n : ParseRow(ts[i]) = rs[i]
  BY <1>6, <1>11 DEF Rowed
<1>21. [i \in DOMAIN ts |-> ParseRow(ts[i])] = [i \in 1 .. n |-> rs[i]]
  BY <1>11, <1>20, Zenon
<1>22. [i \in 1 .. n |-> rs[i]] = rs
  BY <1>2
<1>23. NonEmpty(rs) = rs
  <2>1. \A i \in 1 .. n : rs[i] # <<>>
    <3> SUFFICES ASSUME NEW i \in 1 .. n, rs[i] = <<>> PROVE FALSE
      OBVIOUS
    <3>1. DOMAIN <<>> = {}
      OBVIOUS
    <3> QED BY <1>5, <3>1
  <2>2. \A i \in 1 .. Len(rs) : rs[i] \notin {<<>>}
    BY <1>2, <2>1
  <2>3. Without(rs, {<<>>}) = rs
    BY <2>2, WithoutOutside
  <2> QED BY <2>3 DEF NonEmpty
<1>24. ParseDataLine(line) = rows
  BY <1>2, <1>19, <1>21, <1>22, <1>23
<1> QED BY <1>7, <1>15, <1>16, <1>17, <1>24, DataLineAs DEF Listing

\* A sequence in which these do not occur.
Lacks(s, B) == s \in Seq(ToSet(s) \ B)

LEMMA LacksOf ==
    ASSUME NEW S, NEW B, NEW s \in Seq(S \ B)
    PROVE  Lacks(s, B)
<1>1. PICK D : D = S \ B
  OBVIOUS
<1>2. s \in Seq(D)
  BY <1>1
<1>3. PICK n \in Nat : n = Len(s)
  OBVIOUS
<1>4. \A i \in 1 .. n : s[i] \in ToSet(s) /\ s[i] \in D
  BY <1>2, <1>3, SetOf
<1>5. PICK E : E = ToSet(s) \ B
  OBVIOUS
<1>6. \A i \in 1 .. n : s[i] \in E
  BY <1>1, <1>4, <1>5
<1>7. s \in Seq(E)
  BY <1>2, <1>3, <1>6
<1> QED BY <1>5, <1>7 DEF Lacks

LEMMA InlineLacks ==
    ASSUME NEW line \in Seq(Inline), line # <<>>
    PROVE  line \in Seq(ToSet(line) \ {"\n", "\r"}) \ {<<>>}
<1>1. Lacks(line, {"\n", "\r"})
  BY LacksOf DEF Inline
<1> QED BY <1>1 DEF Lacks

LEMMA DataReadable ==
    ASSUME NEW rows, AreRows(rows), rows # <<>>
    PROVE  Readable(DataMessage(rows))
<1>1. PICK m, line : m = DataMessage(rows) /\ line = DataLine(rows)
  OBVIOUS
<1>2. Listing(line, rows)
  BY <1>1, DataLineRead
<1>3. m.kind = "data" /\ m.rows = rows
  BY <1>1 DEF DataMessage
<1>4. LineOf(m) = line
  BY <1>1, <1>3 DEF LineOf
<1>5. line \in Seq(ToSet(line) \ {"\n", "\r"}) \ {<<>>}
  BY <1>2, InlineLacks DEF Listing
<1>6. ~IsEventLine(line) /\ ~IsErrorLine(line)
  BY <1>2 DEF Listing, IsEventLine, IsErrorLine, Word
<1>7. DataMessage(ParseDataLine(line)) = m
  BY <1>1, <1>2 DEF Listing
<1> QED BY <1>1, <1>3, <1>4, <1>5, <1>6, <1>7 DEF Readable

LEMMA NoText == \A S : <<>> \in Seq(S)
OBVIOUS

LEMMA NameChars ==
    /\ "notify" \in Char /\ "error" \in Char
    /\ "notify" \in Inline /\ "error" \in Inline
    /\ "notify" \in Free(" ") /\ "error" \in Free(" ")
    /\ "id" \in Word /\ "msg" \in Word /\ "0" \in Word /\ "ok" \in Word
<1>1. "notify" \in Char /\ "error" \in Char /\ "id" \in Char /\ "msg" \in Char /\ "0" \in Char /\ "ok" \in Char
  BY WireAssumption
<1> QED BY <1>1 DEF Inline, Free, Word

LEMMA RowOfNothing == RowText(<<>>) = <<>> /\ ParseRow(<<>>) = <<>> /\ RowProps(<<>>) = <<>>
<1>1. PICK row : row = <<>>
  OBVIOUS
<1>2. DOMAIN row = {} /\ row \in [{} -> Seq(Char)]
  BY <1>1
<1>3. IsRow(row)
  BY <1>2, FS_EmptySet DEF IsRow
<1>4. Spells(RowProps(row), row) /\ RowProps(row) = <<>>
  BY <1>2, <1>3, RowPropsSpell
<1>5. RowText(row) = <<>>
  BY <1>4, RowTextAs, JoinNone
<1>6. Properties(<<>>, <<>>)
  <2>1. PICK t \in Seq(Char), s \in Seq(Seq(Char)) : t = <<>> /\ s = <<>>
    BY NoText
  <2>a. Append(s, t) = << <<>> >>
    BY <2>1
  <2>2. Split(<<>>, " ") = Append(s, t)
    BY <2>a, SplitNone
  <2>3. Without(Append(s, t), {<<>>}) = Without(s, {<<>>})
    BY <2>1, WithoutAppend
  <2>4. NonEmpty(Split(<<>>, " ")) = <<>>
    BY <2>1, <2>2, <2>3, WithoutNone DEF NonEmpty
  <2> QED BY <2>4 DEF Properties
<1>7. ParseRow(<<>>) = row
  BY <1>4, <1>6, RowParsed
<1> QED BY <1>1, <1>4, <1>5, <1>7

LEMMA ListOfNothing == DataLine(<< <<>> >>) = <<>> /\ ParseDataLine(<<>>) = <<>>
<1>1. PICK rows : rows = << <<>> >>
  OBVIOUS
<1>2. DOMAIN rows = {1} /\ rows[1] = <<>> /\ DOMAIN rows = 1 .. 1
  BY <1>1
<1>3. RowTexts(rows) = rows
  <2>1. RowTexts(rows) = [i \in {1} |-> RowText(rows[i])]
    BY <1>2, Zenon DEF RowTexts
  <2>2. \A i \in {1} : RowText(rows[i]) = <<>>
    BY <1>2, RowOfNothing
  <2>3. [i \in {1} |-> RowText(rows[i])] = [i \in {1} |-> <<>>]
    BY <2>2, Zenon
  <2>4. rows = [i \in {1} |-> <<>>]
    BY <1>1
  <2> QED BY <2>1, <2>3, <2>4
<1>4. DataLine(rows) = <<>>
  <2>1. PICK t \in Seq(Char) : t = <<>>
    BY NoText
  <2>2. Join(<<t>>, "|") = t
    BY JoinOne, WordFacts
  <2> QED BY <1>1, <1>3, <2>1, <2>2, DataLineAs
<1>5. Pieced(<<>>, "|", rows)
  BY <1>1, SplitNone DEF Pieced
<1>6. ParseDataLine(<<>>) = NonEmpty([i \in DOMAIN rows |-> ParseRow(rows[i])])
  BY <1>5, ParseDataLineAs
<1>7. [i \in DOMAIN rows |-> ParseRow(rows[i])] = rows
  <2>1. \A i \in {1} : ParseRow(rows[i]) = <<>>
    BY <1>2, RowOfNothing
  <2>2. [i \in {1} |-> ParseRow(rows[i])] = [i \in {1} |-> <<>>]
    BY <2>1, Zenon
  <2>3. rows = [i \in {1} |-> <<>>]
    BY <1>1
  <2> QED BY <1>2, <2>2, <2>3
<1>8. NonEmpty(rows) = <<>>
  <2>1. PICK t \in Seq(Char), s \in Seq(Seq(Char)) : t = <<>> /\ s = <<>>
    BY NoText
  <2>2. rows = Append(s, t)
    BY <1>1, <2>1
  <2>3. Without(Append(s, t), {<<>>}) = Without(s, {<<>>})
    BY <2>1, WithoutAppend
  <2> QED BY <2>1, <2>2, <2>3, WithoutNone DEF NonEmpty
<1> QED BY <1>1, <1>4, <1>6, <1>7, <1>8

\* A notification, and the name and the rows in it.
Notifies(line, name, rows) ==
    /\ line \in Seq(Inline) /\ line # <<>> /\ line[1] = "notify"
    /\ Before(line, " ") = <<"notify", name>> /\ ParseDataLine(After(line, " ")) = rows

LEMMA EventLineRead ==
    ASSUME NEW name \in Word, NEW rows, AreRows(rows),
           NEW data, data = DataLine(IF rows = <<>> THEN << <<>> >> ELSE rows)
    PROVE  Notifies(Join(NonEmpty(<< <<"notify", name>>, data>>), " "), name, rows)
<1>1. "notify" \in Inline /\ "notify" \in Free(" ") /\ name \in Inline /\ name \in Free(" ") /\ Inline \subseteq Char
  BY WordFacts, LineChars, NameChars DEF Inline, Free
<1>2. PICK head \in Seq(Inline) : head = <<"notify", name>>
  BY <1>1, TwoOf
<1>3. head \in Seq(Free(" ")) /\ head \in Seq(Char)
  BY <1>1, <1>2, TwoOf
<1>4. head # <<>> /\ head[1] = "notify"
  BY <1>2
<1>5. PICK line : line = Join(NonEmpty(<<head, data>>), " ")
  OBVIOUS
<1>6. CASE rows = <<>>
  <2>1. data = <<>>
    BY <1>6, ListOfNothing
  <2>2. PICK t \in Seq(Char) : t = <<>>
    BY NoText
  <2>3. NonEmpty(<<head, t>>) = <<head>>
    BY <1>3, <1>4, <2>2, KeptOfTwo
  <2>4. line = head
    BY <1>3, <1>5, <2>1, <2>2, <2>3, JoinOne, WordFacts
  <2>5. Parted(head, " ", head, <<>>)
    BY <1>3, PartedNot
  <2> QED BY <1>2, <1>4, <1>5, <1>6, <2>4, <2>5, ListOfNothing DEF Parted, Notifies
<1>7. CASE rows # <<>>
  <2>1. Listing(data, rows)
    BY <1>7, DataLineRead
  <2>2. PICK d \in Seq(Inline) : d = data
    BY <2>1 DEF Listing
  <2>3. d \in Seq(Char) /\ d # <<>> /\ ParseDataLine(d) = rows
    BY <1>1, <2>1, <2>2, SeqWider DEF Listing
  <2>4. NonEmpty(<<head, d>>) = <<head, d>>
    BY <1>3, <1>4, <2>3, KeptOfTwo
  <2>a. Join(<<head, d>>, " ") = head \o (<<" ">> \o d)
    BY <1>3, <2>3, JoinTwo, WordFacts
  <2>5. line = head \o (<<" ">> \o d)
    BY <1>5, <2>2, <2>4, <2>a
  <2>6. Parted(head \o (<<" ">> \o d), " ", head, d)
    BY <1>3, <2>3, PartedAt, WordFacts
  <2>7. line \in Seq(Inline)
    <3>1. PICK e \in Seq(Inline) : e = <<" ">> \o d
      BY OneMore, LineChars
    <3>2. head \o e \in Seq(Inline)
      OBVIOUS
    <3> QED BY <2>5, <3>1, <3>2
  <2>8. line[1] = "notify" /\ line # <<>>
    BY <1>3, <1>4, <2>3, <2>5, FirstOf, WordFacts
  <2> QED BY <1>2, <1>5, <2>3, <2>5, <2>6, <2>7, <2>8 DEF Parted, Notifies
<1> QED BY <1>2, <1>5, <1>6, <1>7

LEMMA EventReadable ==
    ASSUME NEW event \in Event
    PROVE  Readable(EventMessage(event))
<1>1. event.name \in Word /\ AreRows(event.rows)
  BY MessageAssumption
<1>a. PICK name \in Word : name = event.name
  BY <1>1
<1>b. PICK rows, told : rows = event.rows /\ told = IF rows = <<>> THEN << <<>> >> ELSE rows
  OBVIOUS
<1>2. name = event.name /\ rows = event.rows /\ told = IF rows = <<>> THEN << <<>> >> ELSE rows
  BY <1>a, <1>b
<1>3. PICK m : m = EventMessage(event)
  OBVIOUS
<1>4. m = [kind |-> "event", name |-> <<name>>, rows |-> told]
  BY <1>2, <1>3 DEF EventMessage
<1>5. m.kind = "event" /\ m.name = <<name>> /\ m.rows = told
  BY <1>4
<1>6. "notify" \in Char /\ name \in Char
  BY WordFacts, NameChars
<1>7. <<"notify">> \o <<name>> = <<"notify", name>>
  BY <1>6, PairConcat
<1>8. PICK line : line = LineOf(m)
  OBVIOUS
<1>9. line = Join(NonEmpty(<< <<"notify", name>>, DataLine(told)>>), " ")
  BY <1>5, <1>7, <1>8, Zenon DEF LineOf
<1>10. Notifies(line, name, rows)
  BY <1>1, <1>2, <1>9, EventLineRead
<1>11. line \in Seq(ToSet(line) \ {"\n", "\r"}) \ {<<>>}
  BY <1>10, InlineLacks DEF Notifies
<1>12. IsEventLine(line)
  BY <1>10 DEF Notifies, IsEventLine
<1>13. Tail(<<"notify", name>>) = <<name>>
  OBVIOUS
<1>14. EventFromLine(line) = m
  BY <1>2, <1>4, <1>10, <1>13 DEF Notifies, EventFromLine
<1> QED BY <1>3, <1>5, <1>8, <1>11, <1>12, <1>14 DEF Readable

LEMMA ThreeOf ==
    ASSUME NEW S, NEW a \in S, NEW b \in S, NEW c \in S, NEW d \in S
    PROVE  /\ <<a, b, c>> \in Seq(S) /\ Len(<<a, b, c>>) = 3 /\ <<a, b, c>> # <<>>
           /\ Append(<<a, b, c>>, d) = <<a, b, c, d>>
<1>1. PICK q : q = <<a, b, c>>
  OBVIOUS
<1>2. q \in Seq(S) /\ Len(q) = 3 /\ q[1] = a /\ q[2] = b /\ q[3] = c
  BY <1>1
<1>3. q # <<>>
  <2>1. PICK n \in Nat : n = Len(q) /\ n # 0
    BY <1>2
  <2> QED BY <2>1, EmptySeq
<1>4. PICK z : z = <<a, b, c, d>>
  OBVIOUS
<1>5. z \in Seq(S) /\ Len(z) = 4 /\ z[1] = a /\ z[2] = b /\ z[3] = c /\ z[4] = d
  BY <1>4
<1>6. PICK r : r = Append(q, d)
  OBVIOUS
<1>7. r \in Seq(S) /\ Len(r) = 4 /\ r[4] = d /\ \A i \in 1 .. 3 : r[i] = q[i]
  <2>1. PICK p \in Seq(S) : p = q
    BY <1>2
  <2>2. /\ Append(p, d) \in Seq(S) /\ Len(Append(p, d)) = Len(p) + 1 /\ Append(p, d)[Len(p) + 1] = d
        /\ \A i \in 1 .. Len(p) : Append(p, d)[i] = p[i]
    OBVIOUS
  <2> QED BY <1>2, <1>6, <2>1, <2>2
<1>8. \A i \in 1 .. 4 : r[i] = z[i]
  BY <1>2, <1>5, <1>7
<1>9. r = z
  BY <1>5, <1>7, <1>8, SeqEqual
<1> QED BY <1>1, <1>2, <1>3, <1>4, <1>6, <1>9

Regroups(q, a, s) == q \o s = <<a[1]>> \o (<<a[2]>> \o (<<a[3]>> \o s))

LEMMA ThreeBefore ==
    ASSUME NEW S, NEW a \in S, NEW b \in S, NEW c \in S, NEW s \in Seq(S)
    PROVE  Regroups(<<a, b, c>>, <<a, b, c>>, s)
<1>1. PICK x \in Seq(S), y \in Seq(S), z \in Seq(S) : x = <<a>> /\ y = <<b>> /\ z = <<c>>
  BY OneOf
<1>2. PICK p \in Seq(S) : p = <<a, b>>
  BY TwoOf
<1>3. x \o y = p
  BY <1>1, <1>2, PairConcat
<1>4. p \o z = <<a, b, c>>
  <2>1. Append(p, c) = p \o <<c>>
    BY AppendIsConcat
  <2>2. Append(<<a, b>>, c) = <<a, b, c>>
    BY ThreeAppend
  <2> QED BY <1>1, <1>2, <2>1, <2>2
<1>a. z \o s \in Seq(S) /\ (p \o z) \o s = p \o (z \o s)
  OBVIOUS
<1>5. PICK w \in Seq(S) : w = z \o s
  BY <1>a
<1>6. (p \o z) \o s = p \o w
  BY <1>5, <1>a
<1>7. (x \o y) \o w = x \o (y \o w)
  OBVIOUS
<1>8. PICK q : q = <<a, b, c>>
  OBVIOUS
<1>9. q \o s = x \o (y \o (z \o s))
  BY <1>3, <1>4, <1>5, <1>6, <1>7, <1>8
<1>10. q[1] = a /\ q[2] = b /\ q[3] = c
  BY <1>8
<1> QED BY <1>1, <1>8, <1>9, <1>10 DEF Regroups

\* The line of an outcome: a word, and the properties ps.
Errs(line, ps) ==
    /\ line \in Seq(Inline) /\ line # <<>> /\ line[1] = "error" /\ line[2] = " "
    /\ Properties(Tail(line), ps)

\* A separator in front adds no property.
LEMMA SpaceBefore ==
    ASSUME NEW y \in Seq(Char), NEW ps, Properties(y, ps)
    PROVE  Properties(<<" ">> \o y, ps)
<1>0. PICK R : R = Seq(Char)
  OBVIOUS
<1>a. PICK t \in Seq(Char) : t = <<>>
  BY NoText
<1>1. t = <<>> /\ R = Seq(Char) /\ t \in R
  BY <1>0, <1>a
<1>2. PICK A, B \in Seq(R) : A = Split(t, " ") /\ B = Split(y, " ")
  BY <1>1, PiecesTyped, WordFacts
<1>3. Pieced(t \o (<<" ">> \o y), " ", A \o B)
  BY <1>2, SplitBoth, WordFacts
<1>4. t \o (<<" ">> \o y) = <<" ">> \o y
  <2>1. PICK e \in Seq(Char) : e = <<" ">> \o y
    BY OneMore, WordFacts
  <2>2. t \o e = e
    BY <1>1
  <2> QED BY <2>1, <2>2
<1>5. Kept(A \o B, {<<>>}, Without(A, {<<>>}) \o Without(B, {<<>>}))
  BY <1>2, WithoutConcat
<1>6. Without(A, {<<>>}) = <<>>
  <2>1. PICK s \in Seq(R) : s = <<>>
    BY NoText
  <2>2. t \in R
    BY <1>1
  <2>3. A = Append(s, t)
    <3>1. Append(s, t) = << <<>> >>
      BY <1>1, <2>1
    <3> QED BY <1>1, <1>2, <3>1, SplitNone
  <2>4. Without(Append(s, t), {<<>>}) = Without(s, {<<>>})
    BY <1>1, <2>2, WithoutAppend
  <2> QED BY <2>1, <2>3, <2>4, WithoutNone
<1>7. PICK v \in Seq(R \ {<<>>}) : v = Without(B, {<<>>})
  BY <1>2, WithoutType
<1>8. <<>> \o v = v
  OBVIOUS
<1>9. ps = v
  BY <1>2, <1>7 DEF Properties, NonEmpty
<1>10. NonEmpty(Split(<<" ">> \o y, " ")) = v
  BY <1>3, <1>4, <1>5, <1>6, <1>7, <1>8 DEF Pieced, Kept, NonEmpty
<1> QED BY <1>9, <1>10 DEF Properties

LEMMA HeadedMore ==
    ASSUME NEW S, NEW p \in S, NEW s \in Seq(S), p[1] \in Word
    PROVE  Headed(<<p>> \o s)
<1>1. PICK q \in Seq(S) : q = <<p>>
  BY OneOf
<1>2. Len(q) = 1 /\ q[1] = p
  BY <1>1
<1>3. (q \o s)[1] = q[1]
  BY <1>2
<1> QED BY <1>1, <1>2, <1>3 DEF Headed

\* The properties of an outcome.
EndProps(id, msg, extra) ==
    << <<"id", "=", id>> >> \o (<< <<"msg", "=">> \o ServerEscape(msg)>> \o RowProps(extra))

EndRow(id, msg, extra) == Keyed(Keyed(extra, <<"msg">>, msg), <<"id">>, <<id>>)

LEMMA EndPropsSpell ==
    ASSUME NEW id \in Word, NEW msg \in Seq(Char), NEW extra, IsRow(extra),
           DOMAIN extra \cap {<<"id">>, <<"msg">>} = {}
    PROVE  /\ Spells(EndProps(id, msg, extra), EndRow(id, msg, extra))
           /\ Headed(EndProps(id, msg, extra))
           /\ <<"id", "=", id>> \in Seq(Safe) \ {<<>>}
           /\ <<"msg", "=">> \o ServerEscape(msg) \in Seq(Safe) \ {<<>>}
           /\ RowProps(extra) \in Seq(Seq(Safe) \ {<<>>})
<1>1. PICK S : S = Seq(Safe) \ {<<>>}
  OBVIOUS
<1>2. PICK idp, msgp, kid, kmsg : /\ idp = <<"id", "=", id>> /\ msgp = <<"msg", "=">> \o ServerEscape(msg)
                                  /\ kid = <<"id">> /\ kmsg = <<"msg">>
  OBVIOUS
<1>3. Tagged(idp, kid, <<id>>)
  BY <1>2, IdTagged, NameChars
<1>4. Tagged(msgp, kmsg, msg)
  BY <1>2, PropTagged, NameChars
<1>5. PICK ps : ps = RowProps(extra)
  OBVIOUS
<1>6. Spells(ps, extra)
  BY <1>5, RowPropsSpell
<1>7. kid \notin DOMAIN extra /\ kmsg \notin DOMAIN extra
  BY <1>2
<1>8. kid # kmsg
  <2>1. kid[1] = "id" /\ kmsg[1] = "msg"
    BY <1>2
  <2> QED BY <2>1
<1>9. PICK more, row : more = <<msgp>> \o ps /\ row = Keyed(extra, kmsg, msg)
  OBVIOUS
<1>10. Spells(more, row)
  BY <1>4, <1>6, <1>7, <1>9, TaggedMore
<1>11. kid \notin DOMAIN row
  <2>1. DOMAIN row = DOMAIN extra \cup {kmsg}
    BY <1>9 DEF Keyed
  <2> QED BY <1>7, <1>8, <2>1
<1>12. Spells(<<idp>> \o more, Keyed(row, kid, <<id>>))
  BY <1>3, <1>10, <1>11, TaggedMore
<1>13. idp \in S /\ msgp \in S /\ idp[1] \in Word
  BY <1>1, <1>3, <1>4 DEF Tagged
<1>14. ps \in Seq(S) /\ more \in Seq(S)
  BY <1>1, <1>6, <1>10 DEF Spells
<1>15. Headed(<<idp>> \o more)
  BY <1>13, <1>14, HeadedMore
<1>16. <<idp>> \o more = EndProps(id, msg, extra)
  BY <1>2, <1>5, <1>9 DEF EndProps
<1>17. Keyed(row, kid, <<id>>) = EndRow(id, msg, extra)
  BY <1>2, <1>9 DEF EndRow
<1> QED BY <1>1, <1>2, <1>5, <1>12, <1>13, <1>14, <1>15, <1>16, <1>17

LEMMA FirstAdded ==
    ASSUME NEW S, NEW a \in S, NEW s \in Seq(S)
    PROVE  /\ <<a>> \o s \in Seq(S) /\ <<a>> \o s # <<>> /\ (<<a>> \o s)[1] = a
           /\ s # <<>> => (<<a>> \o s)[2] = s[1]
<1>1. PICK q \in Seq(S) : q = <<a>>
  BY OneOf
<1>2. Len(q) = 1 /\ q[1] = a
  BY <1>1
<1>3. q \o s \in Seq(S) /\ Len(q \o s) = Len(q) + Len(s)
  OBVIOUS
<1>4. q \o s # <<>>
  BY <1>2, <1>3
<1>5. \A i \in 1 .. Len(q) + Len(s) : (q \o s)[i] = IF i <= Len(q) THEN q[i] ELSE s[i - Len(q)]
  OBVIOUS
<1>6. (q \o s)[1] = a
  BY <1>2, <1>5
<1>7. s # <<>> => (q \o s)[2] = s[1]
  BY <1>2, <1>5
<1> QED BY <1>1, <1>3, <1>4, <1>6, <1>7

\* What is joined already, and empty if nothing was, is one with the rest.
Amounts(q, s, sep) == Join(NonEmpty(Append(q, Join(s, sep))), sep) = Join(q \o s, sep)

LEMMA JoinJoined ==
    ASSUME NEW S, S \subseteq Char, NEW sep \in S, NEW q \in Seq(Seq(S) \ {<<>>}), q # <<>>,
           NEW s \in Seq(Seq(S) \ {<<>>})
    PROVE  Amounts(q, s, sep)
<1>1. PICK P, R : P = Seq(S) \ {<<>>} /\ R = Seq(S)
  OBVIOUS
<1>2. P \subseteq R /\ q \in Seq(P) /\ s \in Seq(P)
  BY <1>1
<1>3. q \in Seq(R) /\ s \in Seq(R)
  BY <1>2, SeqWider
<1>4. PICK x \in R : x = Join(s, sep)
  BY <1>1, <1>3, JoinType
<1>5. x = <<>> <=> s = <<>>
  <2>1. s = <<>> => x = <<>>
    BY <1>4, JoinNone
  <2>2. s # <<>> => x # <<>>
    BY <1>4, JoinFirst
  <2> QED BY <2>1, <2>2
<1>6. NonEmpty(q) = q
  <2>1. \A i \in 1 .. Len(q) : q[i] \in P
    BY <1>1
  <2>2. \A i \in 1 .. Len(q) : q[i] \notin {<<>>}
    BY <1>1, <2>1
  <2>3. Without(q, {<<>>}) = q
    BY <2>2, WithoutOutside
  <2> QED BY <2>3 DEF NonEmpty
<1>7. NonEmpty(Append(q, x)) = IF x = <<>> THEN q ELSE Append(q, x)
  <2>1. Without(Append(q, x), {<<>>}) = IF x \in {<<>>} THEN Without(q, {<<>>}) ELSE Append(Without(q, {<<>>}), x)
    BY <1>3, WithoutAppend
  <2> QED BY <1>6, <2>1 DEF NonEmpty
<1>8. CASE s = <<>>
  <2>1. q \o s = q
    BY <1>8
  <2> QED BY <1>4, <1>5, <1>7, <1>8, <2>1 DEF Amounts
<1>9. CASE s # <<>>
  <2>1. Join(Append(q, x), sep) = Join(q, sep) \o (<<sep>> \o x)
    BY <1>1, <1>3, JoinAppend
  <2>2. Join(q \o s, sep) = Join(q, sep) \o (<<sep>> \o Join(s, sep))
    BY <1>1, <1>3, <1>9, JoinConcat
  <2> QED BY <1>4, <1>5, <1>7, <1>9, <2>1, <2>2 DEF Amounts
<1> QED BY <1>8, <1>9

Starts(h, s, sep) == Join(<<h>> \o s, sep) = h \o (<<sep>> \o Join(s, sep))

LEMMA JoinBehind ==
    ASSUME NEW S, NEW sep \in S, NEW h \in Seq(S), NEW s \in Seq(Seq(S)), s # <<>>
    PROVE  Starts(h, s, sep)
<1>1. PICK R : R = Seq(S)
  OBVIOUS
<1>2. PICK q \in Seq(R) : q = <<h>>
  BY <1>1, OneOf
<1>3. q # <<>>
  BY <1>2
<1>4. Join(q \o s, sep) = Join(q, sep) \o (<<sep>> \o Join(s, sep))
  BY <1>1, <1>3, JoinConcat
<1>5. Join(q, sep) = h
  BY <1>2, JoinOne
<1> QED BY <1>2, <1>4, <1>5 DEF Starts

LEMMA EndLineRead ==
    ASSUME NEW id \in Word, NEW msg \in Seq(Char), NEW extra, IsRow(extra),
           DOMAIN extra \cap {<<"id">>, <<"msg">>} = {}
    PROVE  Errs(Join(NonEmpty(<< <<"error">>, <<"id", "=", id>>,
                                 <<"msg", "=">> \o ServerEscape(msg), RowText(extra) >>), " "),
                EndProps(id, msg, extra))
<1>1. PICK S, P : S = Seq(Safe) \ {<<>>} /\ P = Seq(Inline) \ {<<>>}
  OBVIOUS
<1>2. S \subseteq P /\ P \subseteq Seq(Inline) /\ Seq(Inline) \subseteq Seq(Char)
  <2>1. Safe \subseteq Inline
    BY LineChars
  <2>2. Seq(Safe) \subseteq Seq(Inline)
    BY <2>1, SeqWider
  <2>3. Seq(Inline) \subseteq Seq(Char)
    BY LineChars, SeqWider
  <2> QED BY <1>1, <2>2, <2>3
<1>3. PICK h \in P : h = <<"error">>
  BY <1>1, OneOf, NameChars
<1>4. PICK idp \in S, msgp \in S : idp = <<"id", "=", id>> /\ msgp = <<"msg", "=">> \o ServerEscape(msg)
  BY <1>1, EndPropsSpell
<1>5. PICK rs \in Seq(S) : rs = RowProps(extra)
  BY <1>1, EndPropsSpell
<1>6. h \in P /\ idp \in P /\ msgp \in P /\ rs \in Seq(P)
  BY <1>2, SeqWider
<1>7. PICK x : x = RowText(extra)
  OBVIOUS
<1>8. x = Join(rs, " ")
  BY <1>5, <1>7, RowTextAs
<1>9. PICK R : R = Seq(Inline)
  OBVIOUS
<1>10. rs \in Seq(R)
  BY <1>2, <1>6, <1>9, SeqWider
<1>11. h \in R /\ idp \in R /\ msgp \in R /\ x \in R
  BY <1>2, <1>6, <1>8, <1>9, <1>10, JoinType, LineChars
<1>12. PICK q \in Seq(P) : q = <<h, idp, msgp>>
  BY <1>6, ThreeOf
<1>13. q # <<>> /\ Append(q, x) = <<h, idp, msgp, x>>
  BY <1>11, <1>12, ThreeOf
<1>16. PICK line : line = Join(NonEmpty(Append(q, x)), " ")
  OBVIOUS
<1>17. line = Join(q \o rs, " ")
  <2>1. Amounts(q, rs, " ")
    BY <1>1, <1>6, <1>13, JoinJoined, LineChars
  <2> QED BY <1>8, <1>16, <2>1 DEF Amounts
<1>18. PICK ps : ps = EndProps(id, msg, extra)
  OBVIOUS
<1>19. ps = <<idp>> \o (<<msgp>> \o rs)
  BY <1>4, <1>5, <1>18 DEF EndProps
<1>20. ps \in Seq(Seq(Safe) \ {<<>>}) /\ Headed(ps)
  BY <1>18, EndPropsSpell DEF Spells
<1>21. ps # <<>>
  <2>1. PICK b \in Seq(S) : b = <<msgp>> \o rs
    BY OneMore
  <2>2. <<idp>> \o b # <<>>
    BY FirstAdded
  <2> QED BY <1>19, <2>1, <2>2
<1>22. PICK y : y = Join(ps, " ")
  OBVIOUS
<1>23. Holds(y, ps)
  BY <1>20, <1>21, <1>22, PropsText
<1>24. q \o rs = <<h>> \o ps
  <2>1. Regroups(<<h, idp, msgp>>, <<h, idp, msgp>>, rs)
    BY <1>6, ThreeBefore
  <2>2. q[1] = h /\ q[2] = idp /\ q[3] = msgp
    BY <1>12
  <2> QED BY <1>12, <1>19, <2>1, <2>2 DEF Regroups
<1>25. line = h \o (<<" ">> \o y)
  <2>1. ps \in Seq(R)
    <3>1. S \subseteq R
      BY <1>2, <1>9
    <3>2. ps \in Seq(S)
      BY <1>1, <1>20
    <3> QED BY <3>1, <3>2, SeqWider
  <2>2. Starts(h, ps, " ")
    BY <1>9, <1>11, <1>21, <2>1, JoinBehind, LineChars
  <2> QED BY <1>17, <1>22, <1>24, <2>2 DEF Starts
<1>26. PICK yy \in Seq(Inline) : yy = y
  BY <1>23, LineChars, SeqWider DEF Holds
<1>27. PICK s \in Seq(Inline) : s = <<" ">> \o yy
  BY OneMore, LineChars
<1>28. line = <<"error">> \o s
  BY <1>3, <1>25, <1>26, <1>27
<1>29. s # <<>> /\ s[1] = " "
  <2>1. " " \in Inline
    BY LineChars
  <2>2. <<" ">> \o yy # <<>> /\ (<<" ">> \o yy)[1] = " "
    BY <2>1, FirstAdded
  <2> QED BY <1>27, <2>2
<1>32. line \in Seq(Inline) /\ line # <<>> /\ line[1] = "error" /\ line[2] = " "
  <2>1. "error" \in Inline
    BY NameChars
  <2>2. /\ <<"error">> \o s \in Seq(Inline) /\ <<"error">> \o s # <<>> /\ (<<"error">> \o s)[1] = "error"
        /\ s # <<>> => (<<"error">> \o s)[2] = s[1]
    BY <2>1, FirstAdded
  <2> QED BY <1>28, <1>29, <2>2
<1>33. Tail(line) = s
  <2>1. Behind("error", s, s)
    BY TailOf, NameChars
  <2> QED BY <1>28, <2>1 DEF Behind
<1>34. Properties(Tail(line), ps)
  <2>1. y \in Seq(Char)
    BY <1>2, <1>26
  <2>2. Properties(<<" ">> \o y, ps)
    BY <1>23, <2>1, SpaceBefore DEF Holds
  <2> QED BY <1>26, <1>27, <1>33, <2>2
<1>35. Errs(line, ps)
  BY <1>32, <1>34 DEF Errs
<1> QED BY <1>3, <1>4, <1>7, <1>13, <1>16, <1>18, <1>35

LEMMA EndRowFacts ==
    ASSUME NEW id, NEW msg, NEW extra, IsRow(extra), NEW full, full = EndRow(id, msg, extra),
           DOMAIN extra \cap {<<"id">>, <<"msg">>} = {}
    PROVE  /\ <<"id">> \in DOMAIN full /\ full[<<"id">>] = <<id>>
           /\ <<"msg">> \in DOMAIN full /\ full[<<"msg">>] = msg
           /\ Restrict(full, DOMAIN full \ {<<"id">>, <<"msg">>}) = extra
<1>1. PICK kid, kmsg, D : kid = <<"id">> /\ kmsg = <<"msg">> /\ D = DOMAIN extra
  OBVIOUS
<1>2. kid # kmsg
  <2>1. kid[1] = "id" /\ kmsg[1] = "msg"
    BY <1>1
  <2> QED BY <2>1
<1>3. kid \notin D /\ kmsg \notin D
  BY <1>1
<1>4. PICK row : row = Keyed(extra, kmsg, msg)
  OBVIOUS
<1>5. DOMAIN row = D \cup {kmsg} /\ row[kmsg] = msg /\ \A k \in D : row[k] = extra[k]
  BY <1>1, <1>3, <1>4 DEF Keyed
<1>6. full = Keyed(row, kid, <<id>>)
  BY <1>1, <1>4 DEF EndRow
<1>7. /\ DOMAIN full = (D \cup {kmsg}) \cup {kid} /\ full[kid] = <<id>> /\ full[kmsg] = msg
      /\ \A k \in D : full[k] = extra[k]
  BY <1>2, <1>3, <1>5, <1>6 DEF Keyed
<1>8. DOMAIN full \ {kid, kmsg} = D
  BY <1>3, <1>7
<1>9. Restrict(full, D) = [k \in D |-> full[k]]
  BY DEF Restrict
<1>10. extra = [k \in D |-> extra[k]]
  BY <1>1 DEF IsRow
<1>11. Restrict(full, D) = extra
  BY <1>7, <1>9, <1>10
<1> QED BY <1>1, <1>7, <1>8, <1>11

LEMMA EndReadable ==
    ASSUME NEW id \in Word, NEW msg \in Seq(Char), NEW extra, IsRow(extra),
           DOMAIN extra \cap {<<"id">>, <<"msg">>} = {}
    PROVE  Readable(EndMessage(id, msg, extra))
<1>1. PICK m, line : m = EndMessage(id, msg, extra) /\ line = LineOf(m)
  OBVIOUS
<1>2. m = [kind |-> "end", id |-> id, msg |-> msg, extra |-> extra]
  BY <1>1 DEF EndMessage
<1>3. m.kind = "end" /\ m.id = id /\ m.msg = msg /\ m.extra = extra
  BY <1>2
<1>4. line = Join(NonEmpty(<< <<"error">>, <<"id", "=", id>>,
                              <<"msg", "=">> \o ServerEscape(msg), RowText(extra) >>), " ")
  BY <1>1, <1>3, Zenon DEF LineOf
<1>5. PICK ps : ps = EndProps(id, msg, extra)
  OBVIOUS
<1>6. Errs(line, ps)
  BY <1>4, <1>5, EndLineRead
<1>7. PICK full : full = EndRow(id, msg, extra)
  OBVIOUS
<1>8. Spells(ps, full)
  BY <1>5, <1>7, EndPropsSpell
<1>9. ParseRow(Tail(line)) = full
  BY <1>6, <1>8, RowParsed DEF Errs
<1>10. /\ <<"id">> \in DOMAIN full /\ full[<<"id">>] = <<id>>
       /\ <<"msg">> \in DOMAIN full /\ full[<<"msg">>] = msg
       /\ Restrict(full, DOMAIN full \ {<<"id">>, <<"msg">>}) = extra
  BY <1>7, EndRowFacts
<1>11. Get(full, "id", <<"-1">>)[1] = id /\ Get(full, "msg", <<>>) = msg
  BY <1>10 DEF Get
<1>12. ParseErrorLine(line) = m
  BY <1>2, <1>9, <1>10, <1>11 DEF ParseErrorLine
<1>13. line \in Seq(ToSet(line) \ {"\n", "\r"}) \ {<<>>}
  BY <1>6, InlineLacks DEF Errs
<1>14. ~IsEventLine(line) /\ IsErrorLine(line)
  BY <1>6 DEF Errs, IsEventLine, IsErrorLine
<1> QED BY <1>1, <1>3, <1>12, <1>13, <1>14 DEF Readable

LEMMA ImageFinite ==
    ASSUME NEW S, IsFiniteSet(S), NEW f
    PROVE  IsFiniteSet({f[x] : x \in S})
<1>1. PICK T : T = {f[x] : x \in S}
  OBVIOUS
<1>2. PICK g : g = [x \in S |-> f[x]]
  OBVIOUS
<1>3. g \in [S -> T] /\ \A y \in T : \E x \in S : g[x] = y
  BY <1>1, <1>2
<1>4. g \in Surjection(S, T)
  BY <1>3 DEF Surjection
<1>5. IsFiniteSet(T)
  BY <1>4, FS_Surjection
<1> QED BY <1>1, <1>5

LEMMA SetOfFinite ==
    ASSUME NEW S, NEW s \in Seq(S)
    PROVE  IsFiniteSet(ToSet(s))
<1>1. PICK n \in Nat : n = Len(s) /\ DOMAIN s = 1 .. n
  OBVIOUS
<1>2. ToSet(s) = {s[i] : i \in 1 .. n}
  BY <1>1 DEF ToSet
<1>3. IsFiniteSet(1 .. n)
  BY FS_Interval
<1> QED BY <1>2, <1>3, ImageFinite

LEMMA ParamsFinite ==
    ASSUME NEW text \in Seq(Char), NEW S \in ReadSet(text)
    PROVE  IsFiniteSet(S)
<1>1. PICK segment \in ToSet(Split(text, "|")) : S = ParamsIn(segment)
  BY DEF ReadSet
<1>2. segment \in Seq(Char)
  BY PiecesTyped, WordFacts
<1>3. PICK R : R = Seq(Char)
  OBVIOUS
<1>4. Split(segment, " ") \in Seq(R)
  BY <1>2, <1>3, PiecesTyped, WordFacts
<1>5. NonEmpty(Split(segment, " ")) \in Seq(R \ {<<>>})
  BY <1>4, WithoutType DEF NonEmpty
<1>6. PICK W : W = ToSet(NonEmpty(Split(segment, " ")))
  OBVIOUS
<1>7. IsFiniteSet(W)
  BY <1>5, <1>6, SetOfFinite
<1>8. PICK f : f = [w \in W |-> ParamOf(w)]
  OBVIOUS
<1>9. IsFiniteSet({f[w] : w \in W})
  BY <1>7, <1>8, ImageFinite
<1>10. S = {f[w] : w \in W}
  <2>1. S = {ParamOf(w) : w \in W}
    BY <1>1, <1>6 DEF ParamsIn
  <2> QED BY <1>8, <2>1
<1> QED BY <1>9, <1>10

\* A row of the parameters in a set.
RowOf(params) == [key \in {p[1] : p \in params} |-> (CHOOSE p \in params : p[1] = key)[2]]

LEMMA RowOfRow ==
    ASSUME NEW S, IsFiniteSet(S), S \subseteq AnyParam, S # {}
    PROVE  IsRow(RowOf(S)) /\ DOMAIN RowOf(S) # {}
<1>1. PICK D : D = {p[1] : p \in S}
  OBVIOUS
<1>2. RowOf(S) = [key \in D |-> (CHOOSE p \in S : p[1] = key)[2]]
  BY <1>1 DEF RowOf
<1>3. IsFiniteSet(D)
  <2>1. PICK f : f = [p \in S |-> p[1]]
    OBVIOUS
  <2>2. IsFiniteSet({f[p] : p \in S})
    BY <2>1, ImageFinite
  <2>3. D = {f[p] : p \in S}
    BY <1>1, <2>1
  <2> QED BY <2>2, <2>3
<1>4. \A p \in S : p[1] \in {<<w>> : w \in Word} /\ p[2] \in Seq(Char)
  <2> SUFFICES ASSUME NEW p \in S PROVE p[1] \in {<<w>> : w \in Word} /\ p[2] \in Seq(Char)
    OBVIOUS
  <2>1. PICK k \in Word, t \in Seq(Char) : p = << <<k>>, t>>
    BY DEF AnyParam
  <2> QED BY <2>1
<1>5. D \subseteq {<<w>> : w \in Word}
  BY <1>1, <1>4
<1>6. ASSUME NEW key \in D PROVE (CHOOSE p \in S : p[1] = key)[2] \in Seq(Char)
  <2>1. \E p \in S : p[1] = key
    BY <1>1
  <2>2. (CHOOSE p \in S : p[1] = key) \in S
    BY <2>1
  <2> QED BY <1>4, <2>2
<1>7. D # {}
  BY <1>1
<1>8. DOMAIN RowOf(S) = D /\ RowOf(S) \in [D -> Seq(Char)]
  BY <1>2, <1>6
<1> QED BY <1>3, <1>5, <1>7, <1>8 DEF IsRow

-----------------------------------------------------------------------------
(* All that a server may send *)

\* Rows and an outcome that a line can tell.
Tellable(m) ==
    /\ AreRows(m.rows)
    /\ m.end = EndMessage(m.end.id, m.end.msg, m.end.extra)
    /\ m.end.id \in Word /\ m.end.msg \in Seq(Char)
    /\ IsRow(m.end.extra) /\ DOMAIN m.end.extra \cap {<<"id">>, <<"msg">>} = {}

EchoOf(segments) == [i \in DOMAIN segments |-> RowOf(segments[i])]

LEMMA MeaningAs ==
    \A reading : Meaning(reading) =
       IF reading.cmd \in DOMAIN Answers THEN Answers[reading.cmd]
       ELSE {[rows |-> EchoOf(Without(reading.segments, {{}})), end |-> EndMessage("0", <<"ok">>, <<>>)]}
BY Zenon DEF Meaning, EchoOf, RowOf

LEMMA EchoRows ==
    ASSUME NEW A, NEW s \in Seq(A), \A S \in A : IsFiniteSet(S) /\ S \subseteq AnyParam /\ S # {}
    PROVE  AreRows(EchoOf(s))
<1>1. PICK n \in Nat : n = Len(s) /\ DOMAIN s = 1 .. n
  OBVIOUS
<1>2. \A i \in 1 .. n : IsRow(RowOf(s[i])) /\ DOMAIN RowOf(s[i]) # {}
  BY <1>1, RowOfRow
<1>3. PICK rows : rows = EchoOf(s)
  OBVIOUS
<1>4. rows = [i \in 1 .. n |-> RowOf(s[i])]
  BY <1>1, <1>3 DEF EchoOf
<1>5. DOMAIN rows = 1 .. n /\ \A i \in 1 .. n : rows[i] = RowOf(s[i])
  BY <1>4
<1>6. ToSet(rows) = {rows[i] : i \in 1 .. n}
  BY <1>5 DEF ToSet
<1>7. rows \in Seq(ToSet(rows))
  BY <1>4, <1>6
<1>8. \A row \in ToSet(rows) : IsRow(row) /\ DOMAIN row # {}
  BY <1>2, <1>5, <1>6
<1> QED BY <1>3, <1>7, <1>8 DEF AreRows

LEMMA MeaningTellable ==
    ASSUME NEW c \in Call, Renderable(c), NEW m \in Meaning(ServerReads(RenderCommand(c)))
    PROVE  Tellable(m)
<1>1. PICK reading : reading = ServerReads(RenderCommand(c))
  OBVIOUS
<1>2. CASE reading.cmd \in DOMAIN Answers
  <2>1. m \in UNION {Answers[cmd] : cmd \in DOMAIN Answers}
    BY <1>1, <1>2, MeaningAs
  <2> QED BY <2>1, MessageAssumption DEF Tellable
<1>3. CASE reading.cmd \notin DOMAIN Answers
  <2>1. PICK segs, A : segs = reading.segments /\ A = ToSet(segs)
    OBVIOUS
  <2>2. /\ segs \in Seq(A) /\ UNION A \subseteq AnyParam
        /\ (\A S \in A : S \in ReadSet(BodyOf(c))) /\ BodyOf(c) \in Seq(Char)
    BY <1>1, <2>1, CommandFacts
  <2>3. \A S \in A : IsFiniteSet(S) /\ S \subseteq AnyParam
    BY <2>2, ParamsFinite
  <2>4. Without(segs, {{}}) \in Seq(A \ {{}})
    BY <2>2, WithoutType
  <2>5. PICK B, rest : B = A \ {{}} /\ rest = Without(segs, {{}})
    OBVIOUS
  <2>6. rest \in Seq(B) /\ \A S \in B : IsFiniteSet(S) /\ S \subseteq AnyParam /\ S # {}
    BY <2>3, <2>4, <2>5
  <2>7. AreRows(EchoOf(rest))
    BY <2>6, EchoRows
  <2>8. PICK extra : extra = <<>>
    OBVIOUS
  <2>9. DOMAIN extra = {} /\ extra \in [{} -> Seq(Char)]
    BY <2>8
  <2>10. IsRow(extra)
    BY <2>9, FS_EmptySet DEF IsRow
  <2>11. m = [rows |-> EchoOf(rest), end |-> EndMessage("0", <<"ok">>, extra)]
    BY <1>1, <1>3, <2>1, <2>5, <2>8, MeaningAs
  <2>12. m.rows = EchoOf(rest) /\ m.end = EndMessage("0", <<"ok">>, extra)
    BY <2>11
  <2>13. m.end.id = "0" /\ m.end.msg = <<"ok">> /\ m.end.extra = extra
    BY <2>12 DEF EndMessage
  <2>14. <<"ok">> \in Seq(Char)
    BY OneOf, NameChars, WordFacts
  <2> QED BY <2>7, <2>9, <2>10, <2>12, <2>13, <2>14, NameChars DEF Tellable
<1> QED BY <1>2, <1>3

LEMMA RowMessagesReadable ==
    ASSUME NEW m, AreRows(m.rows), NEW together \in BOOLEAN, NEW r \in ToSet(RowMessages(m, together))
    PROVE  Readable(r)
<1>1. CASE m.rows = <<>>
  <2>1. RowMessages(m, together) = <<>>
    BY <1>1 DEF RowMessages
  <2>2. ToSet(<<>>) = {}
    BY DEF ToSet
  <2> QED BY <2>1, <2>2
<1>2. CASE m.rows # <<>> /\ together
  <2>1. RowMessages(m, together) = <<DataMessage(m.rows)>>
    BY <1>2 DEF RowMessages
  <2>2. r = DataMessage(m.rows)
    BY <2>1, SetOfOne
  <2> QED BY <1>2, <2>2, DataReadable
<1>3. CASE m.rows # <<>> /\ ~together
  <2>1. PICK A : A = ToSet(m.rows)
    OBVIOUS
  <2>2. PICK rows \in Seq(A) : rows = m.rows
    BY <2>1 DEF AreRows
  <2>3. PICK n \in Nat : n = Len(rows) /\ DOMAIN rows = 1 .. n
    OBVIOUS
  <2>4. RowMessages(m, together) = [i \in 1 .. n |-> DataMessage(<<rows[i]>>)]
    BY <1>3, <2>2, <2>3 DEF RowMessages
  <2>5. PICK i \in 1 .. n : r = DataMessage(<<rows[i]>>)
    BY <2>4 DEF ToSet
  <2>6. rows[i] \in A
    BY <2>3
  <2>7. IsRow(rows[i]) /\ DOMAIN rows[i] # {}
    BY <2>1, <2>6 DEF AreRows
  <2>8. PICK row : row = rows[i]
    OBVIOUS
  <2>9. PICK one \in Seq({row}) : one = <<row>>
    BY OneOf
  <2>10. ToSet(one) = {row}
    BY <2>9, SetOfOne
  <2>11. AreRows(one)
    BY <2>7, <2>8, <2>10 DEF AreRows
  <2>12. one # <<>>
    BY <2>9
  <2>13. Readable(DataMessage(one))
    BY <2>11, <2>12, DataReadable
  <2> QED BY <2>5, <2>8, <2>9, <2>13
<1> QED BY <1>1, <1>2, <1>3

\* Whatever characters a row, the text of a refusal or a notification holds,
\* the line the server writes for it is sorted by _recv_loop() as what it is,
\* and parse_data_line(), parse_error_line() and Event.from_line() make of it
\* what was meant.
THEOREM LinesRead == LinesReadable
<1>1. ASSUME NEW event \in Event PROVE Readable(EventMessage(event))
  BY EventReadable
<1>2. ASSUME NEW m \in Answerable PROVE Tellable(m)
  <2>1. PICK c \in {d \in Call : Renderable(d)} : m \in Meaning(ServerReads(RenderCommand(c)))
    BY DEF Answerable
  <2> QED BY <2>1, MeaningTellable
<1>3. ASSUME NEW m \in Answerable PROVE Readable(m.end)
  <2>1. Tellable(m)
    BY <1>2
  <2>2. PICK id \in Word, msg \in Seq(Char) : id = m.end.id /\ msg = m.end.msg
    BY <2>1 DEF Tellable
  <2>3. PICK extra : extra = m.end.extra
    OBVIOUS
  <2>4. IsRow(extra) /\ DOMAIN extra \cap {<<"id">>, <<"msg">>} = {}
    BY <2>1, <2>3 DEF Tellable
  <2>5. m.end = EndMessage(id, msg, extra)
    BY <2>1, <2>2, <2>3 DEF Tellable
  <2>6. Readable(EndMessage(id, msg, extra))
    BY <2>4, EndReadable
  <2> QED BY <2>5, <2>6
<1>4. ASSUME NEW m \in Answerable, NEW together \in BOOLEAN, NEW r \in ToSet(RowMessages(m, together))
      PROVE  Readable(r)
  <2>1. AreRows(m.rows)
    BY <1>2 DEF Tellable
  <2> QED BY <2>1, RowMessagesReadable
<1>5. ASSUME NEW r \in Sendable PROVE Readable(r)
  <2>1. CASE r \in {EventMessage(event) : event \in Event}
    BY <1>1, <2>1
  <2>2. CASE r \in {m.end : m \in Answerable}
    BY <1>3, <2>2
  <2>3. CASE r \in UNION {ToSet(RowMessages(m, together)) : m \in Answerable, together \in BOOLEAN}
    BY <1>4, <2>3
  <2> QED BY <2>1, <2>2, <2>3 DEF Sendable
<1> QED BY <1>5 DEF LinesReadable
=============================================================================
