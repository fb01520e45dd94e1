----------------------------- MODULE SseScanProofs -----------------------------
(***************************************************************************)
(* What the search for a blank line finds.  DelimiterEnd and Reference are *)
(* recursive functions, so the first thing to prove of each is that a      *)
(* function with its recursion equation exists; the rest is by induction   *)
(* downwards over the positions of a sequence (NatInductionSets).          *)
(***************************************************************************)
EXTENDS SseDecoder, NatInductionSets, SequenceTheorems

-----------------------------------------------------------------------------
(* Line ends                                                                   *)

\* Eol without a CASE, whose branches exclude each other.
LEMMA EolCases ==
  ASSUME NEW s \in Seq(Byte), NEW i \in 1 .. Len(s) + 2, NEW eof \in BOOLEAN
  PROVE  Eol(s, i, eof) =
           IF i > Len(s) THEN 0
           ELSE IF s[i] = LF THEN 1
           ELSE IF s[i] # CR THEN 0
           ELSE IF i < Len(s) THEN (IF s[i + 1] = LF THEN 2 ELSE 1)
           ELSE IF eof THEN 1 ELSE 0
<1> USE DecoderAssumption
<1>1. CASE i > Len(s)
  BY <1>1 DEF Eol
<1>2. CASE i = Len(s)
  BY <1>2 DEF Eol
<1>3. CASE i < Len(s)
  BY <1>3 DEF Eol
<1> QED BY <1>1, <1>2, <1>3

\* A line end is at most two bytes and lies within the sequence.
LEMMA EolRange ==
  ASSUME NEW s \in Seq(Byte), NEW i \in 1 .. Len(s) + 2, NEW eof \in BOOLEAN
  PROVE  /\ Eol(s, i, eof) \in {0, 1, 2}
         /\ i <= Len(s) => i + Eol(s, i, eof) <= Len(s) + 1
         /\ i > Len(s) => Eol(s, i, eof) = 0
BY EolCases

-----------------------------------------------------------------------------
(* The search                                                                  *)

\* One round of the search, at position i, if `scan` is its result elsewhere.
At(s, eof, scan, i) ==
  IF i > Len(s) THEN 0
  ELSE IF Eol(s, i, eof) = 0 THEN scan[i + 1]
  ELSE IF Eol(s, i + Eol(s, i, eof), eof) = 0 THEN scan[i + Eol(s, i, eof)]
  ELSE i + Eol(s, i, eof) + Eol(s, i + Eol(s, i, eof), eof) - 1

\* DelimiterEnd's recursive function.
Scan(s, eof) == CHOOSE scan : scan = [i \in 1 .. Len(s) + 1 |-> At(s, eof, scan, i)]

\* The search is the value of its recursive function at the first position.
LEMMA DelimiterEndIsScan ==
  ASSUME NEW s, NEW from, NEW eof
  PROVE  DelimiterEnd(s, from, eof) = Scan(s, eof)[from + 1]
BY DEF DelimiterEnd, Scan, At

\* The same for a search from the start.
LEMMA DelimiterEndFromStart ==
  ASSUME NEW s, NEW eof
  PROVE  DelimiterEnd(s, 0, eof) = Scan(s, eof)[1]
<1>1. 0 + 1 = 1
  OBVIOUS
<1>2. DelimiterEnd(s, 0, eof) = Scan(s, eof)[0 + 1]
  BY DelimiterEndIsScan
<1> QED BY <1>1, <1>2, Zenon

\* A round looks only at later positions.
LEMMA AtLooksAhead ==
  ASSUME NEW s \in Seq(Byte), NEW eof \in BOOLEAN, NEW i \in 1 .. Len(s) + 1, NEW g, NEW h,
         \A j \in i + 1 .. Len(s) + 1 : g[j] = h[j]
  PROVE  At(s, eof, g, i) = At(s, eof, h, i)
<1>1. CASE i > Len(s)
  BY <1>1 DEF At
<1>2. CASE i <= Len(s)
  <2>1. Eol(s, i, eof) \in {0, 1, 2} /\ i + Eol(s, i, eof) <= Len(s) + 1
    BY <1>2, EolRange
  <2>2. CASE Eol(s, i, eof) = 0
    <3>1. g[i + 1] = h[i + 1]
      BY <1>2
    <3> QED BY <2>2, <3>1 DEF At
  <2>3. CASE Eol(s, i, eof) # 0
    <3>1. i + Eol(s, i, eof) \in i + 1 .. Len(s) + 1
      BY <2>1, <2>3
    <3>2. g[i + Eol(s, i, eof)] = h[i + Eol(s, i, eof)]
      BY <3>1, Zenon
    <3> QED BY <2>3, <3>2 DEF At
  <2> QED BY <2>2, <2>3
<1> QED BY <1>1, <1>2

\* The function exists: it is built from the last position downwards.
LEMMA ScanExists ==
  ASSUME NEW s \in Seq(Byte), NEW eof \in BOOLEAN
  PROVE  \E g : g = [i \in 1 .. Len(s) + 1 |-> At(s, eof, g, i)]
<1> DEFINE L == Len(s) + 1
           T == {k \in 1 .. L : \E g : g = [i \in k .. L |-> At(s, eof, g, i)]}
<1>0. L \in Nat /\ Len(s) \in Nat
  OBVIOUS
<1>1. ASSUME NEW k \in 1 .. L, \A m \in k + 1 .. L : m \in T PROVE k \in T
  <2>1. PICK g : k = L \/ g = [i \in k + 1 .. L |-> At(s, eof, g, i)]
    <3>1. CASE k = L
      BY <3>1
    <3>2. CASE k # L
      <4>1. k + 1 \in k + 1 .. L
        BY <1>0, <3>2
      <4>2. k + 1 \in T
        BY <1>1, <4>1
      <4> QED BY <4>2
    <3> QED BY <3>1, <3>2
  <2> DEFINE h == [i \in k .. L |-> IF i = k THEN At(s, eof, g, i) ELSE g[i]]
  <2>2. ASSUME NEW i \in k .. L PROVE h[i] = At(s, eof, h, i)
    <3>1. i \in 1 .. Len(s) + 1
      BY <1>0
    <3>2. \A j \in i + 1 .. Len(s) + 1 : h[j] = g[j]
      BY <1>0
    <3>3. At(s, eof, h, i) = At(s, eof, g, i)
      <4> HIDE DEF h
      <4> QED BY <3>1, <3>2, AtLooksAhead
    <3>4. CASE i = k
      BY <3>3, <3>4
    <3>5. CASE i # k
      <4>1. i \in k + 1 .. L /\ k # L
        BY <3>5, <1>0
      <4>2. g[i] = At(s, eof, g, i)
        BY <2>1, <4>1
      <4> QED BY <3>3, <3>5, <4>2
    <3> QED BY <3>4, <3>5
  <2>3. h = [i \in k .. L |-> At(s, eof, h, i)]
    BY <2>2
  <2> QED BY <2>3
<1>2. \A k \in 1 .. L : k \in T
  <2> HIDE DEF T, L
  <2>1. \A k \in 1 .. L : (\A m \in k + 1 .. L : m \in T) => k \in T
    BY <1>1
  <2>2. 1 \in Int /\ L \in Int
    BY <1>0
  <2> QED BY <2>1, <2>2, DownwardInduction, Zenon
<1>3. 1 \in T
  BY <1>0, <1>2
<1> QED BY <1>3

\* The recursion equation of the search.
LEMMA ScanRecursion ==
  ASSUME NEW s \in Seq(Byte), NEW eof \in BOOLEAN, NEW i \in 1 .. Len(s) + 1
  PROVE  Scan(s, eof)[i] = At(s, eof, Scan(s, eof), i)
<1>1. Scan(s, eof) = [j \in 1 .. Len(s) + 1 |-> At(s, eof, Scan(s, eof), j)]
  BY ScanExists, Zenon DEF Scan
<1> QED BY <1>1, Zenon

-----------------------------------------------------------------------------
(* What the search finds, told of any sequence t that begins with s: the       *)
(* buffer is the beginning of what is still to be decoded.                     *)

Begins(s, t) == Len(s) <= Len(t) /\ \A i \in 1 .. Len(s) : t[i] = s[i]

\* Two line ends in a row, the first of them at p, the second ending at e.
Blank(t, p, e) ==
  /\ LineEnd(t, 0, p)
  /\ p + Width(t, p) <= Len(t) /\ t[p + Width(t, p)] \in {CR, LF}
  /\ e = p + Width(t, p) + Width(t, p + Width(t, p)) - 1

\* Before more has arrived it is open whether a blank line ends at e.
Open(s, eof, e) == ~eof /\ (e > Len(s) \/ (e = Len(s) /\ s[e] = CR))

\* The search gets from i to e: e is the first end of a blank line from i on, if
\* that is not open; otherwise e is 0.
Finds(s, t, eof, i, e) ==
  /\ e \in 0 .. Len(s)
  /\ e # 0 => /\ ~Open(s, eof, e)
              /\ \E p \in i .. Len(t) : Blank(t, p, e)
              /\ \A q \in i .. Len(t), f \in Int : Blank(t, q, f) => e <= f
  /\ e = 0 => \A q \in i .. Len(t), f \in Int : Blank(t, q, f) => Open(s, eof, f)

\* Position i is not the second half of a CRLF.
Starts(s, i) == ~(i \in 2 .. Len(s) /\ s[i] = LF /\ s[i - 1] = CR)

\* A line end is one or two bytes wide and lies within the sequence.
LEMMA WidthRange ==
  ASSUME NEW t \in Seq(Byte), NEW i \in 1 .. Len(t)
  PROVE  Width(t, i) \in {1, 2} /\ i + Width(t, i) <= Len(t) + 1
BY DEF Width

\* A blank line lies within the sequence and has at least two bytes.
LEMMA BlankRange ==
  ASSUME NEW t \in Seq(Byte), NEW p \in 1 .. Len(t), NEW e, Blank(t, p, e)
  PROVE  e \in p + 1 .. Len(t)
<1>1. Width(t, p) \in {1, 2} /\ p + Width(t, p) \in 1 .. Len(t)
  BY WidthRange DEF Blank
<1>2. /\ Width(t, p + Width(t, p)) \in {1, 2}
      /\ p + Width(t, p) + Width(t, p + Width(t, p)) <= Len(t) + 1
  BY <1>1, WidthRange
<1> QED BY <1>1, <1>2 DEF Blank

\* The line ends the search takes are those of t, only the last byte of s may be
\* a line end that it leaves open.
LEMMA EolIsWidth ==
  ASSUME NEW s \in Seq(Byte), NEW t \in Seq(Byte), Begins(s, t), NEW eof \in BOOLEAN,
         eof => Len(t) = Len(s), NEW i \in 1 .. Len(s) + 1
  PROVE  /\ Eol(s, i, eof) # 0 =>
              /\ i <= Len(s) /\ t[i] \in {CR, LF} /\ Eol(s, i, eof) = Width(t, i)
              /\ ~Open(s, eof, i)
         /\ Eol(s, i, eof) = 0 =>
              i > Len(s) \/ t[i] \notin {CR, LF} \/ (i = Len(s) /\ Open(s, eof, i))
<1> USE DEF Open
<1>1. CASE i > Len(s)
  BY <1>1, EolCases
<1>2. CASE i = Len(s)
  <2>1. s[i] = t[i] /\ i <= Len(t)
    BY <1>2 DEF Begins
  <2>2. Eol(s, i, eof) = IF s[i] = LF THEN 1 ELSE IF s[i] # CR THEN 0 ELSE IF eof THEN 1 ELSE 0
    BY <1>2, EolCases
  <2>3. CASE eof
    BY <1>2, <2>1, <2>2, <2>3, DecoderAssumption DEF Width
  <2>4. CASE ~eof
    BY <1>2, <2>1, <2>2, <2>4, DecoderAssumption DEF Width
  <2> QED BY <2>3, <2>4
<1>3. CASE i < Len(s)
  <2>1. s[i] = t[i] /\ s[i + 1] = t[i + 1] /\ i < Len(t)
    BY <1>3 DEF Begins
  <2> QED BY <1>3, <2>1, EolCases, DecoderAssumption DEF Width
<1> QED BY <1>1, <1>2, <1>3

\* Where a round goes on is not the second half of a CRLF.
LEMMA EolStarts ==
  ASSUME NEW s \in Seq(Byte), NEW eof \in BOOLEAN, NEW i \in 1 .. Len(s)
  PROVE  /\ Eol(s, i, eof) # 0 => Starts(s, i + Eol(s, i, eof))
         /\ Eol(s, i, eof) = 0 => Starts(s, i + 1)
BY EolCases, DecoderAssumption DEF Starts

\* The next line end begins where the one before is over.
LEMMA NextLineEnd ==
  ASSUME NEW t \in Seq(Byte), NEW p \in 1 .. Len(t), t[p] \in {CR, LF},
         NEW q \in p + 1 .. Len(t), LineEnd(t, 0, q)
  PROVE  q >= p + Width(t, p)
BY DecoderAssumption DEF Width, LineEnd

\* Further on, blank lines end further on.
LEMMA BlankOrder ==
  ASSUME NEW t \in Seq(Byte), NEW p \in 1 .. Len(t), NEW e, Blank(t, p, e), t[p] \in {CR, LF},
         NEW q \in p + 1 .. Len(t), NEW f, Blank(t, q, f)
  PROVE  e <= f
<1>1. Width(t, p) \in {1, 2} /\ p + Width(t, p) \in p + 1 .. Len(t)
  BY WidthRange DEF Blank
<1> DEFINE r == p + Width(t, p)
<1>2. q >= r
  BY NextLineEnd DEF Blank
<1>3. Width(t, r) \in {1, 2} /\ t[r] \in {CR, LF} /\ e = r + Width(t, r) - 1
  <2>1. r \in 1 .. Len(t)
    BY <1>1
  <2>2. Width(t, r) \in {1, 2}
    BY <2>1, WidthRange, Zenon
  <2> QED BY <2>2 DEF Blank
<1>4. f \in q + 1 .. Len(t)
  BY BlankRange
<1>5. CASE q = r
  <2>1. Width(t, q + Width(t, q)) \in {1, 2} /\ Width(t, q) \in {1, 2}
    <3>1. Width(t, q) \in {1, 2}
      BY WidthRange
    <3>2. q + Width(t, q) \in 1 .. Len(t)
      BY <3>1 DEF Blank
    <3> QED BY <3>1, <3>2, WidthRange, Zenon
  <2>2. f = q + Width(t, q) + Width(t, q + Width(t, q)) - 1
    BY DEF Blank
  <2> HIDE DEF r
  <2> QED BY <1>3, <1>5, <2>1, <2>2
<1>6. CASE q > r
  <2>1. r \in 1 .. Len(t) /\ q \in r + 1 .. Len(t) /\ LineEnd(t, 0, q)
    BY <1>1, <1>6 DEF Blank
  <2>2. q >= r + Width(t, r)
    <3> HIDE DEF r
    <3> QED BY <1>3, <2>1, NextLineEnd
  <2> HIDE DEF r
  <2> QED BY <1>3, <1>4, <2>1, <2>2
<1> QED BY <1>1, <1>2, <1>5, <1>6

\* One round finds what there is to find, if the later rounds do.
LEMMA RoundFinds ==
  ASSUME NEW s \in Seq(Byte), NEW t \in Seq(Byte), Begins(s, t), NEW eof \in BOOLEAN,
         eof => Len(t) = Len(s), NEW i \in 1 .. Len(s), Starts(s, i),
         \A j \in i + 1 .. Len(s) + 1 : Starts(s, j) => Finds(s, t, eof, j, Scan(s, eof)[j])
  PROVE  Finds(s, t, eof, i, Scan(s, eof)[i])
<1> DEFINE first  == Eol(s, i, eof)
           second == Eol(s, i + first, eof)
           e      == Scan(s, eof)[i]
<1>0. Len(s) \in Nat /\ Len(t) \in Nat /\ Len(s) <= Len(t)
  BY DEF Begins
<1>1. first \in {0, 1, 2} /\ i + first \in i .. Len(s) + 1
  BY EolRange
<1>2. second \in {0, 1, 2} /\ i + first + second <= Len(s) + 1
  <2> HIDE DEF first
  <2> QED BY <1>0, <1>1, EolRange
<1>3. e = IF first = 0 THEN Scan(s, eof)[i + 1]
          ELSE IF second = 0 THEN Scan(s, eof)[i + first]
          ELSE i + first + second - 1
  BY ScanRecursion DEF At
<1>4. /\ first # 0 => t[i] \in {CR, LF} /\ first = Width(t, i)
      /\ first = 0 => t[i] \notin {CR, LF} \/ (i = Len(s) /\ Open(s, eof, i))
  BY EolIsWidth
<1>5. /\ second # 0 => /\ i + first <= Len(s) /\ t[i + first] \in {CR, LF}
                       /\ second = Width(t, i + first)
                       /\ ~Open(s, eof, i + first)
      /\ second = 0 => \/ i + first > Len(s) \/ t[i + first] \notin {CR, LF}
                       \/ (i + first = Len(s) /\ Open(s, eof, i + first))
  <2> HIDE DEF first
  <2> QED BY <1>0, <1>1, EolIsWidth
<1>6. /\ first # 0 => Starts(s, i + first)
      /\ first = 0 => Starts(s, i + 1)
  BY EolStarts
<1>7. first # 0 => LineEnd(t, 0, i)
  BY <1>0, <1>4 DEF LineEnd, Starts, Begins
<1>8. \A q \in i + 1 .. Len(t), f \in Int : Blank(t, q, f) /\ first # 0 => q >= i + first
  <2> SUFFICES ASSUME NEW q \in i + 1 .. Len(t), LineEnd(t, 0, q), first # 0
               PROVE  q >= i + first
    BY DEF Blank
  <2>1. i \in 1 .. Len(t) /\ t[i] \in {CR, LF} /\ first = Width(t, i)
    BY <1>0, <1>4
  <2> HIDE DEF first
  <2> QED BY <2>1, NextLineEnd
<1> HIDE DEF first, second, e
<1>9. CASE first # 0 /\ second # 0
  <2>1. e = i + first + second - 1 /\ e \in i + 1 .. Len(s)
    BY <1>0, <1>1, <1>2, <1>3, <1>9
  <2>2. Blank(t, i, e)
    BY <1>0, <1>1, <1>4, <1>5, <1>7, <1>9, <2>1 DEF Blank
  <2>3. i \in 1 .. Len(t)
    BY <1>0
  <2>4. ASSUME NEW q \in i .. Len(t), NEW f \in Int, Blank(t, q, f) PROVE e <= f
    <3>1. CASE q = i
      BY <2>1, <2>2, <2>4, <3>1 DEF Blank
    <3>2. CASE q # i
      <4>1. q \in i + 1 .. Len(t)
        BY <3>2
      <4> QED BY <1>4, <1>9, <2>2, <2>3, <2>4, <4>1, BlankOrder
    <3> QED BY <3>1, <3>2
  <2>5. i \in i .. Len(t)
    BY <2>3
  <2>6. ~Open(s, eof, e)
    <3>1. second = 2 => e = i + first + 1 /\ t[e] = LF
      BY <1>1, <1>2, <1>5, <2>1 DEF Width
    <3>2. second = 1 => e = i + first
      BY <1>1, <2>1
    <3>3. s[e] = t[e]
      BY <1>0, <2>1 DEF Begins
    <3> QED BY <1>0, <1>2, <1>5, <1>9, <2>1, <3>1, <3>2, <3>3, DecoderAssumption DEF Open
  <2> QED BY <1>0, <2>1, <2>2, <2>4, <2>5, <2>6 DEF Finds, e
<1>10. CASE first # 0 /\ second = 0
  <2>1. e = Scan(s, eof)[i + first] /\ i + first \in i + 1 .. Len(s) + 1
    BY <1>1, <1>3, <1>10
  <2>2. Finds(s, t, eof, i + first, e)
    BY <1>6, <1>10, <2>1
  <2>3. ASSUME NEW f \in Int, Blank(t, i, f) PROVE f >= Len(s) /\ Open(s, eof, f)
    <3>1. i + first <= Len(t) /\ t[i + first] \in {CR, LF}
      BY <1>4, <1>10, <2>3 DEF Blank
    <3>2. i + first >= Len(s) /\ Open(s, eof, i + first)
      BY <1>0, <1>1, <1>5, <1>10, <3>1 DEF Open
    <3>3. Width(t, i + first) \in {1, 2}
      <4>1. i + first \in 1 .. Len(t)
        BY <2>1, <3>1
      <4> QED BY <4>1, WidthRange, Zenon
    <3>4. f = i + first + Width(t, i + first) - 1
      BY <1>4, <1>10, <2>3 DEF Blank
    <3>5. f >= i + first
      BY <1>1, <3>3, <3>4
    <3> QED BY <1>0, <1>1, <2>3, <3>2, <3>5 DEF Open
  <2>4. \A q \in i .. Len(t), f \in Int : Blank(t, q, f) => q = i \/ q \in i + first .. Len(t)
    BY <1>0, <1>1, <1>8, <1>10
  <2> QED BY <1>0, <2>1, <2>2, <2>3, <2>4 DEF Finds, e
<1>11. CASE first = 0
  <2>1. e = Scan(s, eof)[i + 1] /\ i + 1 \in i + 1 .. Len(s) + 1
    BY <1>0, <1>3, <1>11
  <2>2. Finds(s, t, eof, i + 1, e)
    BY <1>6, <1>11, <2>1
  <2>3. ASSUME NEW f \in Int, Blank(t, i, f) PROVE f >= Len(s) /\ Open(s, eof, f)
    <3>1. i = Len(s) /\ Open(s, eof, i)
      BY <1>4, <1>11, <2>3 DEF Blank, LineEnd
    <3>2. f \in i + 1 .. Len(t)
      BY <1>0, <2>3, BlankRange
    <3> QED BY <1>0, <3>1, <3>2 DEF Open
  <2>4. \A q \in i .. Len(t) : q = i \/ q \in i + 1 .. Len(t)
    BY <1>0
  <2> QED BY <1>0, <2>1, <2>2, <2>3, <2>4 DEF Finds, e
<1> QED BY <1>1, <1>9, <1>10, <1>11 DEF e

\* The search finds the first end of a blank line (delimiter_end).
LEMMA ScanFinds ==
  ASSUME NEW s \in Seq(Byte), NEW t \in Seq(Byte), Begins(s, t), NEW eof \in BOOLEAN,
         eof => Len(t) = Len(s), NEW i \in 1 .. Len(s) + 1, Starts(s, i)
  PROVE  Finds(s, t, eof, i, Scan(s, eof)[i])
<1> DEFINE L == Len(s) + 1
           T == {k \in 1 .. L : Starts(s, k) => Finds(s, t, eof, k, Scan(s, eof)[k])}
<1>0. L \in Nat /\ 1 \in Int /\ L \in Int /\ Len(t) \in Nat /\ Len(s) <= Len(t)
  BY DEF Begins
<1>1. ASSUME NEW k \in 1 .. L, \A m \in k + 1 .. L : m \in T PROVE k \in T
  <2>1. CASE k = L
    <3>1. Scan(s, eof)[L] = 0
      BY <1>0, ScanRecursion DEF At
    <3>2. ASSUME NEW q \in L .. Len(t), NEW f \in Int, Blank(t, q, f)
          PROVE  Open(s, eof, f)
      <4>1. f \in q + 1 .. Len(t)
        BY <1>0, <3>2, BlankRange
      <4> QED BY <1>0, <4>1 DEF Open
    <3> QED BY <1>0, <2>1, <3>1, <3>2 DEF Finds
  <2>2. CASE k # L
    <3>1. k \in 1 .. Len(s)
      BY <1>0, <2>2
    <3>2. \A j \in k + 1 .. L : Starts(s, j) => Finds(s, t, eof, j, Scan(s, eof)[j])
      BY <1>1
    <3> QED BY <3>1, <3>2, RoundFinds
  <2> QED BY <2>1, <2>2
<1>2. \A k \in 1 .. L : k \in T
  <2> HIDE DEF T, L
  <2>1. \A k \in 1 .. L : (\A m \in k + 1 .. L : m \in T) => k \in T
    BY <1>1
  <2> QED BY <1>0, <2>1, DownwardInduction, Zenon
<1> QED BY <1>2

\* The end the search finds lies within the buffer, beyond where it began.
LEMMA DelimiterEndRange ==
  ASSUME NEW s \in Seq(Byte), NEW from \in 0 .. Len(s), NEW eof \in BOOLEAN,
         Starts(s, from + 1)
  PROVE  /\ DelimiterEnd(s, from, eof) \in 0 .. Len(s)
         /\ DelimiterEnd(s, from, eof) # 0 => DelimiterEnd(s, from, eof) > from + 1
<1>1. Begins(s, s) /\ from + 1 \in 1 .. Len(s) + 1
  BY DEF Begins
<1>2. Finds(s, s, eof, from + 1, Scan(s, eof)[from + 1])
  BY <1>1, ScanFinds
<1>3. DelimiterEnd(s, from, eof) = Scan(s, eof)[from + 1]
  BY DelimiterEndIsScan
<1> DEFINE e == Scan(s, eof)[from + 1]
<1> HIDE DEF e
<1>4. e # 0 => e > from + 1
  <2> SUFFICES ASSUME e # 0 PROVE e > from + 1
    OBVIOUS
  <2>1. PICK p \in from + 1 .. Len(s) : Blank(s, p, e)
    BY <1>2 DEF Finds, e
  <2>2. e \in p + 1 .. Len(s)
    BY <2>1, BlankRange
  <2> QED BY <2>1, <2>2
<1> QED BY <1>2, <1>3, <1>4 DEF Finds, e

\* Where no blank line begins, the search may as well begin later.
LEMMA FindsFromLater ==
  ASSUME NEW s \in Seq(Byte), NEW t \in Seq(Byte), NEW eof \in BOOLEAN,
         NEW i \in 1 .. Len(t) + 1, NEW j \in i .. Len(t) + 1, NEW d, NEW e,
         Finds(s, t, eof, i, d), Finds(s, t, eof, j, e),
         \A q \in i .. j - 1, f \in Int : ~Blank(t, q, f)
  PROVE  d = e
<1>0. d \in Int /\ e \in Int /\ Len(t) \in Nat
  BY DEF Finds
<1>1. CASE d = 0 /\ e # 0
  <2>1. PICK p \in j .. Len(t) : Blank(t, p, e)
    BY <1>1 DEF Finds
  <2>2. p \in i .. Len(t)
    BY <2>1
  <2> QED BY <1>0, <1>1, <2>1, <2>2 DEF Finds
<1>2. CASE d # 0
  <2>1. PICK p \in i .. Len(t) : Blank(t, p, d)
    BY <1>2 DEF Finds
  <2>2. p \in j .. Len(t)
    BY <1>0, <2>1
  <2>3. e # 0 /\ e <= d
    BY <1>0, <1>2, <2>1, <2>2 DEF Finds
  <2>4. PICK q \in j .. Len(t) : Blank(t, q, e)
    BY <2>3 DEF Finds
  <2>5. d <= e
    BY <1>0, <1>2, <2>4 DEF Finds
  <2> QED BY <1>0, <2>3, <2>5
<1> QED BY <1>1, <1>2

\* Where the search goes on when s has been searched and more bytes have arrived.
RescanFrom(s) ==
  LET from == Below(Len(s), 4)
  IN IF from > 0 /\ s[from] = CR /\ s[from + 1] = LF THEN from - 1 ELSE from

\* The search goes on within what was searched, never between CR and LF.
LEMMA RescanStarts ==
  ASSUME NEW s \in Seq(Byte), NEW t \in Seq(Byte), Begins(s, t)
  PROVE  /\ RescanFrom(s) \in 0 .. Len(s)
         /\ RescanFrom(s) = 0 \/ RescanFrom(s) <= Len(s) - 4
         /\ Starts(t, RescanFrom(s) + 1)
BY DecoderAssumption DEF RescanFrom, Below, Starts, Begins

\* If s holds no blank line, then searching its last bytes again is enough.
LEMMA RescanEnough ==
  ASSUME NEW s \in Seq(Byte), NEW t \in Seq(Byte), Begins(s, t),
         DelimiterEnd(s, 0, FALSE) = 0
  PROVE  DelimiterEnd(t, RescanFrom(s), FALSE) = DelimiterEnd(t, 0, FALSE)
<1> DEFINE r == RescanFrom(s)
<1>0. Len(s) \in Nat /\ Len(t) \in Nat /\ Len(s) <= Len(t) /\ Begins(t, t)
  BY DEF Begins
<1>1. r \in 0 .. Len(s) /\ (r = 0 \/ r <= Len(s) - 4) /\ Starts(t, r + 1)
  BY RescanStarts
<1>2. Starts(t, 1) /\ Starts(s, 1)
  BY DEF Starts
<1>3. Finds(s, t, FALSE, 1, 0)
  <2>1. Scan(s, FALSE)[1] = 0
    BY DelimiterEndFromStart
  <2>2. 1 \in 1 .. Len(s) + 1
    BY <1>0
  <2> QED BY <1>2, <2>1, <2>2, ScanFinds
<1> HIDE DEF r
<1>4. Finds(t, t, FALSE, 1, Scan(t, FALSE)[1])
  <2>1. 1 \in 1 .. Len(t) + 1
    BY <1>0
  <2> QED BY <1>0, <1>2, <2>1, ScanFinds
<1>5. Finds(t, t, FALSE, r + 1, Scan(t, FALSE)[r + 1])
  <2>1. r + 1 \in 1 .. Len(t) + 1
    BY <1>0, <1>1
  <2> QED BY <1>0, <1>1, <2>1, ScanFinds
<1>6. ASSUME NEW q \in 1 .. Len(t), q <= r, NEW f \in Int PROVE ~Blank(t, q, f)
  <2> SUFFICES ASSUME Blank(t, q, f) PROVE FALSE
    OBVIOUS
  <2>1. f >= Len(s)
    BY <1>0, <1>3 DEF Finds, Open
  <2>2. Width(t, q) \in {1, 2} /\ q + Width(t, q) \in 1 .. Len(t)
    BY WidthRange DEF Blank
  <2>3. Width(t, q + Width(t, q)) \in {1, 2}
    BY <2>2, WidthRange, Zenon
  <2>4. f = q + Width(t, q) + Width(t, q + Width(t, q)) - 1
    BY DEF Blank
  <2> QED BY <1>0, <1>1, <1>6, <2>1, <2>2, <2>3, <2>4
<1>7. Scan(t, FALSE)[1] = Scan(t, FALSE)[r + 1]
  <2>1. 1 \in 1 .. Len(t) + 1 /\ r + 1 \in 1 .. Len(t) + 1
    BY <1>0, <1>1
  <2>2. \A q \in 1 .. (r + 1) - 1, f \in Int : ~Blank(t, q, f)
    BY <1>0, <1>1, <1>6
  <2> QED BY <1>4, <1>5, <2>1, <2>2, FindsFromLater
<1>8. DelimiterEnd(t, r, FALSE) = Scan(t, FALSE)[r + 1]
  BY DelimiterEndIsScan
<1>9. DelimiterEnd(t, 0, FALSE) = Scan(t, FALSE)[1]
  BY DelimiterEndFromStart
<1> QED BY <1>7, <1>8, <1>9 DEF r

-----------------------------------------------------------------------------
(* The frames of a body                                                        *)

FirstEnd(s, b) == CHOOSE e \in FrameEnds(s, b) : \A f \in FrameEnds(s, b) : e <= f

FrameFrom(s, from, b) ==
  IF FrameEnds(s, b) = {} THEN <<>>
  ELSE <<SubSeq(s, b + 1, FirstEnd(s, b))>> \o from[FirstEnd(s, b)]

\* Reference's recursive function: the frames of s after its first b bytes.
From(s) == CHOOSE from : from = [b \in 0 .. Len(s) |-> FrameFrom(s, from, b)]

\* The reference division is the value of its recursive function at 0.
LEMMA ReferenceIsFrom ==
  ASSUME NEW s
  PROVE  Reference(s) = From(s)[0]
BY DEF Reference, From, FrameFrom, FirstEnd

\* If a frame ends after b, one of the ends is the first.
LEMMA FirstEndIsFirst ==
  ASSUME NEW s \in Seq(Byte), NEW b \in 0 .. Len(s), FrameEnds(s, b) # {}
  PROVE  /\ FirstEnd(s, b) \in FrameEnds(s, b) /\ FirstEnd(s, b) \in b + 1 .. Len(s)
         /\ \A f \in FrameEnds(s, b) : FirstEnd(s, b) <= f
<1>1. FrameEnds(s, b) \subseteq b + 1 .. Len(s)
  BY DEF FrameEnds
<1>2. FrameEnds(s, b) \subseteq Nat
  BY <1>1
<1>3. \E e \in FrameEnds(s, b) : \A f \in FrameEnds(s, b) : e <= f
  BY <1>2, LeastElement, Zenon
<1>4. FirstEnd(s, b) \in FrameEnds(s, b) /\ \A f \in FrameEnds(s, b) : FirstEnd(s, b) <= f
  BY <1>3, Zenon DEF FirstEnd
<1> QED BY <1>1, <1>4

\* A function with the recursion equation of the reference division exists.
LEMMA FromExists ==
  ASSUME NEW s \in Seq(Byte)
  PROVE  \E g : g = [b \in 0 .. Len(s) |-> FrameFrom(s, g, b)]
<1> DEFINE L == Len(s)
           T == {k \in 0 .. L : \E g : g = [b \in k .. L |-> FrameFrom(s, g, b)]}
<1>0. L \in Nat /\ 0 \in Int /\ L \in Int
  OBVIOUS
<1>1. ASSUME NEW k \in 0 .. L, \A m \in k + 1 .. L : m \in T PROVE k \in T
  <2>1. PICK g : k = L \/ g = [b \in k + 1 .. L |-> FrameFrom(s, g, b)]
    <3>1. CASE k = L
      BY <3>1
    <3>2. CASE k # L
      <4>1. k + 1 \in k + 1 .. L
        BY <1>0, <3>2
      <4>2. k + 1 \in T
        BY <1>1, <4>1
      <4> QED BY <4>2
    <3> QED BY <3>1, <3>2
  <2> DEFINE h == [b \in k .. L |-> IF b = k THEN FrameFrom(s, g, b) ELSE g[b]]
  <2>2. ASSUME NEW b \in k .. L PROVE h[b] = FrameFrom(s, h, b)
    <3>1. \A c \in b + 1 .. L : h[c] = g[c]
      BY <1>0
    <3>2. FrameFrom(s, h, b) = FrameFrom(s, g, b)
      <4>1. CASE FrameEnds(s, b) = {}
        BY <4>1, Zenon DEF FrameFrom
      <4>2. CASE FrameEnds(s, b) # {}
        <5>1. FirstEnd(s, b) \in b + 1 .. L
          BY <1>0, <4>2, FirstEndIsFirst
        <5>2. h[FirstEnd(s, b)] = g[FirstEnd(s, b)]
          BY <3>1, <5>1, Zenon
        <5> HIDE DEF h
        <5> QED BY <5>2, Zenon DEF FrameFrom
      <4> QED BY <4>1, <4>2
    <3>3. CASE b = k
      BY <3>2, <3>3
    <3>4. CASE b # k
      <4>1. b \in k + 1 .. L /\ k # L
        BY <3>4, <1>0
      <4>2. g[b] = FrameFrom(s, g, b)
        BY <2>1, <4>1
      <4> QED BY <3>2, <3>4, <4>2
    <3> QED BY <3>3, <3>4
  <2>3. h = [b \in k .. L |-> FrameFrom(s, h, b)]
    BY <2>2
  <2> QED BY <2>3
<1>2. \A k \in 0 .. L : k \in T
  <2> HIDE DEF T, L
  <2>1. \A k \in 0 .. L : (\A m \in k + 1 .. L : m \in T) => k \in T
    BY <1>1
  <2> QED BY <1>0, <2>1, DownwardInduction, Zenon
<1>3. 0 \in T
  BY <1>0, <1>2
<1> QED BY <1>3

\* The recursion equation of the reference division.
LEMMA FromRecursion ==
  ASSUME NEW s \in Seq(Byte), NEW b \in 0 .. Len(s)
  PROVE  From(s)[b] = FrameFrom(s, From(s), b)
<1>1. From(s) = [c \in 0 .. Len(s) |-> FrameFrom(s, From(s), c)]
  BY FromExists, Zenon DEF From
<1> QED BY <1>1, Zenon

\* One element in front of a sequence.
LEMMA Prepended ==
  ASSUME NEW S, NEW x \in S, NEW ss \in Seq(S)
  PROVE  <<x>> \o ss \in Seq(S)
<1>1. <<x>> \in Seq(S)
  OBVIOUS
<1> QED BY <1>1, ConcatProperties

\* The reference division is a sequence of sequences of bytes.
LEMMA FromType ==
  ASSUME NEW s \in Seq(Byte), NEW b \in 0 .. Len(s)
  PROVE  From(s)[b] \in Seq(Seq(Byte))
<1> DEFINE L == Len(s)
           T == {k \in 0 .. L : From(s)[k] \in Seq(Seq(Byte))}
<1>0. L \in Nat /\ 0 \in Int /\ L \in Int
  OBVIOUS
<1>1. ASSUME NEW k \in 0 .. L, \A m \in k + 1 .. L : m \in T PROVE k \in T
  <2>1. From(s)[k] = FrameFrom(s, From(s), k)
    BY FromRecursion
  <2>2. CASE FrameEnds(s, k) = {}
    <3>1. From(s)[k] = <<>>
      BY <2>1, <2>2, Zenon DEF FrameFrom
    <3>2. <<>> \in Seq(Seq(Byte))
      BY EmptySeq, Zenon
    <3> QED BY <3>1, <3>2
  <2>3. CASE FrameEnds(s, k) # {}
    <3>1. FirstEnd(s, k) \in k + 1 .. L
      BY <2>3, FirstEndIsFirst
    <3>2. From(s)[FirstEnd(s, k)] \in Seq(Seq(Byte))
      BY <1>1, <3>1
    <3>3. SubSeq(s, k + 1, FirstEnd(s, k)) \in Seq(Byte)
      BY <1>0, <3>1
    <3>4. From(s)[k] = <<SubSeq(s, k + 1, FirstEnd(s, k))>> \o From(s)[FirstEnd(s, k)]
      BY <2>1, <2>3, Zenon DEF FrameFrom
    <3> QED BY <3>2, <3>3, <3>4, Prepended, Zenon
  <2> QED BY <2>2, <2>3
<1>2. \A k \in 0 .. L : k \in T
  <2> HIDE DEF T, L
  <2>1. \A k \in 0 .. L : (\A m \in k + 1 .. L : m \in T) => k \in T
    BY <1>1
  <2> QED BY <1>0, <2>1, DownwardInduction, Zenon
<1> QED BY <1>2

\* The frames after b are told from what follows b alone.
LEMMA EndsOfRest ==
  ASSUME NEW s \in Seq(Byte), NEW b \in 0 .. Len(s), NEW t \in Seq(Byte),
         Len(t) = Len(s) - b, \A i \in 1 .. Len(t) : t[i] = s[b + i], NEW e \in 1 .. Len(t)
  PROVE  b + e \in FrameEnds(s, b) <=> \E p \in 1 .. Len(t) : Blank(t, p, e)
<1>0. Len(s) \in Nat /\ Len(t) \in Nat
  OBVIOUS
<1>1. ASSUME NEW p \in 1 .. Len(t)
      PROVE  /\ LineEnd(s, b, b + p) <=> LineEnd(t, 0, p)
             /\ Width(s, b + p) = Width(t, p) /\ Width(t, p) \in {1, 2}
             /\ t[p] = s[b + p]
  <2>1. t[p] = s[b + p]
    BY <1>0
  <2>2. p > 1 => t[p - 1] = s[(b + p) - 1]
    <3> SUFFICES ASSUME p > 1 PROVE t[p - 1] = s[(b + p) - 1]
      OBVIOUS
    <3>1. p - 1 \in 1 .. Len(t) /\ b + (p - 1) = (b + p) - 1
      BY <1>0
    <3> QED BY <3>1
  <2>3. p < Len(t) => t[p + 1] = s[(b + p) + 1]
    <3> SUFFICES ASSUME p < Len(t) PROVE t[p + 1] = s[(b + p) + 1]
      OBVIOUS
    <3>1. p + 1 \in 1 .. Len(t) /\ b + (p + 1) = (b + p) + 1
      BY <1>0
    <3> QED BY <3>1
  <2>4. LineEnd(s, b, b + p) <=> LineEnd(t, 0, p)
    BY <1>0, <2>1, <2>2 DEF LineEnd
  <2>5. Width(s, b + p) = Width(t, p) /\ Width(t, p) \in {1, 2}
    BY <1>0, <2>1, <2>3 DEF Width
  <2> QED BY <2>1, <2>4, <2>5
<1>2. ASSUME NEW p \in 1 .. Len(t), Blank(t, p, e)
      PROVE  b + e \in FrameEnds(s, b)
  <2> DEFINE q == p + Width(t, p)
  <2>1. q \in p + 1 .. Len(t) /\ t[q] \in {CR, LF} /\ e = q + Width(t, q) - 1
    BY <1>0, <1>1, <1>2 DEF Blank
  <2>2. (b + p) + Width(s, b + p) = b + q
    <3>1. Width(s, b + p) = Width(t, p) /\ Width(t, p) \in {1, 2}
      BY <1>1
    <3> QED BY <1>0, <3>1
  <2> HIDE DEF q
  <2>3. /\ Width(s, b + q) = Width(t, q) /\ Width(t, q) \in {1, 2} /\ t[q] = s[b + q]
    BY <1>1, <2>1
  <2>4. LineEnd(s, b, b + p)
    BY <1>1, <1>2 DEF Blank
  <2>5. /\ b + p \in b + 1 .. b + e /\ b + q <= b + e
        /\ b + e = (b + q) + Width(s, b + q) - 1 /\ b + e \in b + 1 .. Len(s)
    <3>1. Len(t) = Len(s) - b /\ b \in Nat /\ p \in Nat /\ p >= 1 /\ q \in Nat /\ p < q
      BY <1>0, <2>1
    <3>2. PICK w \in {1, 2} : Width(s, b + q) = w /\ e = q + w - 1
      BY <2>1, <2>3
    <3>3. e \in Nat /\ q <= e /\ e <= Len(t) /\ e >= 1
      BY <1>0, <3>1, <3>2
    <3>4. b + e = (b + q) + w - 1
      BY <3>1, <3>2
    <3>5. /\ b + p \in b + 1 .. b + e /\ b + q <= b + e /\ b + e \in b + 1 .. Len(s)
      BY <1>0, <3>1, <3>3
    <3> QED BY <3>2, <3>4, <3>5
  <2> QED BY <2>1, <2>2, <2>3, <2>4, <2>5 DEF FrameEnds
<1>3. ASSUME NEW i \in b + 1 .. b + e,
             LineEnd(s, b, i), i + Width(s, i) <= b + e, s[i + Width(s, i)] \in {CR, LF},
             b + e = i + Width(s, i) + Width(s, i + Width(s, i)) - 1
      PROVE  i - b \in 1 .. Len(t) /\ Blank(t, i - b, e)
  <2> DEFINE p == i - b
             q == p + Width(t, p)
  <2>1. p \in 1 .. Len(t) /\ i = b + p
    BY <1>0
  <2>2. /\ LineEnd(t, 0, p) /\ Width(s, i) = Width(t, p) /\ Width(t, p) \in {1, 2}
    BY <1>1, <1>3, <2>1
  <2>3. q \in 1 .. Len(t) /\ i + Width(s, i) = b + q
    <3>1. i + Width(t, p) <= b + e /\ Width(t, p) \in {1, 2} /\ Width(s, i) = Width(t, p)
      BY <1>3, <2>2, Zenon
    <3> QED BY <1>0, <2>1, <3>1
  <2> HIDE DEF q
  <2>4. Width(s, b + q) = Width(t, q) /\ Width(t, q) \in {1, 2} /\ t[q] = s[b + q]
    BY <1>1, <2>3
  <2>5. t[q] \in {CR, LF} /\ e = q + Width(t, q) - 1
    BY <1>0, <1>3, <2>3, <2>4
  <2> QED BY <1>0, <2>1, <2>2, <2>3, <2>5 DEF Blank, q
<1> QED BY <1>2, <1>3 DEF FrameEnds

\* x is the buffer when b bytes of s have been decoded, all the rest at the end, and
\* a search in it ends with d.
Buffered(s, b, x, eof, d) ==
  /\ d = DelimiterEnd(x, 0, eof)
  /\ s \in Seq(Byte) /\ b \in 0 .. Len(s) /\ x \in Seq(Byte) /\ eof \in BOOLEAN
  /\ Len(x) <= Len(s) - b /\ \A i \in 1 .. Len(x) : x[i] = s[b + i]
  /\ eof => Len(x) = Len(s) - b

\* The search in a buffer and the frames of the body agree: the end it finds is the
\* end of the next frame, and a frame it does not find ends with the buffer's last
\* byte or later.
LEMMA FrameFound ==
  ASSUME NEW s, NEW b, NEW x, NEW eof, NEW d, Buffered(s, b, x, eof, d)
  PROVE  /\ d \in 0 .. Len(x)
         /\ d # 0 => FrameEnds(s, b) # {} /\ FirstEnd(s, b) = b + d
         /\ d = 0 => \A f \in FrameEnds(s, b) : ~eof /\ f - b >= Len(x)
<1> USE DEF Buffered
<1> DEFINE t == SubSeq(s, b + 1, Len(s))
<1>0. Len(s) \in Nat /\ Len(x) \in Nat
  OBVIOUS
<1>1. /\ t \in Seq(Byte) /\ Len(t) = Len(s) - b
      /\ \A i \in 1 .. Len(t) : t[i] = s[b + i]
  OBVIOUS
<1> HIDE DEF t
<1>2. Begins(x, t) /\ (eof => Len(t) = Len(x))
  BY <1>0, <1>1 DEF Begins
<1>3. Finds(x, t, eof, 1, d)
  <2>1. d = Scan(x, eof)[1]
    BY DelimiterEndFromStart
  <2>2. Starts(x, 1) /\ 1 \in 1 .. Len(x) + 1
    BY <1>0 DEF Starts
  <2> QED BY <1>1, <1>2, <2>1, <2>2, ScanFinds
<1>4. d \in 0 .. Len(x)
  BY <1>3 DEF Finds
<1>5. ASSUME NEW f \in FrameEnds(s, b)
      PROVE  f - b \in Int /\ \E q \in 1 .. Len(t) : Blank(t, q, f - b)
  <2>1. f \in b + 1 .. Len(s)
    BY DEF FrameEnds
  <2>2. PICK e \in 1 .. Len(t) : e = f - b /\ b + e = f
    <3>1. f \in Nat /\ b + 1 <= f /\ f <= Len(s) /\ b \in Nat /\ Len(t) = Len(s) - b
      BY <1>0, <1>1, <2>1
    <3>2. f - b \in 1 .. Len(t) /\ b + (f - b) = f
      BY <1>0, <3>1
    <3> QED BY <3>2, Zenon
  <2>3. \E q \in 1 .. Len(t) : Blank(t, q, e)
    BY <1>1, <2>2, EndsOfRest
  <2> QED BY <2>2, <2>3
<1>6. CASE d = 0
  <2>1. ASSUME NEW f \in FrameEnds(s, b) PROVE ~eof /\ f - b >= Len(x)
    BY <1>0, <1>3, <1>5, <1>6 DEF Finds, Open
  <2> QED BY <1>4, <1>6, <2>1
<1>7. CASE d # 0
  <2>1. PICK p \in 1 .. Len(t) : Blank(t, p, d)
    BY <1>3, <1>7 DEF Finds
  <2>2. d \in 1 .. Len(t)
    BY <1>0, <1>1, <1>4, <1>7
  <2>3. b + d \in FrameEnds(s, b)
    BY <1>1, <2>1, <2>2, EndsOfRest
  <2>4. ASSUME NEW f \in FrameEnds(s, b) PROVE b + d <= f
    <3>1. d <= f - b /\ f - b \in Int
      BY <1>3, <1>5, <1>7 DEF Finds
    <3>2. f \in Int
      BY DEF FrameEnds
    <3> QED BY <1>4, <3>1, <3>2
  <2>5. FirstEnd(s, b) = b + d
    <3>1. /\ FirstEnd(s, b) \in FrameEnds(s, b) /\ FirstEnd(s, b) \in b + 1 .. Len(s)
          /\ FirstEnd(s, b) <= b + d
      BY <2>3, FirstEndIsFirst
    <3>2. b + d <= FirstEnd(s, b)
      BY <2>4, <3>1
    <3> QED BY <1>4, <3>1, <3>2
  <2> QED BY <1>4, <1>7, <2>3, <2>5
<1> QED BY <1>6, <1>7

\* The d elements after the first b.
LEMMA Slice ==
  ASSUME NEW S, NEW s \in Seq(S), NEW b \in 0 .. Len(s), NEW d \in 0 .. Len(s) - b
  PROVE  /\ SubSeq(s, b + 1, b + d) \in Seq(S) /\ Len(SubSeq(s, b + 1, b + d)) = d
         /\ \A i \in 1 .. d : SubSeq(s, b + 1, b + d)[i] = s[b + i]
<1>1. \A i \in b + 1 .. b + d : s[i] \in S
  OBVIOUS
<1>2. /\ SubSeq(s, b + 1, b + d) \in Seq(S)
      /\ Len(SubSeq(s, b + 1, b + d)) = IF b + 1 <= b + d THEN (b + d) - (b + 1) + 1 ELSE 0
      /\ \A i \in 1 .. (b + d) - (b + 1) + 1 : SubSeq(s, b + 1, b + d)[i] = s[(b + 1) + i - 1]
  BY <1>1, SubSeqProperties
<1>3. (b + d) - (b + 1) + 1 = d /\ (b + 1 <= b + d <=> 1 <= d) /\ b \in Nat /\ d \in Nat
  OBVIOUS
<1>4. \A i \in 1 .. d : (b + 1) + i - 1 = b + i
  BY <1>3
<1> QED BY <1>2, <1>3, <1>4

\* What the search ends is the next frame of the body.
LEMMA FrameTaken ==
  ASSUME NEW s, NEW b, NEW x, NEW eof, NEW d, Buffered(s, b, x, eof, d), d # 0
  PROVE  /\ d \in 1 .. Len(x) /\ b + d \in 0 .. Len(s)
         /\ From(s)[b] = <<SubSeq(x, 1, d)>> \o From(s)[b + d]
         /\ From(s)[b + d] \in Seq(Seq(Byte)) /\ SubSeq(x, 1, d) \in Seq(Byte)
<1>1. d \in 0 .. Len(x) /\ d # 0 /\ FrameEnds(s, b) # {} /\ FirstEnd(s, b) = b + d
  BY FrameFound, Zenon
<1> USE DEF Buffered
<1>2. d \in 1 .. Len(x) /\ b + d \in 0 .. Len(s)
  BY <1>1
<1>3. From(s)[b] = <<SubSeq(s, b + 1, b + d)>> \o From(s)[b + d]
  BY <1>1, FromRecursion, Zenon DEF FrameFrom
<1>4. SubSeq(s, b + 1, b + d) = SubSeq(x, 1, d)
  <2>1. b \in 0 .. Len(s) /\ d \in 0 .. Len(s) - b
    BY <1>2
  <2>2. /\ SubSeq(s, b + 1, b + d) \in Seq(Byte) /\ Len(SubSeq(s, b + 1, b + d)) = d
        /\ \A i \in 1 .. d : SubSeq(s, b + 1, b + d)[i] = s[b + i]
    BY <2>1, Slice
  <2>3. /\ SubSeq(x, 1, d) \in Seq(Byte) /\ Len(SubSeq(x, 1, d)) = d
        /\ \A i \in 1 .. d : SubSeq(x, 1, d)[i] = x[i]
    BY <1>2
  <2>4. \A i \in 1 .. d : x[i] = s[b + i]
    BY <1>2
  <2> DEFINE y == SubSeq(s, b + 1, b + d)
             z == SubSeq(x, 1, d)
  <2>5. /\ y \in Seq(Byte) /\ z \in Seq(Byte) /\ Len(y) = Len(z)
        /\ \A i \in 1 .. Len(y) : y[i] = z[i]
    BY <2>2, <2>3, <2>4
  <2> HIDE DEF y, z
  <2>6. y = z
    BY <2>5, SeqEqual
  <2> QED BY <2>6 DEF y, z
<1>5. From(s)[b + d] \in Seq(Seq(Byte)) /\ SubSeq(x, 1, d) \in Seq(Byte)
  BY <1>2, FromType
<1> QED BY <1>2, <1>3, <1>4, <1>5, Zenon

\* When the search ends without a frame, the body has none left, or more of it has
\* to arrive and the next frame is no shorter than the buffer.
LEMMA NoFrame ==
  ASSUME NEW s, NEW b, NEW x, NEW eof, Buffered(s, b, x, eof, 0), From(s)[b] # <<>>
  PROVE  ~eof /\ \E y \in Seq(Byte), ss \in Seq(Seq(Byte)) :
                     From(s)[b] = <<y>> \o ss /\ Len(y) >= Len(x)
<1>0. \A f \in FrameEnds(s, b) : ~eof /\ f - b >= Len(x)
  BY FrameFound, Zenon
<1> USE DEF Buffered
<1>1. FrameEnds(s, b) # {}
  BY FromRecursion, Zenon DEF FrameFrom
<1>2. FirstEnd(s, b) \in FrameEnds(s, b) /\ FirstEnd(s, b) \in b + 1 .. Len(s)
  BY <1>1, FirstEndIsFirst
<1>3. ~eof /\ FirstEnd(s, b) - b >= Len(x)
  BY <1>0, <1>2
<1>4. From(s)[b] = <<SubSeq(s, b + 1, FirstEnd(s, b))>> \o From(s)[FirstEnd(s, b)]
  BY <1>1, FromRecursion, Zenon DEF FrameFrom
<1>5. From(s)[FirstEnd(s, b)] \in Seq(Seq(Byte))
  BY <1>2, FromType
<1>6. /\ SubSeq(s, b + 1, FirstEnd(s, b)) \in Seq(Byte)
      /\ Len(SubSeq(s, b + 1, FirstEnd(s, b))) >= Len(x)
  BY <1>2, <1>3
<1> QED BY <1>3, <1>4, <1>5, <1>6

\* After the end of the body there is nothing.
LEMMA NothingAfterEnd ==
  ASSUME NEW s \in Seq(Byte)
  PROVE  From(s)[Len(s)] = <<>>
<1>1. Len(s) \in 0 .. Len(s) /\ FrameEnds(s, Len(s)) = {}
  BY DEF FrameEnds
<1> QED BY <1>1, FromRecursion DEF FrameFrom

-----------------------------------------------------------------------------
(* Frames put together again                                                   *)

JoinUpto(ss, upto, n) == IF n = 0 THEN <<>> ELSE upto[n - 1] \o ss[n]

\* Joined's recursive function: the first n sequences of ss, one after the other.
Upto(ss) == CHOOSE upto : upto = [n \in 0 .. Len(ss) |-> JoinUpto(ss, upto, n)]

\* Joined is the value of its recursive function at the number of sequences.
LEMMA JoinedIsUpto ==
  ASSUME NEW ss
  PROVE  Joined(ss) = Upto(ss)[Len(ss)]
BY DEF Joined, Upto, JoinUpto

\* A function with the recursion equation of Joined exists.
LEMMA UptoExists ==
  ASSUME NEW ss \in Seq(Seq(Byte))
  PROVE  \E g : g = [n \in 0 .. Len(ss) |-> JoinUpto(ss, g, n)]
<1> DEFINE T == {k \in Nat : \E g : g = [n \in 0 .. k |-> JoinUpto(ss, g, n)]}
<1>1. 0 \in T
  <2> DEFINE g == [n \in 0 .. 0 |-> <<>>]
  <2>1. \A n \in 0 .. 0 : JoinUpto(ss, g, n) = <<>>
    BY DEF JoinUpto
  <2>2. g = [n \in 0 .. 0 |-> JoinUpto(ss, g, n)]
    BY <2>1, Zenon
  <2> QED BY <2>2
<1>2. ASSUME NEW k \in Nat, k \in T PROVE k + 1 \in T
  <2>1. PICK g : g = [n \in 0 .. k |-> JoinUpto(ss, g, n)]
    BY <1>2
  <2> DEFINE h == [n \in 0 .. k + 1 |-> IF n = k + 1 THEN JoinUpto(ss, g, n) ELSE g[n]]
  <2>2. ASSUME NEW n \in 0 .. k + 1 PROVE h[n] = JoinUpto(ss, h, n)
    <3>1. JoinUpto(ss, h, n) = JoinUpto(ss, g, n)
      <4>1. CASE n = 0
        BY <4>1, Zenon DEF JoinUpto
      <4>2. CASE n # 0
        <5>1. h[n - 1] = g[n - 1]
          BY <4>2
        <5> HIDE DEF h
        <5> QED BY <4>2, <5>1, Zenon DEF JoinUpto
      <4> QED BY <4>1, <4>2
    <3>2. CASE n = k + 1
      BY <3>1, <3>2
    <3>3. CASE n # k + 1
      <4>1. n \in 0 .. k
        BY <3>3
      <4>2. g[n] = JoinUpto(ss, g, n)
        BY <2>1, <4>1
      <4> QED BY <3>1, <3>3, <4>2
    <3> QED BY <3>2, <3>3
  <2>3. h = [n \in 0 .. k + 1 |-> JoinUpto(ss, h, n)]
    BY <2>2
  <2> HIDE DEF h
  <2>4. k + 1 \in Nat /\ \E f : f = [n \in 0 .. k + 1 |-> JoinUpto(ss, f, n)]
    BY <2>3
  <2> QED BY <2>4, Zenon
<1>3. \A k \in Nat : k \in T
  <2> HIDE DEF T
  <2> QED BY <1>1, <1>2, UpwardInduction
<1>4. Len(ss) \in T
  BY <1>3
<1> QED BY <1>4

\* The recursion equation of Joined.
LEMMA UptoRecursion ==
  ASSUME NEW ss \in Seq(Seq(Byte)), NEW n \in 0 .. Len(ss)
  PROVE  Upto(ss)[n] = JoinUpto(ss, Upto(ss), n)
<1>1. Upto(ss) = [m \in 0 .. Len(ss) |-> JoinUpto(ss, Upto(ss), m)]
  BY UptoExists, Zenon DEF Upto
<1> QED BY <1>1, Zenon

\* The first n sequences join to a sequence of bytes.
LEMMA UptoType ==
  ASSUME NEW ss \in Seq(Seq(Byte)), NEW n \in 0 .. Len(ss)
  PROVE  Upto(ss)[n] \in Seq(Byte)
<1> DEFINE T == {k \in Nat : k <= Len(ss) => Upto(ss)[k] \in Seq(Byte)}
<1>1. 0 \in T
  <2>1. Upto(ss)[0] = <<>>
    BY UptoRecursion DEF JoinUpto
  <2> QED BY <2>1, EmptySeq
<1>2. ASSUME NEW k \in Nat, k \in T PROVE k + 1 \in T
  <2> SUFFICES ASSUME k + 1 <= Len(ss) PROVE Upto(ss)[k + 1] \in Seq(Byte)
    OBVIOUS
  <2>1. k + 1 \in 0 .. Len(ss) /\ k + 1 # 0 /\ (k + 1) - 1 = k /\ k + 1 \in 1 .. Len(ss)
    OBVIOUS
  <2>2. Upto(ss)[k + 1] = Upto(ss)[k] \o ss[k + 1]
    BY <2>1, UptoRecursion DEF JoinUpto
  <2>3. Upto(ss)[k] \in Seq(Byte) /\ ss[k + 1] \in Seq(Byte)
    BY <1>2, <2>1
  <2> QED BY <2>2, <2>3
<1>3. \A k \in Nat : k \in T
  <2> HIDE DEF T
  <2> QED BY <1>1, <1>2, UpwardInduction
<1> QED BY <1>3

\* Sequences of bytes join to a sequence of bytes.
LEMMA JoinedType ==
  ASSUME NEW ss \in Seq(Seq(Byte))
  PROVE  Joined(ss) \in Seq(Byte)
<1>1. Len(ss) \in 0 .. Len(ss)
  OBVIOUS
<1> QED BY <1>1, JoinedIsUpto, UptoType

\* No sequences join to the empty one.
LEMMA JoinedEmpty == Joined(<<>>) = <<>>
<1>1. <<>> \in Seq(Seq(Byte)) /\ Len(<<>>) = 0
  OBVIOUS
<1>2. 0 \in 0 .. Len(<<>>)
  BY <1>1
<1>3. Upto(<<>>)[0] = <<>>
  BY <1>1, <1>2, UptoRecursion DEF JoinUpto
<1> QED BY <1>1, <1>3, JoinedIsUpto

\* Concatenation of bytes is associative.
LEMMA Regroup ==
  ASSUME NEW x \in Seq(Byte), NEW y \in Seq(Byte), NEW z \in Seq(Byte)
  PROVE  (x \o y) \o z = x \o (y \o z)
OBVIOUS

\* Concatenation of frames is associative.
LEMMA RegroupFrames ==
  ASSUME NEW ss \in Seq(Seq(Byte)), NEW tt \in Seq(Seq(Byte)), NEW uu \in Seq(Seq(Byte))
  PROVE  ss \o (tt \o uu) = (ss \o tt) \o uu
OBVIOUS

\* Joining two lists of frames joins what each of them joins to.
LEMMA JoinedConcat ==
  ASSUME NEW ss \in Seq(Seq(Byte)), NEW tt \in Seq(Seq(Byte))
  PROVE  Joined(ss \o tt) = Joined(ss) \o Joined(tt)
<1> DEFINE st == ss \o tt
           L  == Len(ss)
           T  == {k \in Nat : k <= L => Upto(st)[k] = Upto(ss)[k]}
           U  == {k \in Nat : k <= Len(tt) => Upto(st)[L + k] = Upto(ss)[L] \o Upto(tt)[k]}
<1>0. /\ st \in Seq(Seq(Byte)) /\ L \in Nat /\ Len(tt) \in Nat /\ Len(st) = L + Len(tt)
      /\ \A i \in 1 .. L : st[i] = ss[i]
      /\ \A i \in 1 .. Len(tt) : st[L + i] = tt[i]
  OBVIOUS
<1> HIDE DEF st
<1>1. 0 \in T
  <2>1. 0 \in 0 .. L /\ 0 \in 0 .. Len(st)
    BY <1>0
  <2>2. Upto(ss)[0] = <<>> /\ Upto(st)[0] = <<>>
    BY <1>0, <2>1, UptoRecursion DEF JoinUpto
  <2> QED BY <2>2
<1>2. ASSUME NEW k \in Nat, k \in T PROVE k + 1 \in T
  <2> SUFFICES ASSUME k + 1 <= L PROVE Upto(st)[k + 1] = Upto(ss)[k + 1]
    OBVIOUS
  <2>1. /\ k + 1 \in 0 .. L /\ k + 1 \in 0 .. Len(st) /\ k + 1 # 0 /\ (k + 1) - 1 = k
        /\ k + 1 \in 1 .. L
    BY <1>0
  <2>2. Upto(ss)[k + 1] = Upto(ss)[k] \o ss[k + 1]
    BY <2>1, UptoRecursion DEF JoinUpto
  <2>3. Upto(st)[k + 1] = Upto(st)[k] \o st[k + 1]
    BY <1>0, <2>1, UptoRecursion DEF JoinUpto
  <2>4. Upto(st)[k] = Upto(ss)[k] /\ st[k + 1] = ss[k + 1]
    BY <1>0, <1>2, <2>1
  <2> QED BY <2>2, <2>3, <2>4
<1>3. \A k \in Nat : k \in T
  <2> HIDE DEF T
  <2> QED BY <1>1, <1>2, UpwardInduction
<1>4. Upto(st)[L] = Upto(ss)[L] /\ Upto(ss)[L] \in Seq(Byte)
  BY <1>0, <1>3, UptoType
<1>5. 0 \in U
  <2>1. 0 \in 0 .. Len(tt) /\ L + 0 = L
    BY <1>0
  <2>2. Upto(tt)[0] = <<>>
    BY <2>1, UptoRecursion DEF JoinUpto
  <2>3. Upto(ss)[L] \o <<>> = Upto(ss)[L]
    BY <1>4, ConcatEmptySeq
  <2> QED BY <1>4, <2>1, <2>2, <2>3
<1>6. ASSUME NEW k \in Nat, k \in U PROVE k + 1 \in U
  <2>0. k + 1 \in Nat
    OBVIOUS
  <2> SUFFICES ASSUME k + 1 <= Len(tt)
               PROVE  Upto(st)[L + (k + 1)] = Upto(ss)[L] \o Upto(tt)[k + 1]
    BY <2>0, Zenon
  <2>1. /\ L + (k + 1) \in 0 .. Len(st) /\ L + (k + 1) # 0 /\ (L + (k + 1)) - 1 = L + k
        /\ k + 1 \in 0 .. Len(tt) /\ k + 1 # 0 /\ (k + 1) - 1 = k /\ k + 1 \in 1 .. Len(tt)
        /\ k \in 0 .. Len(tt)
    BY <1>0
  <2>2. Upto(st)[L + (k + 1)] = Upto(st)[L + k] \o st[L + (k + 1)]
    BY <1>0, <2>1, UptoRecursion DEF JoinUpto
  <2>3. Upto(tt)[k + 1] = Upto(tt)[k] \o tt[k + 1]
    BY <2>1, UptoRecursion DEF JoinUpto
  <2>4. Upto(st)[L + k] = Upto(ss)[L] \o Upto(tt)[k] /\ st[L + (k + 1)] = tt[k + 1]
    <3>1. k <= Len(tt)
      BY <2>1
    <3>2. Upto(st)[L + k] = Upto(ss)[L] \o Upto(tt)[k]
      BY <1>6, <3>1, Zenon
    <3> QED BY <1>0, <2>1, <3>2, Zenon
  <2>5. Upto(tt)[k] \in Seq(Byte) /\ tt[k + 1] \in Seq(Byte)
    BY <2>1, UptoType
  <2>6. (Upto(ss)[L] \o Upto(tt)[k]) \o tt[k + 1] = Upto(ss)[L] \o (Upto(tt)[k] \o tt[k + 1])
    BY <1>4, <2>5, Regroup, Zenon
  <2> QED BY <2>2, <2>3, <2>4, <2>6, Zenon
<1>7. \A k \in Nat : k \in U
  <2> HIDE DEF U
  <2> QED BY <1>5, <1>6, UpwardInduction
<1>8. Upto(st)[L + Len(tt)] = Upto(ss)[L] \o Upto(tt)[Len(tt)]
  <2>1. Len(tt) \in Nat /\ Len(tt) <= Len(tt)
    BY <1>0
  <2>2. Len(tt) \in U
    BY <1>7, <2>1
  <2> QED BY <2>1, <2>2, Zenon
<1>9. Joined(st) = Upto(st)[L + Len(tt)]
  BY <1>0, JoinedIsUpto
<1>10. Joined(ss) = Upto(ss)[L] /\ Joined(tt) = Upto(tt)[Len(tt)]
  BY JoinedIsUpto
<1> QED BY <1>8, <1>9, <1>10 DEF st

\* One sequence joins to itself.
LEMMA JoinedSingle ==
  ASSUME NEW x \in Seq(Byte)
  PROVE  Joined(<<x>>) = x
<1>1. <<x>> \in Seq(Seq(Byte)) /\ Len(<<x>>) = 1 /\ <<x>>[1] = x
  OBVIOUS
<1>2. 1 \in 0 .. Len(<<x>>) /\ 0 \in 0 .. Len(<<x>>) /\ 1 # 0 /\ 1 - 1 = 0
  BY <1>1
<1>3. Upto(<<x>>)[0] = <<>>
  BY <1>1, <1>2, UptoRecursion DEF JoinUpto
<1>4. Upto(<<x>>)[1] = Upto(<<x>>)[0] \o x
  BY <1>1, <1>2, UptoRecursion DEF JoinUpto
<1>5. <<>> \o x = x
  BY ConcatEmptySeq
<1> QED BY <1>1, <1>3, <1>4, <1>5, JoinedIsUpto
=============================================================================
