--------------------------- MODULE SseDecoderProofs ---------------------------
(***************************************************************************)
(* However the chunks are cut, the decoder hands on the frames of the      *)
(* body.  The inductive invariant says where the search stands             *)
(* (Searched), that the frames so far and what is left make up the body    *)
(* and its reference division into frames (Progress), that the frames so   *)
(* far are within the limits (WithinLimits), and that after an error the   *)
(* body is not well formed.                                                *)
(***************************************************************************)
EXTENDS SseScanProofs

Sizes ==
  /\ arrived \in Seq(Byte)
  /\ total + Len(body) = Len(arrived) /\ total <= MaxTotal /\ events <= MaxEvents
  /\ pc \in {"idle", "finished"} => chunk = <<>> /\ found = <<>>
  /\ pc = "finished" => body = <<>> /\ buffer = <<>>

\* Between pieces nothing is overlooked, and the search goes on where it has to;
\* while it goes on, it finds what a search from the start would find.
Searched ==
  /\ pc \in {"idle", "piece"} =>
       DelimiterEnd(buffer, 0, FALSE) = 0 /\ scan_from = RescanFrom(buffer)
  /\ pc = "scan" =>
       /\ Starts(buffer, scan_from + 1)
       /\ DelimiterEnd(buffer, scan_from, FALSE) = DelimiterEnd(buffer, 0, FALSE)

\* F are the frames so far; buf and rest are what is left of the body.
Progress(F, buf, rest) ==
  /\ arrived = Joined(F) \o (buf \o rest)
  /\ Reference(arrived) = F \o From(arrived)[Len(Joined(F))]

WithinLimits(F) ==
  /\ Len(F) = events
  /\ \A n \in 1 .. Len(F) : Len(F[n]) <= MaxFrame
  /\ \A i \in 1 .. Len(Joined(F)) : Joined(F)[i] # Bad

Decoded ==
  /\ pc # "error" => /\ Progress(frames \o found, buffer, chunk \o body)
                     /\ WithinLimits(frames \o found)
  /\ pc = "error" => /\ ~WellFormed(arrived)
                     /\ \E ss \in Seq(Seq(Byte)) : Reference(arrived) = frames \o ss

DecoderInv == TypeOK /\ Sizes /\ BufferBounded /\ Searched /\ Decoded

-----------------------------------------------------------------------------
(* Taking a frame, told of any frames F and any division of what is left       *)

\* What Progress says of lengths and of single bytes.
LEMMA ProgressFacts ==
  ASSUME NEW F \in Seq(Seq(Byte)), NEW buf \in Seq(Byte), NEW rest \in Seq(Byte),
         arrived \in Seq(Byte), Progress(F, buf, rest)
  PROVE  /\ Len(Joined(F)) \in 0 .. Len(arrived) /\ Joined(F) \in Seq(Byte)
         /\ Len(buf) + Len(rest) = Len(arrived) - Len(Joined(F))
         /\ \A i \in 1 .. Len(buf) : buf[i] = arrived[Len(Joined(F)) + i]
         /\ \A i \in 1 .. Len(Joined(F)) : Joined(F)[i] = arrived[i]
         /\ From(arrived)[Len(Joined(F))] \in Seq(Seq(Byte))
<1> DEFINE J == Joined(F)
<1>1. J \in Seq(Byte)
  BY JoinedType
<1> HIDE DEF J
<1>2. arrived = J \o (buf \o rest)
  BY DEF Progress, J
<1>3. Len(J) \in Nat /\ Len(arrived) = Len(J) + (Len(buf) + Len(rest))
  BY <1>1, <1>2
<1>4. Len(J) \in 0 .. Len(arrived) /\ Len(buf) + Len(rest) = Len(arrived) - Len(J)
  BY <1>3
<1>5. \A i \in 1 .. Len(buf) : buf[i] = arrived[Len(J) + i]
  BY <1>1, <1>2
<1>6. \A i \in 1 .. Len(J) : J[i] = arrived[i]
  BY <1>1, <1>2
<1>7. From(arrived)[Len(J)] \in Seq(Seq(Byte))
  BY <1>4, FromType
<1> QED BY <1>1, <1>4, <1>5, <1>6, <1>7, Zenon DEF J

\* A sequence is its first d elements and the others.
LEMMA Halves ==
  ASSUME NEW s \in Seq(Byte), NEW d \in 0 .. Len(s)
  PROVE  /\ Take(s, d) \in Seq(Byte) /\ Len(Take(s, d)) = d
         /\ Drop(s, d) \in Seq(Byte) /\ Len(Drop(s, d)) = Len(s) - d
         /\ s = Take(s, d) \o Drop(s, d)
<1>1. Take(s, d) \in Seq(Byte) /\ Len(Take(s, d)) = d
  BY DEF Take
<1>2. Drop(s, d) \in Seq(Byte) /\ Len(Drop(s, d)) = Len(s) - d
  BY DEF Drop
<1>3. SubSeq(s, 1, d) \o SubSeq(s, d + 1, Len(s)) = SubSeq(s, 1, Len(s))
  <2>1. 1 \in 1 .. Len(s) + 1 /\ d \in 1 - 1 .. Len(s) /\ Len(s) \in d .. Len(s)
    OBVIOUS
  <2> QED BY <2>1, ConcatAdjacentSubSeq, Zenon
<1>4. SubSeq(s, 1, Len(s)) = s
  BY SubSeqFull
<1> QED BY <1>1, <1>2, <1>3, <1>4 DEF Take, Drop

\* A part is no longer than the whole, and as long if the other part is empty.
LEMMA Parts ==
  ASSUME NEW l \in Nat, NEW r \in Nat, NEW n, l + r = n
  PROVE  l <= n /\ (r = 0 => l = n)
OBVIOUS

\* The search has ended a frame of length d in buf.
Ended(F, buf, rest, eof, d) ==
  /\ F \in Seq(Seq(Byte)) /\ buf \in Seq(Byte) /\ rest \in Seq(Byte)
  /\ arrived \in Seq(Byte) /\ Progress(F, buf, rest)
  /\ eof \in BOOLEAN /\ (eof => rest = <<>>)
  /\ d = DelimiterEnd(buf, 0, eof) /\ d # 0

\* Its d bytes can be moved from buf to the frames.
Moved(F, buf, rest, d) ==
  /\ d \in 1 .. Len(buf) /\ Take(buf, d) \in Seq(Byte) /\ Len(Take(buf, d)) = d
  /\ Drop(buf, d) \in Seq(Byte) /\ Len(Drop(buf, d)) = Len(buf) - d
  /\ Progress(F \o <<Take(buf, d)>>, Drop(buf, d), rest)
  /\ Joined(F \o <<Take(buf, d)>>) = Joined(F) \o Take(buf, d)

\* Taking that frame keeps the progress.
LEMMA ProgressFrame ==
  ASSUME NEW F, NEW buf, NEW rest, NEW eof, NEW d, Ended(F, buf, rest, eof, d)
  PROVE  Moved(F, buf, rest, d)
<1> DEFINE x == Take(buf, d)
           y == Drop(buf, d)
           J == Joined(F)
           b == Len(J)
<1>0. Ended(F, buf, rest, eof, d)
  OBVIOUS
<1>1. F \in Seq(Seq(Byte)) /\ J \in Seq(Byte) /\ buf \in Seq(Byte) /\ rest \in Seq(Byte)
  BY <1>0, JoinedType DEF Ended
<1>2. /\ b \in 0 .. Len(arrived) /\ Len(buf) + Len(rest) = Len(arrived) - b
      /\ \A i \in 1 .. Len(buf) : buf[i] = arrived[b + i]
  BY <1>0, ProgressFacts, Zenon DEF Ended
<1>3. /\ arrived \in Seq(Byte) /\ d # 0 /\ eof \in BOOLEAN /\ (eof => rest = <<>>)
      /\ d = DelimiterEnd(buf, 0, eof) /\ Progress(F, buf, rest)
  BY <1>0 DEF Ended
<1> HIDE DEF J, b
<1>4. Len(buf) <= Len(arrived) - b /\ (eof => Len(buf) = Len(arrived) - b)
  <2>1. Len(buf) \in Nat /\ Len(rest) \in Nat /\ (eof => Len(rest) = 0)
    BY <1>1, <1>3
  <2> QED BY <1>2, <2>1, Parts, Zenon
<1> HIDE DEF x, y
<1>5. /\ d \in 1 .. Len(buf) /\ b + d \in 0 .. Len(arrived)
      /\ From(arrived)[b] = <<x>> \o From(arrived)[b + d]
      /\ From(arrived)[b + d] \in Seq(Seq(Byte)) /\ x \in Seq(Byte)
  <2>1. Buffered(arrived, b, buf, eof, d)
    BY <1>1, <1>2, <1>3, <1>4 DEF Buffered
  <2>2. /\ d \in 1 .. Len(buf) /\ b + d \in 0 .. Len(arrived)
        /\ From(arrived)[b] = <<SubSeq(buf, 1, d)>> \o From(arrived)[b + d]
        /\ From(arrived)[b + d] \in Seq(Seq(Byte)) /\ SubSeq(buf, 1, d) \in Seq(Byte)
    <3>1. d # 0
      BY <1>3
    <3> QED BY <2>1, <3>1, FrameTaken, Zenon
  <2> QED BY <2>2, Zenon DEF x, Take
<1>6. d \in 0 .. Len(buf)
  BY <1>5
<1>7. y \in Seq(Byte) /\ Len(y) = Len(buf) - d /\ Len(x) = d
  BY <1>1, <1>6, Halves DEF x, y
<1>14. buf = x \o y
  BY <1>1, <1>6, Halves DEF x, y
<1>8. <<x>> \in Seq(Seq(Byte))
  BY <1>5
<1>9. Joined(F \o <<x>>) = J \o x
  BY <1>1, <1>5, <1>8, JoinedConcat, JoinedSingle, Zenon DEF J
<1>10. arrived = (J \o x) \o (y \o rest)
  <2>1. arrived = J \o ((x \o y) \o rest)
    BY <1>3, <1>14, Zenon DEF Progress, J
  <2>2. (x \o y) \o rest = x \o (y \o rest)
    BY <1>1, <1>5, <1>7, Regroup, Zenon
  <2>3. y \o rest \in Seq(Byte)
    BY <1>1, <1>7
  <2>4. (J \o x) \o (y \o rest) = J \o (x \o (y \o rest))
    BY <1>1, <1>5, <2>3, Regroup, Zenon
  <2> QED BY <2>1, <2>2, <2>4, Zenon
<1>11. Len(J \o x) = b + d
  <2>1. Len(J \o x) = Len(J) + Len(x)
    BY <1>1, <1>5
  <2> QED BY <1>7, <2>1, Zenon DEF b
<1>12. Reference(arrived) = (F \o <<x>>) \o From(arrived)[b + d]
  <2>1. Reference(arrived) = F \o (<<x>> \o From(arrived)[b + d])
    BY <1>3, <1>5, Zenon DEF Progress, J, b
  <2>2. F \o (<<x>> \o From(arrived)[b + d]) = (F \o <<x>>) \o From(arrived)[b + d]
    BY <1>1, <1>5, <1>8, RegroupFrames, Zenon
  <2> QED BY <2>1, <2>2, Zenon
<1>13. Progress(F \o <<x>>, y, rest)
  BY <1>9, <1>10, <1>11, <1>12, Zenon DEF Progress
<1> QED BY <1>5, <1>7, <1>9, <1>13, Zenon DEF Moved, x, y, J

-----------------------------------------------------------------------------
(* What makes a body not well formed                                           *)

\* One frame too many or too long.
LEMMA Refused ==
  ASSUME NEW F \in Seq(Seq(Byte)), NEW x \in Seq(Byte), NEW ss \in Seq(Seq(Byte)),
         Reference(arrived) = (F \o <<x>>) \o ss,
         Len(x) > MaxFrame \/ Len(F) + 1 > MaxEvents
  PROVE  ~WellFormed(arrived)
<1> DEFINE R == Reference(arrived)
<1>1. /\ Len(R) = Len(F) + 1 + Len(ss) /\ R[Len(F) + 1] = x /\ Len(F) + 1 \in DOMAIN R
  OBVIOUS
<1>2. Len(F) \in Nat /\ Len(ss) \in Nat /\ Len(x) \in Nat
  OBVIOUS
<1>3. WellFormed(arrived) => Len(R) <= MaxEvents /\ \A n \in DOMAIN R : Len(R[n]) <= MaxFrame
  BY DEF WellFormed
<1> HIDE DEF R
<1>4. ASSUME WellFormed(arrived) PROVE FALSE
  <2>1. Len(R) <= MaxEvents /\ Len(x) <= MaxFrame
    BY <1>1, <1>3, <1>4
  <2>2. MaxEvents \in Nat /\ MaxFrame \in Nat
    BY DecoderAssumption
  <2> QED BY <1>1, <1>2, <2>1, <2>2
<1> QED BY <1>4

\* Bytes after the last frame.
LEMMA Unfinished ==
  ASSUME NEW F \in Seq(Seq(Byte)), NEW buf \in Seq(Byte), NEW rest \in Seq(Byte),
         arrived \in Seq(Byte), Progress(F, buf, rest),
         From(arrived)[Len(Joined(F))] = <<>>, buf # <<>>
  PROVE  ~WellFormed(arrived)
<1>1. F \o <<>> = F
  OBVIOUS
<1>2. Reference(arrived) = F
  BY <1>1, Zenon DEF Progress
<1>3. Len(Joined(F)) \in Nat /\ Len(buf) + Len(rest) = Len(arrived) - Len(Joined(F))
  <2>1. /\ Len(Joined(F)) \in 0 .. Len(arrived)
        /\ Len(buf) + Len(rest) = Len(arrived) - Len(Joined(F))
    BY ProgressFacts, Zenon
  <2> QED BY <2>1
<1>4. Len(buf) > 0 /\ Len(rest) \in Nat /\ Len(arrived) \in Nat
  OBVIOUS
<1>5. Len(Joined(F)) # Len(arrived)
  BY <1>3, <1>4
<1>6. Joined(F) # arrived
  BY <1>5, Zenon
<1> QED BY <1>2, <1>6, Zenon DEF WellFormed

\* A frame that take_frame refuses.
LEMMA Untakeable ==
  ASSUME NEW F \in Seq(Seq(Byte)), NEW rest \in Seq(Byte), NEW d \in 1 .. Len(buffer),
         buffer \in Seq(Byte), arrived \in Seq(Byte), Progress(F, buffer, rest),
         Progress(F \o <<Take(buffer, d)>>, Drop(buffer, d), rest),
         Len(F) = events, ~Takeable(d)
  PROVE  ~WellFormed(arrived)
<1> DEFINE x == Take(buffer, d)
           y == Drop(buffer, d)
           G == F \o <<x>>
<1>1. x \in Seq(Byte) /\ Len(x) = d /\ y \in Seq(Byte)
  BY Halves
<1>2. G \in Seq(Seq(Byte))
  <2> HIDE DEF x
  <2> QED BY <1>1
<1>3. CASE \E i \in 1 .. d : buffer[i] = Bad
  <2>1. PICK i \in 1 .. d : buffer[i] = Bad
    BY <1>3
  <2>2. /\ Len(Joined(F)) \in 0 .. Len(arrived)
        /\ Len(buffer) + Len(rest) = Len(arrived) - Len(Joined(F))
        /\ \A j \in 1 .. Len(buffer) : buffer[j] = arrived[Len(Joined(F)) + j]
    BY ProgressFacts, Zenon
  <2>3. i \in 1 .. Len(buffer) /\ Len(rest) \in Nat /\ Len(arrived) \in Nat
    OBVIOUS
  <2>4. Len(Joined(F)) + i \in 1 .. Len(arrived)
    BY <2>2, <2>3
  <2>5. arrived[Len(Joined(F)) + i] = Bad
    BY <2>1, <2>2, <2>3, Zenon
  <2>6. DOMAIN arrived = 1 .. Len(arrived)
    OBVIOUS
  <2> QED BY <2>4, <2>5, <2>6, Zenon DEF WellFormed
<1>4. CASE Len(x) > MaxFrame \/ Len(F) + 1 > MaxEvents
  <2>1. From(arrived)[Len(Joined(G))] \in Seq(Seq(Byte))
    <3> HIDE DEF y, G
    <3>1. Progress(G, y, rest)
      BY DEF y, G
    <3> QED BY <1>1, <1>2, <3>1, ProgressFacts, Zenon
  <2>2. Reference(arrived) = G \o From(arrived)[Len(Joined(G))]
    BY Zenon DEF Progress
  <2> HIDE DEF x
  <2> QED BY <1>1, <1>4, <2>1, <2>2, Refused
<1>5. Len(F) \in Nat /\ MaxEvents \in Nat /\ MaxFrame \in Nat
  BY DecoderAssumption
<1>6. d > MaxFrame \/ events + 1 > MaxEvents \/ \E i \in 1 .. d : buffer[i] = Bad
  BY <1>5 DEF Takeable, TooMany
<1> HIDE DEF x, y, G
<1> QED BY <1>1, <1>3, <1>4, <1>6, Zenon

\* A buffer that holds no end of a frame is the whole of an unfinished frame.
LEMMA NothingFound ==
  ASSUME NEW F \in Seq(Seq(Byte)), NEW rest \in Seq(Byte), NEW eof \in BOOLEAN,
         eof => rest = <<>>,
         buffer \in Seq(Byte), arrived \in Seq(Byte), Progress(F, buffer, rest),
         DelimiterEnd(buffer, 0, eof) = 0, buffer # <<>>, eof \/ Len(buffer) > MaxFrame
  PROVE  ~WellFormed(arrived)
<1> DEFINE b == Len(Joined(F))
<1>1. CASE From(arrived)[b] = <<>>
  BY <1>1, Unfinished, Zenon
<1>2. CASE From(arrived)[b] # <<>>
  <2>1. /\ b \in 0 .. Len(arrived) /\ Len(buffer) + Len(rest) = Len(arrived) - b
        /\ \A i \in 1 .. Len(buffer) : buffer[i] = arrived[b + i]
    BY ProgressFacts, Zenon
  <2> HIDE DEF b
  <2>2. Buffered(arrived, b, buffer, eof, 0)
    <3>0. Len(rest) \in Nat /\ (eof => Len(rest) = 0) /\ Len(buffer) \in Nat
      OBVIOUS
    <3>1. Len(buffer) <= Len(arrived) - b /\ (eof => Len(buffer) = Len(arrived) - b)
      BY <2>1, <3>0, Parts, Zenon
    <3> QED BY <2>1, <3>1, Zenon DEF Buffered
  <2>3. ~eof /\ \E y \in Seq(Byte), ss \in Seq(Seq(Byte)) :
                   From(arrived)[b] = <<y>> \o ss /\ Len(y) >= Len(buffer)
    BY <1>2, <2>2, NoFrame, Zenon
  <2>4. PICK y \in Seq(Byte), ss \in Seq(Seq(Byte)) :
           From(arrived)[b] = <<y>> \o ss /\ Len(y) >= Len(buffer)
    BY <2>3
  <2>5. Len(y) > MaxFrame
    <3>1. Len(buffer) > MaxFrame /\ Len(y) >= Len(buffer)
      BY <2>3, <2>4
    <3>2. Len(buffer) \in Nat /\ Len(y) \in Nat /\ MaxFrame \in Nat
      BY DecoderAssumption
    <3> QED BY <3>1, <3>2
  <2>6. Reference(arrived) = (F \o <<y>>) \o ss
    <3>1. Reference(arrived) = F \o (<<y>> \o ss)
      BY <2>4, Zenon DEF Progress, b
    <3>2. <<y>> \in Seq(Seq(Byte))
      OBVIOUS
    <3> QED BY <3>1, <3>2, RegroupFrames, Zenon
  <2> QED BY <2>5, <2>6, Refused, Zenon
<1> QED BY <1>1, <1>2

-----------------------------------------------------------------------------
(* The invariant: initially, and when the decoding fails                       *)

\* The invariant holds initially: nothing is decoded, everything is left.
LEMMA DecoderInit == Init => DecoderInv
<1> SUFFICES ASSUME Init PROVE DecoderInv
  OBVIOUS
<1> USE DecoderAssumption DEF Init
<1>1. arrived \in Seq(Byte)
  BY DEF Bodies
<1>2. TypeOK
  BY <1>1, EmptySeq DEF TypeOK
<1>3. Sizes
  BY <1>1 DEF Sizes
<1>4. BufferBounded
  BY DEF BufferBounded
<1>5. Searched
  <2>1. Starts(<<>>, 0 + 1) /\ <<>> \in Seq(Byte) /\ Len(<<>>) = 0
    BY DEF Starts
  <2>2. DelimiterEnd(<<>>, 0, FALSE) \in 0 .. Len(<<>>)
    <3>1. 0 \in 0 .. Len(<<>>) /\ FALSE \in BOOLEAN
      BY <2>1
    <3> QED BY <2>1, <3>1, DelimiterEndRange
  <2>3. DelimiterEnd(<<>>, 0, FALSE) = 0
    <3>1. DelimiterEnd(<<>>, 0, FALSE) \in 0 .. 0
      BY <2>1, <2>2, Zenon
    <3>2. \A n \in 0 .. 0 : n = 0
      OBVIOUS
    <3> QED BY <3>1, <3>2, Zenon
  <2>4. RescanFrom(<<>>) = 0
    BY <2>1 DEF RescanFrom, Below
  <2> QED BY <2>3, <2>4, Zenon DEF Searched
<1>6. Progress(<<>>, <<>>, arrived)
  <2>1. 0 \in 0 .. Len(arrived) /\ Len(<<>>) = 0
    BY <1>1
  <2>2. From(arrived)[0] \in Seq(Seq(Byte))
    BY <1>1, <2>1, FromType
  <2>3. <<>> \o From(arrived)[0] = From(arrived)[0]
    BY <2>2, ConcatEmptySeq
  <2>4. arrived = <<>> \o (<<>> \o arrived)
    BY <1>1
  <2> QED BY <2>1, <2>3, <2>4, JoinedEmpty, ReferenceIsFrom, Zenon DEF Progress
<1>7. WithinLimits(<<>>)
  BY JoinedEmpty DEF WithinLimits
<1>8. Decoded
  <2>1. /\ frames \o found = <<>> /\ chunk \o body = arrived /\ buffer = <<>>
        /\ pc # "error"
    BY <1>1
  <2> QED BY <1>6, <1>7, <2>1, Zenon DEF Decoded
<1> QED BY <1>2, <1>3, <1>4, <1>5, <1>8 DEF DecoderInv

\* The types of what is told of the frames.
LEMMA DecoderTypes ==
  ASSUME DecoderInv
  PROVE  /\ body \in Seq(Byte) /\ chunk \in Seq(Byte) /\ buffer \in Seq(Byte)
         /\ arrived \in Seq(Byte) /\ frames \in Seq(Seq(Byte)) /\ found \in Seq(Seq(Byte))
         /\ frames \o found \in Seq(Seq(Byte)) /\ chunk \o body \in Seq(Byte)
BY DEF DecoderInv, TypeOK, Sizes

\* The decoding fails, and the body is not well formed.
LEMMA FailStep ==
  ASSUME DecoderInv, pc # "error", ~WellFormed(arrived), Fail
  PROVE  DecoderInv'
<1>0. /\ pc' = "error" /\ found' = <<>>
      /\ UNCHANGED <<body, chunk, buffer, total, events, scan_from, frames, arrived>>
  BY DEF Fail
<1>1. TypeOK'
  BY <1>0 DEF DecoderInv, TypeOK
<1>2. Sizes'
  BY <1>0 DEF DecoderInv, Sizes
<1>3. BufferBounded'
  BY <1>0 DEF DecoderInv, BufferBounded
<1>4. Searched'
  BY <1>0 DEF Searched
<1>5. \E ss \in Seq(Seq(Byte)) : Reference(arrived) = frames \o ss
  <2>1. Progress(frames \o found, buffer, chunk \o body)
    BY DEF DecoderInv, Decoded
  <2> DEFINE uu == From(arrived)[Len(Joined(frames \o found))]
  <2>2. uu \in Seq(Seq(Byte))
    BY <2>1, DecoderTypes, ProgressFacts, Zenon
  <2>3. Reference(arrived) = (frames \o found) \o uu
    BY <2>1, Zenon DEF Progress
  <2> HIDE DEF uu
  <2>4. frames \in Seq(Seq(Byte)) /\ found \in Seq(Seq(Byte))
    BY DecoderTypes
  <2>5. found \o uu \in Seq(Seq(Byte))
    BY <2>2, <2>4
  <2>6. (frames \o found) \o uu = frames \o (found \o uu)
    BY <2>2, <2>4, RegroupFrames, Zenon
  <2> QED BY <2>3, <2>5, <2>6, Zenon
<1>6. Decoded'
  <2>1. ~WellFormed(arrived') /\ \E ss \in Seq(Seq(Byte)) : Reference(arrived') = frames' \o ss
    BY <1>0, <1>5, Zenon
  <2> QED BY <1>0, <2>1 DEF Decoded
<1> QED BY <1>1, <1>2, <1>3, <1>4, <1>6 DEF DecoderInv

\* Two sequences without a bad byte join to one without.
LEMMA NoneBad ==
  ASSUME NEW x \in Seq(Byte), NEW y \in Seq(Byte),
         \A i \in 1 .. Len(x) : x[i] # Bad, \A i \in 1 .. Len(y) : y[i] # Bad
  PROVE  \A i \in 1 .. Len(x \o y) : (x \o y)[i] # Bad
<1>1. ASSUME NEW i \in 1 .. Len(x \o y) PROVE (x \o y)[i] # Bad
  <2>1. CASE i <= Len(x)
    BY <2>1
  <2>2. CASE i > Len(x)
    <3>1. i - Len(x) \in 1 .. Len(y) /\ (x \o y)[i] = y[i - Len(x)]
      BY <2>2
    <3> QED BY <3>1
  <2> QED BY <2>1, <2>2
<1> QED BY <1>1

\* Taking over a frame within the limits keeps the limits.
LEMMA WithinAfter ==
  ASSUME NEW F \in Seq(Seq(Byte)), buffer \in Seq(Byte), NEW d \in 1 .. Len(buffer),
         WithinLimits(F), Takeable(d), events \in Nat,
         Joined(F \o <<Take(buffer, d)>>) = Joined(F) \o Take(buffer, d)
  PROVE  /\ Len(F \o <<Take(buffer, d)>>) = events + 1 /\ events + 1 <= MaxEvents
         /\ \A n \in 1 .. Len(F \o <<Take(buffer, d)>>) :
              Len((F \o <<Take(buffer, d)>>)[n]) <= MaxFrame
         /\ \A i \in 1 .. Len(Joined(F \o <<Take(buffer, d)>>)) :
              Joined(F \o <<Take(buffer, d)>>)[i] # Bad
<1> DEFINE x == Take(buffer, d)
           G == F \o <<x>>
           J == Joined(F)
<1>1. x \in Seq(Byte) /\ Len(x) = d /\ \A i \in 1 .. d : x[i] = buffer[i]
  BY DEF Take
<1>2. J \in Seq(Byte) /\ F \in Seq(Seq(Byte))
  BY JoinedType
<1>3. d <= MaxFrame /\ events + 1 <= MaxEvents /\ \A i \in 1 .. d : buffer[i] # Bad
  BY DecoderAssumption DEF Takeable, TooMany
<1>4. /\ Len(F) = events /\ \A n \in 1 .. Len(F) : Len(F[n]) <= MaxFrame
      /\ \A i \in 1 .. Len(J) : J[i] # Bad
  BY DEF WithinLimits
<1>5. Joined(G) = J \o x
  OBVIOUS
<1> HIDE DEF x, J
<1>6. Len(G) = events + 1 /\ \A n \in 1 .. Len(G) : Len(G[n]) <= MaxFrame
  <2>1. Len(G) = Len(F) + 1 /\ \A n \in 1 .. Len(F) : G[n] = F[n]
    BY <1>1, <1>2
  <2>2. G[Len(F) + 1] = x
    BY <1>1, <1>2
  <2> HIDE DEF G
  <2> QED BY <1>1, <1>2, <1>3, <1>4, <2>1, <2>2
<1> HIDE DEF G
<1>7. \A i \in 1 .. Len(J \o x) : (J \o x)[i] # Bad
  <2>1. \A i \in 1 .. Len(x) : x[i] # Bad
    BY <1>1, <1>3
  <2> QED BY <1>1, <1>2, <1>4, <2>1, NoneBad, Zenon
<1> QED BY <1>3, <1>5, <1>6, <1>7, Zenon DEF G, x

-----------------------------------------------------------------------------
(* The steps                                                                   *)

\* What a step that takes no frame keeps.
LEMMA DecodedKept ==
  ASSUME DecoderInv, pc # "error", pc' # "error", UNCHANGED <<events, arrived>>,
         frames' \o found' = frames \o found,
         buffer' \o (chunk' \o body') = buffer \o (chunk \o body)
  PROVE  Decoded'
<1>1. Progress(frames \o found, buffer, chunk \o body) /\ WithinLimits(frames \o found)
  BY DEF DecoderInv, Decoded
<1>2. Progress(frames \o found, buffer', chunk' \o body')
  BY <1>1, Zenon DEF Progress
<1>3. (Progress(frames \o found, buffer, chunk \o body) /\ WithinLimits(frames \o found))'
  BY <1>1, <1>2, Zenon DEF Progress, WithinLimits
<1> QED BY <1>3 DEF Decoded

\* The count of bytes after a chunk of k bytes is taken from the l that are left.
LEMMA TotalAfter ==
  ASSUME NEW t \in Nat, NEW l \in Nat, NEW k \in 1 .. l, NEW n, NEW m \in Nat,
         t + l = n, ~(t + k > m)
  PROVE  (t + k) + (l - k) = n /\ t + k <= m /\ t + k \in 0 .. n
OBVIOUS

\* A chunk arrives.
LEMMA PushStep ==
  ASSUME DecoderInv, Push
  PROVE  DecoderInv'
<1>0. /\ pc = "idle" /\ body # <<>> /\ body \in Seq(Byte) /\ arrived \in Seq(Byte)
      /\ chunk = <<>> /\ total + Len(body) = Len(arrived) /\ total \in Nat
  BY DEF Push, DecoderInv, TypeOK, Sizes
<1>1. PICK k \in 1 .. Len(body) :
         IF total + k > MaxTotal THEN Fail
         ELSE /\ chunk' = Take(body, k) /\ body' = Drop(body, k)
              /\ total' = total + k
              /\ pc' = "piece"
              /\ UNCHANGED <<buffer, events, scan_from, found, frames, arrived>>
  BY DEF Push
<1>2. CASE total + k > MaxTotal
  <2>1. Len(arrived) > MaxTotal
    BY <1>0, <1>2, DecoderAssumption
  <2>2. ~WellFormed(arrived)
    <3>1. Len(arrived) \in Nat /\ MaxTotal \in Nat
      BY <1>0, DecoderAssumption
    <3>2. ~(Len(arrived) <= MaxTotal)
      BY <2>1, <3>1
    <3> QED BY <3>2, Zenon DEF WellFormed
  <2> QED BY <1>0, <1>1, <1>2, <2>2, FailStep
<1>3. CASE ~(total + k > MaxTotal)
  <2>0. /\ chunk' = Take(body, k) /\ body' = Drop(body, k) /\ total' = total + k
        /\ pc' = "piece" /\ UNCHANGED <<buffer, events, scan_from, found, frames, arrived>>
    BY <1>1, <1>3
  <2>1. k \in 0 .. Len(body) /\ k \in Nat
    OBVIOUS
  <2>2. /\ chunk' \in Seq(Byte) /\ Len(chunk') = k /\ body' \in Seq(Byte)
        /\ Len(body') = Len(body) - k /\ body = chunk' \o body'
    BY <1>0, <2>0, <2>1, Halves, Zenon
  <2>3. /\ total' + Len(body') = Len(arrived') /\ total' <= MaxTotal
        /\ total' \in 0 .. Len(arrived')
    <3>1. /\ (total + k) + (Len(body) - k) = Len(arrived) /\ total + k <= MaxTotal
          /\ total + k \in 0 .. Len(arrived)
      <4>1. total \in Nat /\ Len(body) \in Nat /\ k \in 1 .. Len(body) /\ MaxTotal \in Nat
        BY <1>0, DecoderAssumption
      <4> QED BY <1>0, <1>3, <4>1, TotalAfter, Zenon
    <3> QED BY <2>0, <2>2, <3>1, Zenon
  <2>4. TypeOK'
    BY <2>0, <2>2, <2>3 DEF DecoderInv, TypeOK
  <2>5. Sizes'
    BY <2>0, <2>3 DEF DecoderInv, Sizes
  <2>6. BufferBounded'
    BY <1>0, <2>0 DEF DecoderInv, BufferBounded
  <2>7. Searched'
    BY <1>0, <2>0, Zenon DEF DecoderInv, Searched
  <2>8. buffer' \o (chunk' \o body') = buffer \o (chunk \o body)
    <3>1. chunk \o body = body
      BY <1>0, ConcatEmptySeq
    <3> QED BY <2>0, <2>2, <3>1, Zenon
  <2>9. Decoded'
    <3>1. pc # "error" /\ pc' # "error" /\ frames' \o found' = frames \o found
      BY <1>0, <2>0
    <3> QED BY <2>0, <2>8, <3>1, DecodedKept, Zenon
  <2> QED BY <2>4, <2>5, <2>6, <2>7, <2>9, Zenon DEF DecoderInv
<1> QED BY <1>2, <1>3

\* The buffer begins with what it held before a piece was appended.
LEMMA BeginsWith ==
  ASSUME NEW x \in Seq(Byte), NEW y \in Seq(Byte)
  PROVE  Begins(x, x \o y) /\ Len(x \o y) = Len(x) + Len(y) /\ x \o y \in Seq(Byte)
BY DEF Begins

\* A piece of the chunk is taken over; searching the last bytes again is enough.
LEMMA TakePieceStep ==
  ASSUME DecoderInv, TakePiece
  PROVE  DecoderInv'
<1> DEFINE k == AtMost(Piece, Len(chunk))
<1>0. /\ pc = "piece" /\ chunk # <<>> /\ pc' = "scan"
      /\ buffer' = buffer \o Take(chunk, k) /\ chunk' = Drop(chunk, k)
      /\ UNCHANGED <<body, total, events, scan_from, found, frames, arrived>>
  BY DEF TakePiece
<1>1. /\ chunk \in Seq(Byte) /\ buffer \in Seq(Byte) /\ body \in Seq(Byte)
      /\ Len(buffer) <= MaxFrame
      /\ DelimiterEnd(buffer, 0, FALSE) = 0 /\ scan_from = RescanFrom(buffer)
  BY <1>0 DEF DecoderInv, TypeOK, BufferBounded, Searched
<1>2. k \in 0 .. Len(chunk) /\ k <= Piece /\ Piece \in Nat /\ MaxFrame \in Nat
  BY <1>1, DecoderAssumption DEF AtMost
<1> HIDE DEF k
<1> DEFINE x == Take(chunk, k)
<1>3. /\ x \in Seq(Byte) /\ Len(x) = k /\ chunk' \in Seq(Byte) /\ chunk = x \o chunk'
  BY <1>0, <1>1, <1>2, Halves
<1>4. buffer' = buffer \o x
  BY <1>0
<1> HIDE DEF x
<1>5. /\ buffer' \in Seq(Byte) /\ Len(buffer') = Len(buffer) + k
      /\ Len(buffer') <= MaxFrame + Piece
  <2>1. Len(buffer \o x) = Len(buffer) + Len(x) /\ buffer \o x \in Seq(Byte)
    BY <1>1, <1>3, BeginsWith, Zenon
  <2>2. Len(buffer) \in Nat /\ k \in Nat
    BY <1>1, <1>2
  <2>3. Len(buffer) + k <= MaxFrame + Piece
    BY <1>1, <1>2, <2>2
  <2> QED BY <1>3, <1>4, <2>1, <2>3, Zenon
<1>6. Begins(buffer, buffer')
  BY <1>1, <1>3, <1>4, BeginsWith, Zenon
<1>7. /\ scan_from \in 0 .. Len(buffer) /\ Starts(buffer', scan_from + 1)
  BY <1>1, <1>5, <1>6, RescanStarts, Zenon
<1>8. DelimiterEnd(buffer', scan_from, FALSE) = DelimiterEnd(buffer', 0, FALSE)
  BY <1>1, <1>5, <1>6, RescanEnough, Zenon
<1>9. scan_from \in 0 .. Len(buffer')
  BY <1>1, <1>2, <1>5, <1>7
<1>10. TypeOK'
  BY <1>0, <1>3, <1>5, <1>9 DEF DecoderInv, TypeOK
<1>11. Sizes'
  BY <1>0 DEF DecoderInv, Sizes
<1>12. BufferBounded'
  BY <1>0, <1>5 DEF BufferBounded
<1>13. Searched'
  <2>1. pc' = "scan" /\ scan_from' = scan_from
    BY <1>0
  <2> QED BY <1>7, <1>8, <2>1 DEF Searched
<1>14. Decoded'
  <2>1. buffer' \o (chunk' \o body') = buffer \o (chunk \o body)
    <3>1. (x \o chunk') \o body = x \o (chunk' \o body)
      <4>1. x \in Seq(Byte) /\ chunk' \in Seq(Byte) /\ body \in Seq(Byte)
        BY <1>1, <1>3
      <4> QED BY <4>1, Regroup, Zenon
    <3>2. chunk' \o body \in Seq(Byte)
      BY <1>1, <1>3
    <3>3. buffer \o (x \o (chunk' \o body)) = (buffer \o x) \o (chunk' \o body)
      BY <1>1, <1>3, <3>2, Regroup, Zenon
    <3>4. body' = body
      BY <1>0
    <3> QED BY <1>3, <1>4, <3>1, <3>3, <3>4, Zenon
  <2>2. pc # "error" /\ pc' # "error" /\ frames' \o found' = frames \o found
    BY <1>0
  <2> QED BY <1>0, <2>1, <2>2, DecodedKept, Zenon
<1> QED BY <1>10, <1>11, <1>12, <1>13, <1>14, Zenon DEF DecoderInv

\* The frame that the search has ended is taken over, or refused with reason.
LEMMA TakeFrameStep ==
  ASSUME DecoderInv, TakeFrame
  PROVE  DecoderInv'
<1> DEFINE d == DelimiterEnd(buffer, 0, FALSE)
           F == frames \o found
           rest == chunk \o body
           x == Take(buffer, d)
           G == F \o <<x>>
<1>1. pc = "scan" /\ DelimiterEnd(buffer, scan_from, FALSE) = d
  BY DEF TakeFrame, DecoderInv, Searched
<1>2. /\ d # 0
      /\ IF Takeable(d)
         THEN /\ Drain(d) /\ found' = Append(found, x)
              /\ UNCHANGED <<body, chunk, total, frames, pc, arrived>>
         ELSE Fail
  BY <1>1 DEF TakeFrame
<1>3. /\ F \in Seq(Seq(Byte)) /\ buffer \in Seq(Byte) /\ rest \in Seq(Byte)
      /\ arrived \in Seq(Byte) /\ found \in Seq(Seq(Byte)) /\ frames \in Seq(Seq(Byte))
  BY DecoderTypes
<1>4. Progress(F, buffer, rest) /\ WithinLimits(F) /\ events \in Nat
  BY <1>1 DEF DecoderInv, Decoded, TypeOK
<1> HIDE DEF F, rest, d
<1>5. /\ d \in 1 .. Len(buffer) /\ x \in Seq(Byte) /\ Len(x) = d
      /\ Drop(buffer, d) \in Seq(Byte) /\ Len(Drop(buffer, d)) = Len(buffer) - d
      /\ Progress(G, Drop(buffer, d), rest)
      /\ Joined(G) = Joined(F) \o x
  <2>1. Ended(F, buffer, rest, FALSE, d)
    BY <1>2, <1>3, <1>4 DEF Ended, d
  <2>2. Moved(F, buffer, rest, d)
    BY <2>1, ProgressFrame, Zenon
  <2> QED BY <2>2, Zenon DEF Moved
<1>6. CASE ~Takeable(d)
  <2>1. ~WellFormed(arrived)
    <3>1. Len(F) = events
      BY <1>4 DEF WithinLimits
    <3> QED BY <1>3, <1>4, <1>5, <1>6, <3>1, Untakeable, Zenon
  <2>2. Fail /\ pc # "error"
    BY <1>1, <1>2, <1>6
  <2> QED BY <2>1, <2>2, FailStep, Zenon
<1>7. CASE Takeable(d)
  <2>0. /\ buffer' = Drop(buffer, d) /\ events' = events + 1 /\ scan_from' = 0
        /\ found' = Append(found, x)
        /\ UNCHANGED <<body, chunk, total, frames, pc, arrived>>
    BY <1>2, <1>7 DEF Drain, ScanFromStart
  <2>1. /\ Len(G) = events + 1 /\ events + 1 <= MaxEvents
        /\ \A n \in 1 .. Len(G) : Len(G[n]) <= MaxFrame
        /\ \A i \in 1 .. Len(Joined(G)) : Joined(G)[i] # Bad
    BY <1>3, <1>4, <1>5, <1>7, WithinAfter, Zenon
  <2> HIDE DEF x, G
  <2>2. found' \in Seq(Seq(Byte))
    BY <1>3, <1>5, <2>0
  <2>3. frames' \o found' = G
    <3>1. frames \o Append(found, x) = (frames \o found) \o <<x>>
      BY <1>3, <1>5
    <3> QED BY <2>0, <3>1, Zenon DEF F, G
  <2>4. buffer' \in Seq(Byte) /\ Len(buffer') <= Len(buffer) /\ 0 \in 0 .. Len(buffer')
    BY <1>3, <1>5, <2>0
  <2>5. TypeOK'
    <3>1. events' \in 0 .. MaxEvents + 1
      BY <1>4, <2>0, <2>1, DecoderAssumption
    <3> QED BY <2>0, <2>2, <2>4, <3>1 DEF DecoderInv, TypeOK
  <2>6. Sizes'
    BY <1>1, <2>0, <2>1 DEF DecoderInv, Sizes
  <2>7. BufferBounded'
    <3>1. Len(buffer) <= MaxFrame + Piece /\ Piece \in Nat /\ MaxFrame \in Nat
      BY DecoderAssumption DEF DecoderInv, BufferBounded
    <3>2. Len(buffer') <= MaxFrame + Piece
      BY <1>3, <2>4, <3>1
    <3> QED BY <1>1, <2>0, <3>2 DEF BufferBounded
  <2>8. Searched'
    <3>1. Starts(buffer', 0 + 1) /\ pc' = "scan"
      BY <1>1, <2>0, <2>4 DEF Starts
    <3> QED BY <2>0, <3>1 DEF Searched
  <2>9. Decoded'
    <3>1. Progress(G, buffer', chunk' \o body')
      BY <1>5, <2>0, Zenon DEF rest
    <3>2. (Progress(frames \o found, buffer, chunk \o body) /\ WithinLimits(frames \o found))'
      <4>1. Progress(frames \o found, buffer, chunk \o body)'
        BY <2>0, <2>3, <3>1, Zenon DEF Progress
      <4>2. WithinLimits(frames \o found)'
        BY <2>0, <2>1, <2>3, Zenon DEF WithinLimits
      <4> QED BY <4>1, <4>2
    <3>3. pc' # "error"
      BY <1>1, <2>0
    <3> QED BY <3>2, <3>3 DEF Decoded
  <2> QED BY <2>5, <2>6, <2>7, <2>8, <2>9, Zenon DEF DecoderInv
<1> QED BY <1>6, <1>7

\* The search of a piece ends: the limit of a frame, or on to the next piece.
LEMMA PieceDoneStep ==
  ASSUME DecoderInv, PieceDone
  PROVE  DecoderInv'
<1>1. /\ pc = "scan" /\ DelimiterEnd(buffer, 0, FALSE) = 0
      /\ IF FrameTooLarge THEN Fail
         ELSE /\ scan_from' = RescanFrom(buffer)
              /\ IF chunk = <<>>
                 THEN pc' = "idle" /\ frames' = frames \o found /\ found' = <<>>
                 ELSE pc' = "piece" /\ UNCHANGED <<frames, found>>
              /\ UNCHANGED <<body, chunk, buffer, total, events, arrived>>
  BY DEF PieceDone, DecoderInv, Searched, Rescan, RescanFrom
<1>2. /\ buffer \in Seq(Byte) /\ frames \in Seq(Seq(Byte)) /\ found \in Seq(Seq(Byte))
      /\ arrived \in Seq(Byte) /\ frames \o found \in Seq(Seq(Byte))
      /\ chunk \o body \in Seq(Byte)
  BY DecoderTypes
<1>3. CASE FrameTooLarge
  <2>1. Len(buffer) > MaxFrame /\ buffer # <<>>
    BY <1>2, <1>3, DecoderAssumption DEF FrameTooLarge
  <2>2. Progress(frames \o found, buffer, chunk \o body)
    BY <1>1 DEF DecoderInv, Decoded
  <2>3. ~WellFormed(arrived)
    <3>1. FALSE \in BOOLEAN /\ (FALSE => chunk \o body = <<>>)
      OBVIOUS
    <3> QED BY <1>1, <1>2, <2>1, <2>2, <3>1, NothingFound, Zenon
  <2>4. pc # "error" /\ Fail
    BY <1>1, <1>3
  <2> QED BY <2>3, <2>4, FailStep, Zenon
<1>4. CASE ~FrameTooLarge
  <2>0. /\ scan_from' = RescanFrom(buffer)
        /\ UNCHANGED <<body, chunk, buffer, total, events, arrived>>
        /\ \/ /\ chunk = <<>> /\ pc' = "idle" /\ frames' = frames \o found /\ found' = <<>>
           \/ /\ pc' = "piece" /\ UNCHANGED <<frames, found>>
    BY <1>1, <1>4
  <2> DEFINE F == frames \o found
  <2>1. /\ frames' \in Seq(Seq(Byte)) /\ found' \in Seq(Seq(Byte))
        /\ frames' \o found' = F
    <3>1. CASE frames' = F /\ found' = <<>>
      <4>1. F \in Seq(Seq(Byte)) /\ <<>> \in Seq(Seq(Byte))
        BY <1>2, EmptySeq
      <4> HIDE DEF F
      <4>2. F \o <<>> = F
        BY <4>1, ConcatEmptySeq
      <4> QED BY <3>1, <4>1, <4>2, Zenon
    <3>2. CASE UNCHANGED <<frames, found>>
      BY <1>2, <3>2
    <3> QED BY <2>0, <3>1, <3>2, Zenon
  <2>3. scan_from' \in 0 .. Len(buffer)
    <3>1. Begins(buffer, buffer)
      BY <1>2 DEF Begins
    <3>2. RescanFrom(buffer) \in 0 .. Len(buffer)
      BY <1>2, <3>1, RescanStarts, Zenon
    <3> QED BY <2>0, <3>2, Zenon
  <2>4. TypeOK'
    BY <2>0, <2>1, <2>3 DEF DecoderInv, TypeOK
  <2>5. Sizes'
    BY <2>0 DEF DecoderInv, Sizes
  <2>6. BufferBounded'
    <3>1. Len(buffer) <= MaxFrame
      BY <1>2, <1>4, DecoderAssumption DEF FrameTooLarge
    <3> QED BY <2>0, <3>1 DEF DecoderInv, BufferBounded
  <2>7. Searched'
    <3>1. pc' # "scan"
      BY <2>0
    <3>2. DelimiterEnd(buffer', 0, FALSE) = 0 /\ scan_from' = RescanFrom(buffer')
      BY <1>1, <2>0, Zenon
    <3> QED BY <3>1, <3>2, Zenon DEF Searched
  <2>8. Decoded'
    <3>1. pc # "error" /\ pc' # "error"
      BY <1>1, <2>0
    <3>2. buffer' \o (chunk' \o body') = buffer \o (chunk \o body)
      BY <2>0, Zenon
    <3> QED BY <2>0, <2>1, <3>1, <3>2, DecodedKept, Zenon
  <2> QED BY <2>4, <2>5, <2>6, <2>7, <2>8, Zenon DEF DecoderInv
<1> QED BY <1>3, <1>4

\* The body ends: what is left is one frame within the limits, or none is well formed.
LEMMA FinishStep ==
  ASSUME DecoderInv, Finish
  PROVE  DecoderInv'
<1> DEFINE d == DelimiterEnd(buffer, 0, TRUE)
           F == frames \o found
           rest == chunk \o body
           x == Take(buffer, d)
           G == F \o <<x>>
<1>1. /\ pc = "idle" /\ body = <<>> /\ chunk = <<>> /\ found = <<>>
      /\ DelimiterEnd(buffer, 0, FALSE) = 0 /\ rest = <<>>
  <2>1. /\ pc = "idle" /\ body = <<>> /\ chunk = <<>> /\ found = <<>>
        /\ DelimiterEnd(buffer, 0, FALSE) = 0
    BY DEF Finish, DecoderInv, Sizes, Searched
  <2> HIDE DEF d, F, x, G
  <2>2. rest = <<>> \o <<>>
    BY <2>1, Zenon
  <2>3. <<>> \o <<>> = <<>>
    OBVIOUS
  <2> QED BY <2>1, <2>2, <2>3, Zenon
<1>2. \/ /\ buffer = <<>> /\ pc' = "finished"
         /\ UNCHANGED <<body, chunk, buffer, total, events, scan_from, found, frames, arrived>>
      \/ /\ buffer # <<>>
         /\ IF CompleteFrame(d) /\ Takeable(d)
            THEN /\ pc' = "finished" /\ Drain(d) /\ frames' = Append(frames, x)
                 /\ UNCHANGED <<body, chunk, total, found, arrived>>
            ELSE Fail
  BY DEF Finish
<1>3. /\ F \in Seq(Seq(Byte)) /\ buffer \in Seq(Byte) /\ rest \in Seq(Byte)
      /\ arrived \in Seq(Byte) /\ frames \in Seq(Seq(Byte)) /\ F = frames
  BY <1>1, DecoderTypes, ConcatEmptySeq
<1>4. Progress(F, buffer, rest) /\ WithinLimits(F) /\ events \in Nat
  BY <1>1 DEF DecoderInv, Decoded, TypeOK
<1> HIDE DEF F, rest, d
<1>5. CASE buffer = <<>>
  <2>0. /\ pc' = "finished"
        /\ UNCHANGED <<body, chunk, buffer, total, events, scan_from, found, frames, arrived>>
    BY <1>2, <1>5
  <2>1. TypeOK' /\ Sizes' /\ BufferBounded' /\ Searched'
    BY <1>1, <1>5, <2>0 DEF DecoderInv, TypeOK, Sizes, BufferBounded, Searched
  <2>2. Decoded'
    <3>1. /\ pc # "error" /\ pc' # "error" /\ frames' \o found' = frames \o found
          /\ buffer' \o (chunk' \o body') = buffer \o (chunk \o body)
      BY <1>1, <2>0
    <3> QED BY <2>0, <3>1, DecodedKept, Zenon
  <2> QED BY <2>1, <2>2 DEF DecoderInv
<1>6. CASE buffer # <<>> /\ d = 0
  <2>1. Fail
    <3>1. Len(buffer) # 0
      BY <1>3, <1>6
    <3> QED BY <1>2, <1>6, <3>1 DEF CompleteFrame
  <2>2. ~WellFormed(arrived)
    <3>1. TRUE \in BOOLEAN /\ DelimiterEnd(buffer, 0, TRUE) = 0
      BY <1>6 DEF d
    <3> QED BY <1>1, <1>3, <1>4, <1>6, <3>1, NothingFound, Zenon
  <2>3. pc # "error"
    BY <1>1
  <2> QED BY <2>1, <2>2, <2>3, FailStep, Zenon
<1>7. CASE buffer # <<>> /\ d # 0
  <2>1. Moved(F, buffer, rest, d)
    <3>1. Ended(F, buffer, rest, TRUE, d)
      BY <1>1, <1>3, <1>4, <1>7 DEF Ended, d
    <3> QED BY <3>1, ProgressFrame, Zenon
  <2>2. /\ d \in 1 .. Len(buffer) /\ x \in Seq(Byte) /\ Len(x) = d
        /\ Drop(buffer, d) \in Seq(Byte) /\ Len(Drop(buffer, d)) = Len(buffer) - d
        /\ Progress(G, Drop(buffer, d), rest)
        /\ Joined(G) = Joined(F) \o x
    BY <2>1, Zenon DEF Moved
  <2>3. CompleteFrame(d)
    <3> DEFINE b == Len(Joined(F))
    <3>1. /\ b \in 0 .. Len(arrived) /\ Len(buffer) + Len(rest) = Len(arrived) - b
          /\ \A i \in 1 .. Len(buffer) : buffer[i] = arrived[b + i]
      BY <1>3, <1>4, ProgressFacts, Zenon
    <3> HIDE DEF b
    <3>2. Len(rest) = 0 /\ Len(rest) \in Nat /\ Len(buffer) \in Nat
      BY <1>1, <1>3
    <3>3. Len(buffer) <= Len(arrived) - b /\ Len(buffer) = Len(arrived) - b
      BY <3>1, <3>2, Parts, Zenon
    <3>4. Buffered(arrived, b, buffer, TRUE, d) /\ Buffered(arrived, b, buffer, FALSE, 0)
      BY <1>1, <1>3, <3>1, <3>3 DEF Buffered, d
    <3>5. FrameEnds(arrived, b) # {} /\ FirstEnd(arrived, b) = b + d
      BY <1>7, <3>4, FrameFound, Zenon
    <3>6. \A f \in FrameEnds(arrived, b) : f - b >= Len(buffer)
      BY <3>4, FrameFound, Zenon
    <3>7. b + d \in FrameEnds(arrived, b)
      BY <1>3, <3>1, <3>5, FirstEndIsFirst
    <3>8. (b + d) - b >= Len(buffer)
      BY <3>6, <3>7, Zenon
    <3>9. d = Len(buffer)
      BY <2>2, <3>1, <3>2, <3>8
    <3> QED BY <3>9 DEF CompleteFrame
  <2>4. CASE ~Takeable(d)
    <3>1. ~WellFormed(arrived)
      <4>1. Len(F) = events
        BY <1>4 DEF WithinLimits
      <4> QED BY <1>3, <1>4, <2>2, <2>4, <4>1, Untakeable, Zenon
    <3>2. Fail /\ pc # "error"
      BY <1>1, <1>2, <1>7, <2>4
    <3> QED BY <3>1, <3>2, FailStep, Zenon
  <2>5. CASE Takeable(d)
    <3>0. /\ pc' = "finished" /\ buffer' = Drop(buffer, d) /\ events' = events + 1
          /\ scan_from' = 0 /\ frames' = Append(frames, x)
          /\ UNCHANGED <<body, chunk, total, found, arrived>>
      BY <1>2, <1>7, <2>3, <2>5 DEF Drain, ScanFromStart
    <3>1. /\ Len(G) = events + 1 /\ events + 1 <= MaxEvents
          /\ \A n \in 1 .. Len(G) : Len(G[n]) <= MaxFrame
          /\ \A i \in 1 .. Len(Joined(G)) : Joined(G)[i] # Bad
      BY <1>3, <1>4, <2>2, <2>5, WithinAfter, Zenon
    <3> HIDE DEF x, G
    <3>2. frames' \in Seq(Seq(Byte))
      BY <1>3, <2>2, <3>0
    <3>3. frames' \o found' = G
      <4>1. Append(frames, x) \o <<>> = frames \o <<x>>
        BY <1>3, <2>2
      <4> QED BY <1>1, <1>3, <3>0, <4>1, Zenon DEF G
    <3>4. buffer' = <<>>
      BY <2>2, <2>3, <3>0 DEF CompleteFrame
    <3>5. TypeOK'
      <4>1. events' \in 0 .. MaxEvents + 1
        BY <1>4, <3>0, <3>1, DecoderAssumption
      <4> QED BY <3>0, <3>2, <3>4, <4>1 DEF DecoderInv, TypeOK
    <3>6. Sizes'
      BY <1>1, <3>0, <3>1, <3>4 DEF DecoderInv, Sizes
    <3>7. BufferBounded'
      BY <3>4, DecoderAssumption DEF BufferBounded
    <3>8. Searched'
      BY <3>0 DEF Searched
    <3>9. Decoded'
      <4>1. Progress(G, buffer', chunk' \o body')
        BY <2>2, <3>0, Zenon DEF rest
      <4>2. Progress(frames \o found, buffer, chunk \o body)'
        BY <3>0, <3>3, <4>1, Zenon DEF Progress
      <4>3. WithinLimits(frames \o found)'
        BY <3>0, <3>1, <3>3, Zenon DEF WithinLimits
      <4>4. pc' # "error"
        BY <3>0
      <4> QED BY <4>2, <4>3, <4>4 DEF Decoded
    <3> QED BY <3>5, <3>6, <3>7, <3>8, <3>9, Zenon DEF DecoderInv
  <2> QED BY <2>4, <2>5
<1> QED BY <1>5, <1>6, <1>7

-----------------------------------------------------------------------------
(* Every reachable state                                                       *)

\* Every step of the decoder keeps the invariant.
LEMMA DecoderStep ==
  ASSUME DecoderInv, [Next]_vars
  PROVE  DecoderInv'
<1>1. CASE Push
  BY <1>1, PushStep
<1>2. CASE TakePiece
  BY <1>2, TakePieceStep
<1>3. CASE TakeFrame
  BY <1>3, TakeFrameStep
<1>4. CASE PieceDone
  BY <1>4, PieceDoneStep
<1>5. CASE Finish
  BY <1>5, FinishStep
<1>6. CASE UNCHANGED vars
  <2>1. UNCHANGED <<body, chunk, buffer, total, events, scan_from, found, frames, pc, arrived>>
    BY <1>6 DEF vars
  <2>2. TypeOK' /\ Sizes' /\ BufferBounded' /\ Searched'
    BY <2>1 DEF DecoderInv, TypeOK, Sizes, BufferBounded, Searched
  <2>3. Decoded'
    BY <2>1, Zenon DEF DecoderInv, Decoded, Progress, WithinLimits
  <2> QED BY <2>2, <2>3 DEF DecoderInv
<1> QED BY <1>1, <1>2, <1>3, <1>4, <1>5, <1>6 DEF Next

\* The invariant the proofs rest on: between two steps the frames handed on, the frames
\* found in the current chunk and what is left are the body and its reference division
\* (BoundedSseDecoder).
THEOREM DecoderInvariant == Spec => []DecoderInv
<1>1. DecoderInv /\ [Next]_vars => DecoderInv'
  BY DecoderStep
<1> QED BY <1>1, DecoderInit, PTL DEF Spec

\* The decoder's fields keep their types; in particular the search never starts
\* beyond the buffer and the count of events stops at its limit.
THEOREM DecoderTypeCorrect == Spec => []TypeOK
<1>1. DecoderInv => TypeOK
  BY DEF DecoderInv
<1> QED BY <1>1, DecoderInvariant, PTL

\* Whatever the chunks and the limits, at most one frame and one piece are buffered
\* (MAX_NATIVE_SSE_FRAME_BYTES, take_piece).
THEOREM DecoderBufferBounded == Spec => []BufferBounded
<1>1. DecoderInv => BufferBounded
  BY DEF DecoderInv
<1> QED BY <1>1, DecoderInvariant, PTL

\* Searching only the last bytes of the buffer again overlooks no blank line, wherever
\* the chunks are cut (scan_from).
THEOREM DecoderOverlooksNothing == Spec => []NothingOverlooked
<1>1. DecoderInv => NothingOverlooked
  BY Zenon DEF DecoderInv, Searched, NothingOverlooked
<1> QED BY <1>1, DecoderInvariant, PTL

\* The frames handed on are the first frames of the body, in order, and before an error
\* no byte is lost or doubled (BoundedSseDecoder::push).
THEOREM DecoderFrames == Spec => []FramesOfBody
<1>1. ASSUME DecoderInv PROVE FramesOfBody
  <2>0. /\ frames \in Seq(Seq(Byte)) /\ found \in Seq(Seq(Byte))
        /\ frames \o found \in Seq(Seq(Byte))
        /\ buffer \in Seq(Byte) /\ chunk \in Seq(Byte) /\ body \in Seq(Byte)
        /\ chunk \o body \in Seq(Byte) /\ arrived \in Seq(Byte)
    BY <1>1, DecoderTypes
  <2>1. \E ss \in Seq(Seq(Byte)) : Reference(arrived) = frames \o ss
    <3>1. CASE pc = "error"
      BY <1>1, <3>1 DEF DecoderInv, Decoded
    <3>2. CASE pc # "error"
      <4>1. Progress(frames \o found, buffer, chunk \o body)
        BY <1>1, <3>2 DEF DecoderInv, Decoded
      <4> DEFINE uu == From(arrived)[Len(Joined(frames \o found))]
      <4>2. uu \in Seq(Seq(Byte))
        BY <2>0, <4>1, ProgressFacts, Zenon
      <4>3. Reference(arrived) = (frames \o found) \o uu
        BY <4>1, Zenon DEF Progress
      <4> HIDE DEF uu
      <4>4. found \o uu \in Seq(Seq(Byte))
        BY <2>0, <4>2
      <4>5. (frames \o found) \o uu = frames \o (found \o uu)
        BY <2>0, <4>2, RegroupFrames, Zenon
      <4> QED BY <4>3, <4>4, <4>5, Zenon
    <3> QED BY <3>1, <3>2
  <2>2. PICK ss \in Seq(Seq(Byte)) : Reference(arrived) = frames \o ss
    BY <2>1
  <2>3. /\ Len(frames) <= Len(frames \o ss)
        /\ \A n \in DOMAIN frames : frames[n] = (frames \o ss)[n]
    BY <2>0
  <2>4. ASSUME pc # "error"
        PROVE  Joined(frames) \o Joined(found) \o buffer \o chunk \o body = arrived
    <3>1. arrived = Joined(frames \o found) \o (buffer \o (chunk \o body))
      BY <1>1, <2>4, Zenon DEF DecoderInv, Decoded, Progress
    <3>2. Joined(frames \o found) = Joined(frames) \o Joined(found)
      BY <2>0, JoinedConcat, Zenon
    <3> DEFINE J == Joined(frames) \o Joined(found)
    <3>3. J \in Seq(Byte)
      <4>1. Joined(frames) \in Seq(Byte) /\ Joined(found) \in Seq(Byte)
        BY <2>0, JoinedType, Zenon
      <4> QED BY <4>1
    <3> HIDE DEF J
    <3>4. ((J \o buffer) \o chunk) \o body = (J \o buffer) \o (chunk \o body)
      <4>1. J \o buffer \in Seq(Byte)
        BY <2>0, <3>3
      <4> QED BY <2>0, <4>1, Regroup, Zenon
    <3>5. (J \o buffer) \o (chunk \o body) = J \o (buffer \o (chunk \o body))
      BY <2>0, <3>3, Regroup, Zenon
    <3> QED BY <3>1, <3>2, <3>4, <3>5, Zenon DEF J
  <2> QED BY <2>2, <2>3, <2>4, Zenon DEF FramesOfBody
<1>2. DecoderInv => FramesOfBody
  BY <1>1
<1> QED BY <1>2, DecoderInvariant, PTL

\* The decoding ends well only with all the frames of a body that consists of frames
\* within the limits, and fails only for other bodies (BoundedSseDecoder::finish).
THEOREM DecoderEndsWell == Spec => []EndsWellIfWellFormed
<1>1. ASSUME DecoderInv, pc = "finished" PROVE WellFormed(arrived) /\ frames = Reference(arrived)
  <2>0. /\ frames \in Seq(Seq(Byte)) /\ arrived \in Seq(Byte)
    BY <1>1, DecoderTypes
  <2>1. /\ found = <<>> /\ buffer = <<>> /\ chunk = <<>> /\ body = <<>>
        /\ total + Len(body) = Len(arrived) /\ total <= MaxTotal /\ total \in Nat
        /\ events <= MaxEvents
    BY <1>1 DEF DecoderInv, Sizes, TypeOK
  <2>2. frames \o found = frames /\ buffer \o (chunk \o body) = <<>>
    BY <2>0, <2>1
  <2>3. /\ arrived = Joined(frames \o found) \o (buffer \o (chunk \o body))
        /\ Reference(arrived) = (frames \o found) \o From(arrived)[Len(Joined(frames \o found))]
    <3>1. Progress(frames \o found, buffer, chunk \o body)
      BY <1>1 DEF DecoderInv, Decoded
    <3> QED BY <3>1, Zenon DEF Progress
  <2>4. Joined(frames) \in Seq(Byte)
    BY <2>0, JoinedType, Zenon
  <2>5. arrived = Joined(frames)
    <3>1. Joined(frames) \o <<>> = Joined(frames)
      BY <2>4, ConcatEmptySeq
    <3> QED BY <2>2, <2>3, <3>1, Zenon
  <2>6. Reference(arrived) = frames
    <3>1. From(arrived)[Len(arrived)] = <<>>
      BY <2>0, NothingAfterEnd
    <3>2. frames \o <<>> = frames
      BY <2>0, ConcatEmptySeq
    <3>3. Reference(arrived) = frames \o From(arrived)[Len(Joined(frames))]
      BY <2>2, <2>3, Zenon
    <3> QED BY <2>5, <3>1, <3>2, <3>3, Zenon
  <2>7. WithinLimits(frames)
    <3>1. WithinLimits(frames \o found)
      BY <1>1 DEF DecoderInv, Decoded
    <3> QED BY <2>2, <3>1, Zenon
  <2>8. Len(arrived) <= MaxTotal /\ Len(frames) <= MaxEvents
    BY <2>1, <2>7 DEF WithinLimits
  <2>9. /\ \A n \in DOMAIN frames : Len(frames[n]) <= MaxFrame
        /\ \A i \in DOMAIN arrived : arrived[i] # Bad
    <3>1. DOMAIN frames = 1 .. Len(frames) /\ DOMAIN arrived = 1 .. Len(arrived)
      BY <2>0
    <3> QED BY <2>5, <2>7, <3>1, Zenon DEF WithinLimits
  <2> QED BY <2>5, <2>6, <2>8, <2>9, Zenon DEF WellFormed
<1>2. DecoderInv => EndsWellIfWellFormed
  <2>1. DecoderInv /\ pc = "error" => ~WellFormed(arrived)
    BY DEF DecoderInv, Decoded
  <2> QED BY <1>1, <2>1, Zenon DEF EndsWellIfWellFormed
<1> QED BY <1>2, DecoderInvariant, PTL
=============================================================================
