---------------------------- MODULE SseDecoder ----------------------------
(***************************************************************************)
(* BoundedSseDecoder: a body arrives in chunks cut anywhere and is divided *)
(* into frames, each ended by a blank line, where a line may end in CR, LF *)
(* or CRLF.  A chunk is taken over in pieces; after each, only the tail of *)
(* the buffer is searched again.  A limit that is exceeded ends the        *)
(* decoding and drops the frames found in the same chunk.                  *)
(***************************************************************************)
EXTENDS Naturals, Sequences

CONSTANTS
  CR, LF, Text, Bad,   \* bytes: line ends, text, and one that is not UTF-8
  MaxFrame, MaxEvents, MaxTotal,   \* limits of a frame, of frames, of the body
  Piece,               \* bytes taken over at once, 16 KiB in the code
  MaxLen,              \* bound: length of the body
  BadAt                \* bound: the places where Bad is tried

ASSUME DecoderAssumption ==
  /\ MaxFrame \in Nat /\ MaxEvents \in Nat /\ MaxTotal \in Nat /\ MaxLen \in Nat
  /\ Piece \in Nat \ {0}
  /\ CR # LF

Byte == {CR, LF, Text, Bad}

VARIABLES
  body,                \* what is still to arrive
  chunk,               \* the rest of the chunk being pushed
  buffer, total, events, scan_from,
  found,               \* frames of the chunk being pushed
  frames,              \* frames returned to the caller
  pc, arrived          \* arrived: the whole body, for the properties

vars == <<body, chunk, buffer, total, events, scan_from, found, frames, pc, arrived>>

TypeOK ==
  /\ body \in Seq(Byte) /\ chunk \in Seq(Byte) /\ buffer \in Seq(Byte)
  /\ total \in 0 .. Len(arrived) /\ events \in 0 .. MaxEvents + 1
  /\ scan_from \in 0 .. Len(buffer)
  /\ found \in Seq(Seq(Byte)) /\ frames \in Seq(Seq(Byte))
  /\ pc \in {"idle", "piece", "scan", "finished", "error"}

Bodies ==
  UNION {{s \in [1 .. n -> Byte] : \A i \in 1 .. n : s[i] = Bad => i \in BadAt} :
          n \in 0 .. MaxLen}

Init ==
  /\ arrived \in Bodies /\ body = arrived
  /\ chunk = <<>> /\ buffer = <<>> /\ found = <<>> /\ frames = <<>>
  /\ total = 0 /\ events = 0 /\ scan_from = 0
  /\ pc = "idle"

-----------------------------------------------------------------------------
Drop(s, n) == SubSeq(s, n + 1, Len(s))
Take(s, n) == SubSeq(s, 1, n)
AtMost(m, n) == IF n < m THEN n ELSE m
Below(m, n) == IF m < n THEN 0 ELSE m - n          \* saturating_sub

\* Mutant: a CR at the end is a line end at once.
EolAtOnce(s, i, eof) ==
  CASE i > Len(s) -> 0
    [] i <= Len(s) /\ s[i] = LF -> 1
    [] i <= Len(s) /\ s[i] = CR -> IF i < Len(s) /\ s[i + 1] = LF THEN 2 ELSE 1
    [] OTHER -> 0

\* The length of the line end at position i, 0 if there is none yet: a CR at the
\* end may be the first half of a CRLF.
Eol(s, i, eof) ==
  CASE i > Len(s) -> 0
    [] i <= Len(s) /\ s[i] = LF -> 1
    [] i < Len(s) /\ s[i] = CR -> IF s[i + 1] = LF THEN 2 ELSE 1
    [] i = Len(s) /\ s[i] = CR -> IF eof THEN 1 ELSE 0
    [] OTHER -> 0

\* delimiter_end: where the first blank line after `from` bytes ends, or 0.
DelimiterEnd(s, from, eof) ==
  LET scan[i \in 1 .. Len(s) + 1] ==
        IF i > Len(s) THEN 0
        ELSE LET first  == Eol(s, i, eof)
                 second == Eol(s, i + first, eof)
             IN IF first = 0 THEN scan[i + 1]
                ELSE IF second = 0 THEN scan[i + first]
                ELSE i + first + second - 1
  IN scan[from + 1]

\* Nothing is done with the decoder after an error.
Fail ==
  /\ pc' = "error" /\ found' = <<>>
  /\ UNCHANGED <<body, chunk, buffer, total, events, scan_from, frames, arrived>>

-----------------------------------------------------------------------------
(* push *)

\* A chunk of any length arrives; one that exceeds the total is refused whole.
Push ==
  /\ pc = "idle" /\ body # <<>>
  /\ \E k \in 1 .. Len(body) :
       IF total + k > MaxTotal THEN Fail
       ELSE /\ chunk' = Take(body, k) /\ body' = Drop(body, k)
            /\ total' = total + k
            /\ pc' = "piece"
            /\ UNCHANGED <<buffer, events, scan_from, found, frames, arrived>>

TakePiece ==
  /\ pc = "piece" /\ chunk # <<>>
  /\ buffer' = buffer \o Take(chunk, AtMost(Piece, Len(chunk)))
  /\ chunk' = Drop(chunk, AtMost(Piece, Len(chunk)))
  /\ pc' = "scan"
  /\ UNCHANGED <<body, total, events, scan_from, found, frames, arrived>>

\* Mutant: the limit of events is off by one.
TooManyEarly(n) == n >= MaxEvents

TooMany(n) == n > MaxEvents

\* Mutant: the search goes on where it stood in the frame before.
ScanFromKept(end) == scan_from

ScanFromStart(end) == 0

\* take_frame: the first `end` bytes of the buffer are a frame.
Takeable(end) ==
  /\ end <= MaxFrame /\ ~TooMany(events + 1)
  /\ \A i \in 1 .. end : buffer[i] # Bad

Drain(end) ==
  /\ buffer' = Drop(buffer, end) /\ events' = events + 1
  /\ scan_from' = ScanFromStart(end)

TakeFrame ==
  /\ pc = "scan"
  /\ LET end == DelimiterEnd(buffer, scan_from, FALSE)
     IN /\ end # 0
        /\ IF Takeable(end)
           THEN /\ Drain(end) /\ found' = Append(found, Take(buffer, end))
                /\ UNCHANGED <<body, chunk, total, frames, pc, arrived>>
           ELSE Fail

\* Mutant: nothing is searched twice.
NoRescan == Len(buffer)

\* Only a line end split over two pieces is searched again.
Rescan ==
  LET from == Below(Len(buffer), 4)
  IN IF from > 0 /\ buffer[from] = CR /\ buffer[from + 1] = LF THEN from - 1 ELSE from

\* Mutant: an unfinished frame may grow without limit.
NoFrameLimit == FALSE

FrameTooLarge == Len(buffer) > MaxFrame

PieceDone ==
  /\ pc = "scan" /\ DelimiterEnd(buffer, scan_from, FALSE) = 0
  /\ IF FrameTooLarge THEN Fail
     ELSE /\ scan_from' = Rescan
          /\ IF chunk = <<>>
             THEN pc' = "idle" /\ frames' = frames \o found /\ found' = <<>>
             ELSE pc' = "piece" /\ UNCHANGED <<frames, found>>
          /\ UNCHANGED <<body, chunk, buffer, total, events, arrived>>

-----------------------------------------------------------------------------
(* finish *)

CompleteFrame(end) == end = Len(buffer)

Finish ==
  /\ pc = "idle" /\ body = <<>>
  /\ LET end == DelimiterEnd(buffer, 0, TRUE)
     IN \/ /\ buffer = <<>> /\ pc' = "finished"
           /\ UNCHANGED <<body, chunk, buffer, total, events, scan_from, found,
                          frames, arrived>>
        \/ /\ buffer # <<>>
           /\ IF CompleteFrame(end) /\ Takeable(end)
              THEN /\ pc' = "finished" /\ Drain(end)
                   /\ frames' = Append(frames, Take(buffer, end))
                   /\ UNCHANGED <<body, chunk, total, found, arrived>>
              ELSE Fail

Next == Push \/ TakePiece \/ TakeFrame \/ PieceDone \/ Finish

Spec == Init /\ [][Next]_vars

-----------------------------------------------------------------------------
(* Properties.  What the frames of a body are is said without chunks: a frame  *)
(* ends with the first two line ends in a row, where CRLF is one line end.     *)

LineEnd(s, b, i) ==       \* a line end of the frame after b starts at i
  s[i] \in {CR, LF} /\ ~(i > b + 1 /\ s[i] = LF /\ s[i - 1] = CR)
Width(s, i) == IF s[i] = CR /\ i < Len(s) /\ s[i + 1] = LF THEN 2 ELSE 1

FrameEnds(s, b) ==
  {e \in b + 1 .. Len(s) :
     \E i \in b + 1 .. e : LET j == i + Width(s, i)
                           IN /\ LineEnd(s, b, i) /\ j <= e
                              /\ s[j] \in {CR, LF} /\ e = j + Width(s, j) - 1}

Reference(s) ==
  LET from[b \in 0 .. Len(s)] ==
        IF FrameEnds(s, b) = {} THEN <<>>
        ELSE LET e == CHOOSE e \in FrameEnds(s, b) : \A f \in FrameEnds(s, b) : e <= f
             IN <<SubSeq(s, b + 1, e)>> \o from[e]
  IN from[0]

Joined(ss) ==
  LET upto[n \in 0 .. Len(ss)] == IF n = 0 THEN <<>> ELSE upto[n - 1] \o ss[n]
  IN upto[Len(ss)]

\* The whole body is frames within the limits.
WellFormed(s) ==
  /\ Len(s) <= MaxTotal /\ Len(Reference(s)) <= MaxEvents
  /\ \A n \in DOMAIN Reference(s) : Len(Reference(s)[n]) <= MaxFrame
  /\ Joined(Reference(s)) = s
  /\ \A i \in DOMAIN s : s[i] # Bad

\* Whatever the chunks, the frames handed on are the frames of the body, in
\* order, and nothing is lost between them ("every chunk width preserves...",
\* tests/native_stream_parser_contract.rs).
FramesOfBody ==
  /\ Len(frames) <= Len(Reference(arrived))
  /\ \A n \in DOMAIN frames : frames[n] = Reference(arrived)[n]
  /\ pc # "error" => Joined(frames) \o Joined(found) \o buffer \o chunk \o body = arrived

\* Success and failure do not depend on the chunks either: the decoding ends well
\* exactly for the bodies that are complete frames within the limits
\* (BoundedSseDecoder::push, finish).
EndsWellIfWellFormed ==
  /\ pc = "finished" => WellFormed(arrived) /\ frames = Reference(arrived)
  /\ pc = "error" => ~WellFormed(arrived)

\* Searching only the tail misses nothing: between two chunks the buffer holds
\* no blank line (scan_from).
NothingOverlooked == pc = "idle" => DelimiterEnd(buffer, 0, FALSE) = 0

\* Between two pieces at most one frame's worth of bytes is kept, and one piece
\* more while it is searched (MAX_NATIVE_SSE_FRAME_BYTES).
BufferBounded ==
  /\ Len(buffer) <= MaxFrame + Piece
  /\ pc \in {"idle", "piece"} => Len(buffer) <= MaxFrame
=============================================================================
