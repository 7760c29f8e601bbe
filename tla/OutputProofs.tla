----------------------------- MODULE OutputProofs -----------------------------
(***************************************************************************)
(* Proofs about OutputWriter for streams, chunks, buffers and lines of every *)
(* length: what is passed on is the stream, Close flushes it, and stdout     *)
(* holds its lines in their order.                                          *)
(***************************************************************************)
EXTENDS OutputWriter, SequenceTheorems, WellFoundedInduction, TLAPS

-----------------------------------------------------------------------------
(* The stream *)

LEMMA MinOfNats ==
    ASSUME NEW S \in SUBSET Nat, S # {}
    PROVE  Min(S) \in S /\ \A y \in S : Min(S) <= y
<1>1. IsWellFoundedOn(OpToRel(<, Nat), Nat)
  BY NatLessThanWellFounded
<1>2. \E x \in S : \A y \in S : ~ (<<y, x>> \in OpToRel(<, Nat))
  BY <1>1, WFMin
<1>3. \E x \in S : \A y \in S : x <= y
  <2>1. PICK x \in S : \A y \in S : ~ (<<y, x>> \in OpToRel(<, Nat))
    BY <1>2
  <2>2. ASSUME NEW y \in S PROVE x <= y
    <3>1. x \in Nat /\ y \in Nat
      OBVIOUS
    <3>2. ~(y < x)
      BY <2>1, <3>1 DEF OpToRel
    <3>3. QED
      BY <3>1, <3>2
  <2>3. QED
    BY <2>2
<1>4. QED
  BY <1>3 DEF Min

\* the stream goes on where it stopped
LEMMA StreamGoesOn ==
    ASSUME NEW n \in Nat, NEW m \in Nat, n <= m
    PROVE  Stream(n) \o Positions(n + 1, m) = Stream(m)
<1> DEFINE s == Stream(n)
           p == Positions(n + 1, m)
<1>1. s \in Seq(Nat) /\ Len(s) = n /\ \A i \in 1 .. n : s[i] = i
  BY DEF Stream
<1>2. p \in Seq(Nat) /\ Len(p) = m - n /\ \A i \in 1 .. m - n : p[i] = n + i
  BY DEF Positions
<1>3. Stream(m) \in Seq(Nat) /\ Len(Stream(m)) = m /\ \A i \in 1 .. m : Stream(m)[i] = i
  BY DEF Stream
<1> HIDE DEF s, p
<1>4. s \o p \in Seq(Nat) /\ Len(s \o p) = m
  BY <1>1, <1>2
<1>5. \A i \in 1 .. m : (s \o p)[i] = i
  BY <1>1, <1>2
<1>6. s \o p = Stream(m)
  BY <1>3, <1>4, <1>5, SeqEqual
<1>7. QED
  BY <1>6 DEF s, p

LEMMA StreamBegins ==
    ASSUME NEW n \in Nat
    PROVE  <<>> \o Positions(1, n) = Stream(n)
<1>1. Positions(1, n) = Stream(n)
  BY DEF Positions, Stream
<1>2. Stream(n) \in Seq(Nat)
  BY DEF Stream
<1>3. <<>> \o Stream(n) = Stream(n)
  BY <1>2
<1>4. QED
  BY <1>1, <1>3

LEMMA StreamOfNothing == Stream(0) = <<>>
BY DEF Stream

LEMMA MinOfTwo ==
    ASSUME NEW a \in Int, NEW b \in Int
    PROVE  Min({a, b}) = IF a <= b THEN a ELSE b
<1> DEFINE m == IF a <= b THEN a ELSE b
<1>1. \A x \in {a, b} : (\A y \in {a, b} : x <= y) <=> x = m
  OBVIOUS
<1>2. m \in {a, b}
  OBVIOUS
<1> HIDE DEF m
<1>3. Min({a, b}) = m
  BY <1>1, <1>2 DEF Min
<1>4. QED
  BY <1>3 DEF m

LEMMA StreamIsSeq ==
    ASSUME NEW n \in Nat
    PROVE  Stream(n) \in Seq(Nat) /\ Len(Stream(n)) = n /\ \A i \in 1 .. n : Stream(n)[i] = i
BY DEF Stream

\* what comes first of a stream, or of a sequence, is a stream
LEMMA FirstOfStream ==
    ASSUME NEW n \in Nat, NEW m \in Nat, n <= m
    PROVE  SubSeq(Stream(m), 1, n) = Stream(n)
<1> DEFINE s == SubSeq(Stream(m), 1, n)
<1>1. \A i \in 1 .. n : Stream(m)[i] = i
  BY StreamIsSeq
<1>2. 1 \in Int /\ n \in Int /\ \A i \in 1 .. n : Stream(m)[i] \in Nat
  BY <1>1
<1>3. s \in Seq(Nat) /\ Len(s) = (IF 1 <= n THEN n - 1 + 1 ELSE 0)
      /\ \A i \in 1 .. n - 1 + 1 : s[i] = Stream(m)[1 + i - 1]
  BY ONLY <1>2, SubSeqProperties
<1> HIDE DEF s
<1>4. Len(s) = n /\ \A i \in 1 .. n : s[i] = i
  BY <1>1, <1>3
<1>5. s = Stream(n)
  BY <1>3, <1>4, StreamIsSeq, SeqEqual
<1>6. QED
  BY <1>5 DEF s

LEMMA StreamPrefix ==
    ASSUME NEW n \in Nat, NEW m \in Nat, n <= m
    PROVE  IsPrefix(Stream(n), Stream(m))
BY StreamIsSeq, FirstOfStream DEF IsPrefix


-----------------------------------------------------------------------------
(* Types *)

(* The Write at hand has a byte, and a line at hand is no longer than a     *)
(* scanner takes.                                                           *)
TInv == /\ TypeOK
        /\ chunk.from <= chunk.to + 1
        /\ copier \in {"pipe", "await", "delegate"} => chunk.from <= chunk.to
        /\ copier = "await" => got < chunk.to
        /\ taken - printed <= MaxToken   \* the token that the scanner holds

LEMMA TokenInBuffer ==
    ASSUME TInv
    PROVE  TokenLen \in 0 .. got /\ (got > 0 => TokenLen > 0)
<1> DEFINE S == (newlines \cap 1 .. got) \cup {got}
<1>1. got \in Nat
  BY DEF TInv, TypeOK, Interval
<1>2. S \in SUBSET Nat /\ S # {} /\ S \subseteq (1 .. got) \cup {got}
  BY <1>1
<1>3. Min(S) \in S
  BY <1>2, MinOfNats
<1>4. TokenLen \in S
  BY <1>3 DEF TokenLen
<1>5. QED
  BY <1>1, <1>2, <1>4

LEMMA RoomForSome ==
    ASSUME TInv, got < chunk.to
    PROVE  Room \in 1 .. chunk.to - got
<1> DEFINE S == {BufSize - (got % BufSize), chunk.to - got}
<1>1. got \in Nat /\ chunk.to \in Nat /\ BufSize \in Nat \ {0}
  BY OutputAssumption DEF TInv, TypeOK, Interval
<1>2. got % BufSize \in 0 .. BufSize - 1
  BY <1>1
<1>3. S \in SUBSET Nat /\ S # {} /\ 0 \notin S
  BY <1>1, <1>2
<1>4. Min(S) \in S /\ Min(S) <= chunk.to - got
  BY <1>3, MinOfNats
<1>5. QED
  BY <1>1, <1>3, <1>4 DEF Room

\* a Write hands over the bytes of an interval
LEMMA ForwardType ==
    ASSUME TInv, NEW from \in 1 .. StreamLen, NEW to \in from .. StreamLen, Forward(from, to)
    PROVE  /\ forwarded' \in Seq(1 .. StreamLen)
           /\ ends' \subseteq 1 .. Len(forwarded')
           /\ Len(forwarded) \in Nat /\ Len(forwarded') >= Len(forwarded)
<1>1. StreamLen \in Nat /\ from \in Nat /\ to \in Nat
  BY OutputAssumption
<1>2. Positions(from, to) \in Seq(1 .. StreamLen) /\ Len(Positions(from, to)) = to - from + 1
  BY <1>1 DEF Positions
<1>3. forwarded \in Seq(1 .. StreamLen) /\ ends \subseteq 1 .. Len(forwarded)
  BY DEF TInv, TypeOK
<1>4. /\ forwarded' = forwarded \o Positions(from, to)
      /\ ends' = ends \cup {Len(forwarded) + to - from + 1}
  BY DEF Forward
<1> HIDE DEF Forward
<1>5. /\ forwarded' \in Seq(1 .. StreamLen)
      /\ Len(forwarded') = Len(forwarded) + (to - from + 1)
      /\ Len(forwarded) \in Nat
  <2>1. forwarded \o Positions(from, to) \in Seq(1 .. StreamLen)
        /\ Len(forwarded \o Positions(from, to)) = Len(forwarded) + Len(Positions(from, to))
    BY <1>2, <1>3, ConcatProperties
  <2>2. Len(forwarded) \in Nat
    BY <1>3, LenProperties
  <2>3. QED
    BY <1>2, <1>4, <2>1, <2>2
<1>6. Len(forwarded) + to - from + 1 = Len(forwarded')
  BY <1>1, <1>5
<1>7. Len(forwarded') \in Nat /\ Len(forwarded') >= 1 /\ Len(forwarded') >= Len(forwarded)
  BY <1>1, <1>5
<1>8. ends' \subseteq 1 .. Len(forwarded')
  <2>1. 1 .. Len(forwarded) \subseteq 1 .. Len(forwarded')
    BY <1>5, <1>7
  <2>2. Len(forwarded') \in 1 .. Len(forwarded')
    BY <1>7
  <2>3. ends' = ends \cup {Len(forwarded')}
    BY <1>4, <1>6
  <2>4. QED
    BY <1>3, <2>1, <2>2, <2>3
<1>9. QED
  BY <1>5, <1>7, <1>8

LEMMA TInvCorrect == Spec => []TInv
<1>1. Init => TInv
  <2> SUFFICES ASSUME Init PROVE TInv
    OBVIOUS
  <2>1. Len(forwarded) = 0 /\ forwarded \in Seq(1 .. StreamLen)
    BY DEF Init
  <2>2. chunk \in Interval /\ chunk.from = 1 /\ chunk.to = 0
    BY OutputAssumption DEF Init, Interval
  <2>3. /\ newlines \subseteq 1 .. StreamLen /\ got = 0 /\ taken = 0 /\ printed = 0
        /\ ends = {} /\ errors = {} /\ copier = "read"
        /\ json \in BOOLEAN /\ morpher = "reading" /\ readerErr = FALSE /\ scanner = "scanning"
    BY DEF Init
  <2>4. TypeOK
    <3>1. got \in 0 .. chunk.to /\ taken \in 0 .. Len(forwarded) /\ printed \in 0 .. taken
      BY <2>1, <2>2, <2>3
    <3>2. QED
      BY <2>1, <2>2, <2>3, <3>1 DEF TypeOK
  <2>5. QED
    BY <2>2, <2>3, <2>4, OutputAssumption DEF TInv
<1>2. TInv /\ [Next]_vars => TInv'
  <2> SUFFICES ASSUME TInv, [Next]_vars PROVE TInv'
    OBVIOUS
  <2>0. /\ StreamLen \in Nat /\ chunk.to \in 0 .. StreamLen /\ chunk.from \in 1 .. StreamLen + 1
        /\ got \in 0 .. chunk.to
        /\ Len(forwarded) \in Nat /\ taken \in 0 .. Len(forwarded) /\ printed \in 0 .. taken
    BY OutputAssumption DEF TInv, TypeOK, Interval
  <2>1. CASE ReadChunk
    <3>1. PICK n \in 1 .. MaxChunk : /\ chunk.to + n <= StreamLen
                                     /\ chunk' = [from |-> chunk.to + 1, to |-> chunk.to + n]
      BY <2>1 DEF ReadChunk
    <3>2. n \in Nat \ {0}
      BY <3>1, OutputAssumption
    <3>3. chunk' \in Interval /\ chunk'.from <= chunk'.to /\ got \in 0 .. chunk'.to
      BY <2>0, <3>1, <3>2 DEF Interval
    <3>4. QED
      BY <2>1, <3>3 DEF ReadChunk, TInv, TypeOK, Interval, passed
  <2>2. CASE EndOfOutput \/ PipeWriteReturns \/ PipeWriteFails \/ CloseWriter \/ Exit
             \/ DelegateReturns \/ CloseReturns
    <3>1. /\ copier' \in {"eof", "read", "await", "failed", "close", "closed", "exited"}
          /\ copier' = "await" => copier = "pipe" /\ got < chunk.to
          /\ errors' \subseteq {"copy", "close"}
          /\ UNCHANGED <<newlines, json, chunk, got, morpher, readerErr, forwarded, ends,
                         scanner, taken, printed>>
      BY <2>2 DEF EndOfOutput, PipeWriteReturns, PipeWriteFails, CloseWriter, Exit,
                  DelegateReturns, CloseReturns, TInv, TypeOK, passed
    <3>2. QED
      BY <3>1 DEF TInv, TypeOK
  <2>3. CASE WriteDelegate
    <3>1. CASE readerErr
      BY <2>3, <3>1 DEF WriteDelegate, TInv, TypeOK, passed
    <3>2. CASE ~readerErr
      <4>1. Forward(chunk.from, chunk.to) /\ copier = "await" /\ copier' = "delegate"
            /\ UNCHANGED <<newlines, json, chunk, got, morpher, readerErr, scanner, taken, printed,
                           errors>>
        BY <2>3, <3>2 DEF WriteDelegate
      <4>2. chunk.from \in 1 .. StreamLen /\ chunk.to \in chunk.from .. StreamLen
        BY <2>0, <4>1 DEF TInv
      <4>3. /\ forwarded' \in Seq(1 .. StreamLen) /\ ends' \subseteq 1 .. Len(forwarded')
            /\ Len(forwarded') >= Len(forwarded)
        BY <4>1, <4>2, ForwardType
      <4>4. Len(forwarded') \in Nat
        BY <4>3
      <4>5. taken \in 0 .. Len(forwarded')
        BY <2>0, <4>3, <4>4
      <4>6. QED
        BY <4>1, <4>3, <4>5 DEF TInv, TypeOK
    <3>3. QED
      BY <3>1, <3>2
  <2>4. CASE FillBuffer
    <3>1. got' \in 0 .. chunk.to
      BY <2>0, <2>4, RoomForSome DEF FillBuffer
    <3>2. copier = "pipe" /\ morpher' \in {"found", "reading"}
          /\ UNCHANGED <<newlines, json, copier, chunk, readerErr, forwarded, ends, scanner, taken,
                         printed, errors>>
      BY <2>4 DEF FillBuffer, passed
    <3>3. QED
      BY <3>1, <3>2 DEF TInv, TypeOK
  <2>5. CASE ReadEOF \/ CloseReader
    BY <2>5 DEF ReadEOF, CloseReader, TInv, TypeOK, passed
  <2>6. ASSUME NEW from \in 1 .. StreamLen, NEW to \in from .. StreamLen,
               Forward(from, to) \/ UNCHANGED passed,
               UNCHANGED <<newlines, json, copier, chunk, got, scanner, taken, printed, errors>>,
               morpher' \in {"token", "rest"}, readerErr' \in BOOLEAN
        PROVE  TInv'
    <3>1. CASE Forward(from, to)
      <4>1. /\ forwarded' \in Seq(1 .. StreamLen) /\ ends' \subseteq 1 .. Len(forwarded')
            /\ Len(forwarded') >= Len(forwarded)
        BY <3>1, ForwardType
      <4>2. Len(forwarded') \in Nat
        BY <4>1
      <4>3. taken \in 0 .. Len(forwarded')
        BY <2>0, <4>1, <4>2
      <4>4. QED
        BY <2>6, <4>1, <4>3 DEF TInv, TypeOK
    <3>2. CASE UNCHANGED passed
      BY <2>6, <3>2 DEF TInv, TypeOK, passed
    <3>3. QED
      BY <2>6, <3>1, <3>2
  <2>7. CASE WriteToken \/ WriteRest
    <3>1. UNCHANGED <<newlines, json, copier, chunk, got, scanner, taken, printed, errors>>
          /\ morpher' \in {"token", "rest"} /\ readerErr' \in BOOLEAN
      BY <2>7 DEF WriteToken, WriteRest, ForwardError, TInv, TypeOK
    <3>2. CASE UNCHANGED passed
      BY <3>1, <3>2 DEF TInv, TypeOK, passed
    <3>3. CASE WriteToken /\ TokenLen > 0
      <4>1. 1 \in 1 .. StreamLen /\ TokenLen \in 1 .. StreamLen /\ Forward(1, TokenLen)
        BY <2>0, <3>3, TokenInBuffer DEF WriteToken
      <4>2. QED
        BY <2>6, <3>1, <4>1
    <3>4. CASE WriteRest /\ got > TokenLen
      <4>1. TokenLen + 1 \in 1 .. StreamLen /\ got \in TokenLen + 1 .. StreamLen
            /\ Forward(TokenLen + 1, got)
        BY <2>0, <3>4, TokenInBuffer DEF WriteRest
      <4>2. QED
        BY <2>6, <3>1, <4>1
    <3>5. QED
      BY <2>7, <3>2, <3>3, <3>4 DEF WriteToken, WriteRest
  <2>8. CASE CloseReaderDone
    BY <2>8 DEF CloseReaderDone, ForwardError, TInv, TypeOK, passed
  <2>9. CASE ScanLines
    <3>1. taken' \in 0 .. Len(forwarded) /\ printed' \in 0 .. taken'
          /\ scanner' \in {"scanning", "dead"} /\ taken' - printed' <= MaxToken
      <4>1. CASE Scan
        <5> DEFINE S == {Len(forwarded) - taken, MaxToken - (taken - printed)}
        <5>1. PICK n \in 1 .. Min(S) : taken' = taken + n
          BY <4>1 DEF Scan
        <5>2. UNCHANGED <<printed, scanner>>
          BY <4>1 DEF Scan
        <5>3. QED
          <6>1. Min(S) <= Len(forwarded) - taken /\ Min(S) <= MaxToken - (taken - printed)
                /\ Min(S) \in Int
            <7>1. Len(forwarded) - taken \in Int /\ MaxToken - (taken - printed) \in Int
              BY <2>0, OutputAssumption
            <7>2. Min(S) = IF Len(forwarded) - taken <= MaxToken - (taken - printed)
                           THEN Len(forwarded) - taken ELSE MaxToken - (taken - printed)
              BY <7>1, MinOfTwo
            <7>3. QED
              BY <7>1, <7>2
          <6>2. PICK k \in Int : k = Min(S)
            BY <6>1
          <6> HIDE DEF S
          <6>3. /\ n \in 1 .. k /\ k <= Len(forwarded) - taken /\ k <= MaxToken - (taken - printed)
                /\ MaxToken \in Nat
            BY <5>1, <6>1, <6>2, OutputAssumption
          <6>4. taken + n \in 0 .. Len(forwarded) /\ printed \in 0 .. taken + n
                /\ taken + n - printed <= MaxToken
            BY <2>0, <6>3
          <6>5. scanner \in {"scanning", "dead"}
            BY DEF TInv, TypeOK
          <6>6. n \in Int
            BY <6>3
          <6>7. QED
            BY <2>0, <5>1, <5>2, <6>4, <6>5, <6>6, OutputAssumption
      <4>2. CASE WriteLine
        <5>1. LineEnds # {} /\ printed' = FirstLine /\ UNCHANGED <<taken, scanner>>
          BY <4>2 DEF WriteLine
        <5>2. LineEnds \subseteq printed + 1 .. taken /\ LineEnds \subseteq Nat
          BY <2>0 DEF LineEnds
        <5>3. FirstLine \in printed + 1 .. taken
          BY <5>1, <5>2, MinOfNats DEF FirstLine
        <5>4. QED
          BY <2>0, <5>1, <5>3, OutputAssumption DEF TInv, TypeOK
      <4>3. CASE TooLong
        BY <2>0, <4>3 DEF TooLong, TInv, TypeOK
      <4>4. QED
        BY <2>9, <4>1, <4>2, <4>3 DEF ScanLines
    <3>2. QED
      BY <2>9, <3>1 DEF ScanLines, Scan, WriteLine, TooLong, TInv, TypeOK, passed
  <2>10. CASE UNCHANGED vars
    BY <2>10 DEF vars, TInv, TypeOK, passed
  <2>11. QED
    BY <2>1, <2>2, <2>3, <2>4, <2>5, <2>7, <2>8, <2>9, <2>10 DEF Next, Copy, Morph
<1>3. QED
  BY <1>1, <1>2, PTL DEF Spec


(* Type correctness of the copier, the morpher and the scanner.             *)
THEOREM TypeCorrect == Spec => []TypeOK
BY TInvCorrect, PTL DEF TInv

-----------------------------------------------------------------------------
(* The same bytes *)

\* what the morphed writer has while the copier offers a Write: what the
\* morpher read, or else all before this Write
Handed == IF got >= chunk.from - 1 THEN got ELSE chunk.from - 1

(* Between the stream and the morphed writer there are the pipe, the        *)
(* buffer of the morpher and the Write at hand: which bytes are where       *)
(* follows from where the two goroutines are.                               *)
FlowInv ==
    /\ morpher \in {"reading", "found", "morphing"} => forwarded = <<>>
    /\ morpher = "token" => forwarded = Stream(TokenLen)
    /\ morpher = "rest" => forwarded = Stream(got)
    /\ morpher # "done" =>
         /\ copier \in {"read", "pipe", "await", "eof", "close"}
         /\ errors = {}
         /\ got >= chunk.from - 1
         /\ copier \in {"read", "eof", "close"} => got = chunk.to
    /\ morpher = "done" /\ "copy" \notin errors =>
         /\ copier \in {"read", "eof", "close", "closed", "exited"} => forwarded = Stream(chunk.to)
         /\ copier \in {"pipe", "await"} => forwarded = Stream(Handed)
         /\ copier = "delegate" /\ ~PipedBefore => forwarded = Stream(chunk.to)
         /\ copier # "failed"
    /\ "copy" \in errors => copier \in {"failed", "close", "closed", "exited"}

\* numbers that SMT knows to be such
LEMMA Positive ==
    ASSUME TInv
    PROVE  /\ chunk.from \in Nat \ {0} /\ chunk.to \in Nat /\ got \in Nat
           /\ got <= chunk.to /\ chunk.from <= chunk.to + 1
           /\ TokenLen \in Nat /\ TokenLen <= got
           /\ Handed \in Nat /\ Handed <= chunk.to
<1>1. /\ chunk.from \in Nat \ {0} /\ chunk.to \in Nat /\ got \in Nat
      /\ got <= chunk.to /\ chunk.from <= chunk.to + 1
  BY OutputAssumption DEF TInv, TypeOK, Interval
<1>2. TokenLen \in Nat /\ TokenLen <= got
  BY <1>1, TokenInBuffer
<1>3. QED
  BY <1>1, <1>2 DEF Handed

LEMMA FlowInvCorrect == Spec => []FlowInv
<1>1. Init => FlowInv
  BY DEF Init, FlowInv
<1>2. FlowInv /\ TInv /\ [Next]_vars => FlowInv'
  <2> SUFFICES ASSUME FlowInv, TInv, [Next]_vars PROVE FlowInv'
    OBVIOUS
  <2>1. CASE ReadChunk
    <3>1. PICK n \in 1 .. MaxChunk : /\ chunk.to + n <= StreamLen
                                     /\ chunk' = [from |-> chunk.to + 1, to |-> chunk.to + n]
      BY <2>1 DEF ReadChunk
    <3>2. n \in Nat \ {0}
      BY <3>1, OutputAssumption
    <3>3. chunk'.from = chunk.to + 1 /\ chunk'.to = chunk.to + n
      BY <3>1
    <3>4. UNCHANGED <<newlines, got, morpher, forwarded, errors>> /\ copier = "read"
          /\ copier' = "pipe"
      BY <2>1 DEF ReadChunk, passed
    <3>5. UNCHANGED TokenLen
      BY <3>4 DEF TokenLen
    <3>6. got = chunk.to => got >= chunk'.from - 1
      BY <3>3, Positive
    <3>7. Handed' = chunk.to
      BY <3>3, <3>4, Positive DEF Handed
    <3>8. QED
      BY <3>4, <3>5, <3>6, <3>7 DEF FlowInv
  <2>2. CASE EndOfOutput \/ PipeWriteReturns \/ PipeWriteFails \/ CloseWriter \/ Exit
    <3>1. UNCHANGED <<newlines, chunk, got, morpher, forwarded, errors>>
          /\ \/ copier = "read" /\ copier' = "eof"
             \/ copier = "pipe" /\ copier' = "read" /\ got = chunk.to
             \/ copier = "pipe" /\ copier' = "await"
             \/ copier \in {"eof", "failed"} /\ copier' = "close"
             \/ copier = "closed" /\ copier' = "exited"
      BY <2>2 DEF EndOfOutput, PipeWriteReturns, PipeWriteFails, CloseWriter, Exit, passed
    <3>2. UNCHANGED <<TokenLen, Handed>>
      BY <3>1 DEF TokenLen, Handed
    <3>3. got = chunk.to => Handed = chunk.to
      BY Positive DEF Handed
    <3>4. QED
      BY <3>1, <3>2, <3>3 DEF FlowInv
  <2>3. CASE WriteDelegate
    <3>1. copier = "await" /\ morpher = "done" /\ UNCHANGED <<newlines, chunk, got, morpher>>
      BY <2>3 DEF WriteDelegate
    <3>2. CASE readerErr
      BY <2>3, <3>1, <3>2 DEF WriteDelegate, FlowInv
    <3>3. CASE ~readerErr
      <4>1. copier' = "delegate" /\ UNCHANGED errors
            /\ forwarded' = forwarded \o Positions(chunk.from, chunk.to)
        BY <2>3, <3>3 DEF WriteDelegate, Forward
      <4>2. UNCHANGED PipedBefore
        BY <3>1 DEF PipedBefore
      <4>3. ASSUME ~PipedBefore, "copy" \notin errors
            PROVE  forwarded' = Stream(chunk.to)
        <5>1. Handed = chunk.from - 1
          BY <4>3, Positive DEF PipedBefore, Handed
        <5>2. forwarded = Stream(chunk.from - 1)
          BY <3>1, <4>3, <5>1 DEF FlowInv
        <5>3. chunk.from - 1 \in Nat /\ chunk.to \in Nat /\ chunk.from - 1 <= chunk.to
              /\ chunk.from - 1 + 1 = chunk.from
          BY Positive
        <5>4. QED
          BY <4>1, <5>2, <5>3, StreamGoesOn
      <4>4. QED
        BY <3>1, <4>1, <4>2, <4>3 DEF FlowInv
    <3>4. QED
      BY <3>2, <3>3
  <2>4. CASE DelegateReturns
    <3>1. copier = "delegate" /\ morpher = "done"
          /\ UNCHANGED <<newlines, chunk, got, morpher, forwarded>>
      BY <2>4 DEF DelegateReturns, FlowInv, passed
    <3>2. \/ copier' = "failed" /\ "copy" \in errors'
          \/ copier' = "read" /\ UNCHANGED errors /\ ~PipedBefore
      BY <2>4 DEF DelegateReturns, CopyFails
    <3>3. QED
      BY <3>1, <3>2 DEF FlowInv
  <2>5. CASE CloseReturns
    <3>1. copier = "close" /\ morpher = "done" /\ copier' = "closed"
          /\ UNCHANGED <<newlines, chunk, got, morpher, forwarded>>
      BY <2>5 DEF CloseReturns, ReaderDone, passed
    <3>2. "copy" \in errors' <=> "copy" \in errors
      BY <2>5 DEF CloseReturns
    <3>3. QED
      BY <3>1, <3>2 DEF FlowInv
  <2>6. CASE FillBuffer
    <3>1. morpher = "reading" /\ copier = "pipe" /\ morpher' \in {"found", "reading"}
          /\ got' = got + Room /\ got < chunk.to
          /\ UNCHANGED <<copier, chunk, forwarded, errors>>
      BY <2>6 DEF FillBuffer, passed
    <3>2. got' >= chunk.from - 1
      <4>1. got >= chunk.from - 1
        BY <3>1 DEF FlowInv
      <4>2. Room \in Nat
        BY <3>1, RoomForSome, Positive
      <4>3. QED
        BY <3>1, <4>1, <4>2, Positive
    <3>3. QED
      BY <3>1, <3>2 DEF FlowInv
  <2>7. CASE ReadEOF \/ CloseReader
    <3>1. morpher \in {"reading", "found"} /\ morpher' \in {"found", "morphing"}
          /\ UNCHANGED <<copier, chunk, got, forwarded, errors>>
      BY <2>7 DEF ReadEOF, CloseReader, passed
    <3>2. QED
      BY <3>1 DEF FlowInv
  <2>8. CASE WriteToken
    <3>1. morpher = "morphing" /\ morpher' = "token"
          /\ UNCHANGED <<newlines, copier, chunk, got, errors>>
      BY <2>8 DEF WriteToken
    <3>2. forwarded = <<>> /\ UNCHANGED TokenLen
      BY <3>1 DEF FlowInv, TokenLen
    <3>3. forwarded' = Stream(TokenLen)
      <4>1. CASE TokenLen > 0
        <5>1. forwarded' = <<>> \o Positions(1, TokenLen)
          BY <2>8, <3>2, <4>1 DEF WriteToken, Forward
        <5>2. QED
          BY <5>1, Positive, StreamBegins
      <4>2. CASE TokenLen = 0
        BY <2>8, <3>2, <4>2, StreamOfNothing DEF WriteToken, passed
      <4>3. QED
        BY <4>1, <4>2, Positive
    <3>4. QED
      BY <3>1, <3>2, <3>3 DEF FlowInv
  <2>9. CASE WriteRest
    <3>1. morpher = "token" /\ morpher' = "rest" /\ UNCHANGED <<newlines, copier, chunk, got, errors>>
      BY <2>9 DEF WriteRest
    <3>2. forwarded = Stream(TokenLen)
      BY <3>1 DEF FlowInv
    <3>3. forwarded' = Stream(got)
      <4>1. CASE got > TokenLen
        <5>1. forwarded' = Stream(TokenLen) \o Positions(TokenLen + 1, got)
          BY <2>9, <3>2, <4>1 DEF WriteRest, Forward
        <5>2. QED
          BY <4>1, <5>1, Positive, StreamGoesOn
      <4>2. CASE got = TokenLen
        BY <2>9, <3>2, <4>2, Positive DEF WriteRest, passed
      <4>3. QED
        BY <4>1, <4>2, Positive
    <3>4. QED
      BY <3>1, <3>3 DEF FlowInv
  <2>10. CASE CloseReaderDone
    <3>1. morpher = "rest" /\ morpher' = "done"
          /\ UNCHANGED <<newlines, copier, chunk, got, forwarded, errors>>
      BY <2>10 DEF CloseReaderDone, passed
    <3>2. UNCHANGED Handed /\ Handed = got
      BY <3>1 DEF Handed, FlowInv
    <3>3. QED
      BY <3>1, <3>2 DEF FlowInv
  <2>11. CASE ScanLines \/ UNCHANGED vars
    <3>1. UNCHANGED <<newlines, copier, chunk, got, morpher, forwarded, errors>>
      BY <2>11 DEF ScanLines, Scan, WriteLine, TooLong, vars, passed
    <3>2. UNCHANGED <<TokenLen, Handed, PipedBefore>>
      BY <3>1 DEF TokenLen, Handed, PipedBefore
    <3>3. QED
      BY <3>1, <3>2 DEF FlowInv
  <2>12. QED
    BY <2>1, <2>2, <2>3, <2>4, <2>5, <2>6, <2>7, <2>8, <2>9, <2>10, <2>11
       DEF Next, Copy, Morph
<1>3. QED
  BY <1>1, <1>2, TInvCorrect, PTL DEF Spec


LEMMA StreamPassedOn ==
    ASSUME TInv, FlowInv, "copy" \notin errors, ~CutAtMorph
    PROVE  \E n \in Nat : n <= chunk.to /\ forwarded = Stream(n)
<1>1. CASE morpher \in {"reading", "found", "morphing"}
  <2>1. 0 \in Nat /\ 0 <= chunk.to /\ forwarded = Stream(0)
    BY <1>1, StreamOfNothing, Positive DEF FlowInv
  <2>2. QED
    BY <2>1
<1>2. CASE morpher = "token"
  BY <1>2, Positive DEF FlowInv
<1>3. CASE morpher = "rest"
  BY <1>3, Positive DEF FlowInv
<1>4. CASE morpher = "done"
  <2>1. forwarded = Stream(chunk.to) \/ forwarded = Stream(Handed)
    BY <1>4 DEF FlowInv, CutAtMorph, TInv, TypeOK
  <2>2. QED
    BY <2>1, Positive
<1>5. QED
  BY <1>1, <1>2, <1>3, <1>4 DEF TInv, TypeOK

(* "It will observe the same bytes and order": the morphed writer has a     *)
(* first part of the stream, without a gap and nothing twice, unless the    *)
(* Write at hand was cut in two by the morph or the copy has failed.        *)
THEOREM SameBytesOrFailureCorrect == Spec => []SameBytesOrFailure
<1>1. TInv /\ FlowInv => SameBytesOrFailure
  BY StreamPassedOn, StreamPrefix, Positive DEF SameBytesOrFailure
<1>2. QED
  BY <1>1, TInvCorrect, FlowInvCorrect, PTL

(* Close returns without an error only after the whole stream was passed    *)
(* on, what waited in the buffer of the morpher included.                   *)
THEOREM CloseFlushesCorrect == Spec => []CloseFlushes
<1>1. FlowInv => CloseFlushes
  BY DEF FlowInv, CloseFlushes
<1>2. QED
  BY <1>1, FlowInvCorrect, PTL

-----------------------------------------------------------------------------
(* Lines *)

(* What was printed ends with a line; and a scanner that goes on has taken  *)
(* all when the Write to it is over.                                        *)
LineInv ==
    /\ printed > 0 => EndsLine(printed)
    /\ morpher = "done" /\ copier # "delegate" /\ scanner = "scanning" => taken = Len(forwarded)

\* a Write to the morphed writer changes no line that was there
LEMMA LinesStay ==
    ASSUME TInv, NEW from, NEW to, Forward(from, to), Positions(from, to) \in Seq(Nat),
           UNCHANGED <<newlines, json>>, NEW i \in 1 .. Len(forwarded), EndsLine(i)
    PROVE  EndsLine(i)'
<1>1. forwarded \in Seq(Nat)
  BY OutputAssumption DEF TInv, TypeOK
<1>2. forwarded' = forwarded \o Positions(from, to) /\ ends \subseteq ends'
  BY DEF Forward
<1>3. forwarded'[i] = forwarded[i]
  BY <1>1, <1>2
<1>4. QED
  BY <1>2, <1>3 DEF EndsLine

LEMMA LineInvCorrect == Spec => []LineInv
<1>1. Init => LineInv
  BY DEF Init, LineInv
<1>2. LineInv /\ FlowInv /\ TInv /\ [Next]_vars => LineInv'
  <2> SUFFICES ASSUME LineInv, FlowInv, TInv, [Next]_vars PROVE LineInv'
    OBVIOUS
  <2>0. /\ Len(forwarded) \in Nat /\ taken \in 0 .. Len(forwarded) /\ printed \in 0 .. taken
        /\ printed \in Nat /\ (printed > 0 => printed \in 1 .. Len(forwarded))
    BY DEF TInv, TypeOK
  <2>1. ASSUME NEW from \in Nat, NEW to \in Nat, Forward(from, to),
               UNCHANGED <<newlines, json, printed>>, printed > 0
        PROVE  EndsLine(printed)'
    <3>1. Positions(from, to) \in Seq(Nat)
      BY DEF Positions
    <3>2. PICK i : i = printed
      OBVIOUS
    <3>3. EndsLine(i)'
      BY <2>0, <2>1, <3>1, <3>2, LinesStay DEF LineInv
    <3>4. QED
      BY <2>1, <3>2, <3>3 DEF EndsLine
  <2>2. CASE WriteDelegate
    <3>1. morpher = "done" /\ UNCHANGED <<newlines, json, morpher, scanner, taken, printed>>
          /\ copier = "await"
      BY <2>2 DEF WriteDelegate
    <3>2. CASE readerErr
      BY <2>2, <3>1, <3>2 DEF WriteDelegate, LineInv, EndsLine, passed
    <3>3. CASE ~readerErr
      BY <2>1, <2>2, <3>1, <3>3, Positive DEF WriteDelegate, LineInv
    <3>4. QED
      BY <3>2, <3>3
  <2>3. CASE WriteToken \/ WriteRest
    <3>1. UNCHANGED <<newlines, json, printed>> /\ morpher' # "done"
      BY <2>3 DEF WriteToken, WriteRest
    <3>2. UNCHANGED passed \/ Forward(1, TokenLen) \/ Forward(TokenLen + 1, got)
      BY <2>3 DEF WriteToken, WriteRest
    <3>3. CASE UNCHANGED passed
      BY <3>1, <3>3 DEF LineInv, EndsLine, passed
    <3>4. CASE Forward(1, TokenLen)
      BY <2>1, <3>1, <3>4, Positive DEF LineInv
    <3>5. CASE Forward(TokenLen + 1, got)
      BY <2>1, <3>1, <3>5, Positive DEF LineInv
    <3>6. QED
      BY <3>2, <3>3, <3>4, <3>5
  <2>4. CASE WriteLine
    <3>1. LineEnds # {} /\ printed' = FirstLine
          /\ UNCHANGED <<newlines, json, copier, morpher, forwarded, ends, scanner, taken>>
      BY <2>4 DEF WriteLine, passed
    <3>2. LineEnds \subseteq Nat
      BY <2>0 DEF LineEnds
    <3>3. EndsLine(FirstLine)
      BY <3>1, <3>2, MinOfNats DEF FirstLine, LineEnds
    <3>4. EndsLine(printed)'
      BY <3>1, <3>3 DEF EndsLine
    <3>5. QED
      BY <3>1, <3>4 DEF LineInv
  <2>5. CASE Scan
    <3> DEFINE S == {Len(forwarded) - taken, MaxToken - (taken - printed)}
    <3>1. UNCHANGED <<newlines, json, copier, morpher, forwarded, ends, scanner, printed>>
      BY <2>5 DEF Scan, passed
    <3>2. PICK n \in 1 .. Min(S) : taken' = taken + n
      BY <2>5 DEF Scan
    <3>3. Min(S) \in Int /\ Min(S) <= Len(forwarded) - taken
      BY <2>0, MinOfTwo, OutputAssumption
    <3> HIDE DEF S
    <3>4. taken # Len(forwarded)
      BY <2>0, <3>2, <3>3
    <3>5. QED
      BY <3>1, <3>4 DEF LineInv, EndsLine
  <2>6. CASE TooLong
    BY <2>6 DEF TooLong, LineInv, EndsLine, passed
  <2>7. CASE CloseReaderDone \/ DelegateReturns
    <3>1. UNCHANGED <<newlines, json, forwarded, ends, scanner, taken, printed>> /\ ForwardDone
      BY <2>7 DEF CloseReaderDone, DelegateReturns, passed
    <3>2. QED
      BY <3>1 DEF ForwardDone, LineInv, EndsLine
  <2>8. CASE ReadChunk \/ EndOfOutput \/ PipeWriteReturns \/ PipeWriteFails \/ CloseWriter
             \/ CloseReturns \/ Exit \/ FillBuffer \/ ReadEOF \/ CloseReader \/ UNCHANGED vars
    <3>1. /\ UNCHANGED <<newlines, json, forwarded, ends, scanner, taken, printed>>
          /\ morpher' = "done" => morpher = "done"
          /\ copier = "delegate" => copier' = "delegate"
      BY <2>8 DEF ReadChunk, EndOfOutput, PipeWriteReturns, PipeWriteFails, CloseWriter,
                  CloseReturns, Exit, FillBuffer, ReadEOF, CloseReader, vars, passed
    <3>2. QED
      BY <3>1 DEF LineInv, EndsLine
  <2>9. QED
    BY <2>2, <2>3, <2>4, <2>5, <2>6, <2>7, <2>8 DEF Next, Copy, Morph, ScanLines
<1>3. QED
  BY <1>1, <1>2, TInvCorrect, FlowInvCorrect, PTL DEF Spec

(* stdout holds whole lines of the stream, in their order and none left     *)
(* out; and what is missing at an exit without an error is no more than the *)
(* token of a scanner.                                                      *)
THEOREM LinesInOrderCorrect == Spec => []LinesInOrder
<1>1. TInv /\ FlowInv /\ LineInv => LinesInOrder
  <2> SUFFICES ASSUME TInv, FlowInv, LineInv PROVE LinesInOrder
    OBVIOUS
  <2>1. ASSUME errors = {}, ~CutAtMorph
        PROVE  SubSeq(forwarded, 1, printed) = Stream(printed)
    <3>1. PICK n \in Nat : forwarded = Stream(n)
      BY <2>1, StreamPassedOn
    <3>2. printed \in Nat /\ printed <= n
      BY <3>1, StreamIsSeq DEF TInv, TypeOK
    <3>3. QED
      BY <3>1, <3>2, FirstOfStream
  <2>2. ASSUME copier = "exited", errors = {}, scanner = "scanning"
        PROVE  chunk.to - printed <= MaxToken
    <3>1. forwarded = Stream(chunk.to) /\ morpher = "done"
      BY <2>2 DEF FlowInv
    <3>2. taken = chunk.to
      BY <2>2, <3>1, StreamIsSeq, Positive DEF LineInv
    <3>3. QED
      BY <3>2 DEF TInv
  <2>3. QED
    BY <2>1, <2>2 DEF LinesInOrder, LineInv
<1>2. QED
  BY <1>1, TInvCorrect, FlowInvCorrect, LineInvCorrect, PTL

=============================================================================
