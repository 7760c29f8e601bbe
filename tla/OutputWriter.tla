------------------------------ MODULE OutputWriter ------------------------------
(***************************************************************************)
(* The way of one output stream of a managed process through container1     *)
(* (harness/golang/internal/harnessio): os/exec copies it, chunk by chunk,   *)
(* into a MorphingWriter, whose goroutine reads the first line, chooses by   *)
(* it where everything goes, and hands over.  A stream that is a JSON log    *)
(* goes to a ScanningWriter of its own; any other is logged, one record per  *)
(* Write, by a logger that is itself behind a ScanningWriter.  The goroutine *)
(* of either ScanningWriter writes line by line to stdout.                  *)
(*                                                                         *)
(* A byte is its position in the stream, a Write the positions from .. to.  *)
(* A pipe is synchronous: a Write to it returns when the reader has taken   *)
(* all of it or has closed it.                                              *)
(* Definitions named Mut... are wrong on purpose, to test the properties.   *)
(***************************************************************************)
EXTENDS Integers, Sequences, SequencesExt, FiniteSetsExt

CONSTANTS StreamLen,  \* bound on the bytes of the stream
          MaxChunk,   \* bytes that io.Copy reads at once, at most
          BufSize,    \* the buffer of a bufio.Reader
          MaxToken    \* the longest line a bufio.Scanner takes

ASSUME OutputAssumption == /\ StreamLen \in Nat
                           /\ {MaxChunk, BufSize, MaxToken} \subseteq Nat \ {0}

VARIABLES newlines,  \* the bytes that are newlines
          json,      \* whether the first line is a JSON log record
          copier,    \* io.Copy of os/exec, then Close and the return of main
          chunk,     \* the bytes of its last Write
          got,       \* bytes that the morpher has read from the pipe
          morpher,   \* the goroutine of NewMorphingWriter
          readerErr, \* its error
          forwarded, \* the bytes of the Writes to the morphed writer, in their order
          ends,      \* and how many they were at the end of each
          scanner,   \* the goroutine of NewScanningWriter behind it
          taken,     \* bytes of forwarded that it has read
          printed,   \* and that it has written to stdout
          errors     \* what was reported: by the copy, by Close

passed == <<forwarded, ends>>
vars == <<newlines, json, copier, chunk, got, morpher, readerErr, passed, scanner, taken,
          printed, errors>>

Interval == [from : 1 .. StreamLen + 1, to : 0 .. StreamLen]

\* the positions of one Write
Positions(from, to) == [i \in 1 .. to - from + 1 |-> from + i - 1]

TypeOK ==
    /\ newlines \subseteq 1 .. StreamLen
    /\ json \in BOOLEAN
    /\ copier \in {"read", "pipe", "await", "delegate", "eof", "failed", "close", "closed", "exited"}
    /\ chunk \in Interval
    /\ got \in 0 .. chunk.to
    /\ morpher \in {"reading", "found", "morphing", "token", "rest", "done"}
    /\ readerErr \in BOOLEAN
    /\ forwarded \in Seq(1 .. StreamLen)
    /\ ends \subseteq 1 .. Len(forwarded)
    /\ scanner \in {"scanning", "dead"}
    /\ taken \in 0 .. Len(forwarded)
    /\ printed \in 0 .. taken
    /\ errors \subseteq {"copy", "close"}

Init ==
    /\ newlines \in SUBSET (1 .. StreamLen)
    /\ json \in BOOLEAN
    /\ copier = "read"
    /\ chunk = [from |-> 1, to |-> 0]
    /\ got = 0
    /\ morpher = "reading"
    /\ readerErr = FALSE
    /\ forwarded = <<>>
    /\ ends = {}
    /\ scanner = "scanning"
    /\ taken = 0
    /\ printed = 0
    /\ errors = {}

-----------------------------------------------------------------------------
(* The morphed writer: a Write to it is over when the scanner has taken all  *)
(* of it, or does not read any more.  The logger drops the error.            *)

Forward(from, to) ==
    /\ forwarded' = forwarded \o Positions(from, to)
    /\ ends' = ends \cup {Len(forwarded) + to - from + 1}
ForwardDone == taken = Len(forwarded) \/ scanner = "dead"
ForwardError == json /\ taken < Len(forwarded)

-----------------------------------------------------------------------------
(* os/exec copies the stream.                                                *)

ReadChunk ==
    /\ copier = "read"
    /\ \E n \in 1 .. MaxChunk :
         /\ chunk.to + n <= StreamLen
         /\ chunk' = [from |-> chunk.to + 1, to |-> chunk.to + n]
    /\ copier' = "pipe"
    /\ UNCHANGED <<newlines, json, got, morpher, readerErr, passed, scanner, taken, printed, errors>>

EndOfOutput ==
    /\ copier = "read"
    /\ copier' = "eof"
    /\ UNCHANGED <<newlines, json, chunk, got, morpher, readerErr, passed, scanner, taken, printed, errors>>

\* MorphingWriter.Write: the select at its top never finds a value, so that every
\* Write tries the pipe first
PipeWriteReturns ==
    /\ copier = "pipe"
    /\ got = chunk.to
    /\ copier' = "read"
    /\ UNCHANGED <<newlines, json, chunk, got, morpher, readerErr, passed, scanner, taken, printed, errors>>

ReaderClosed == morpher \notin {"reading", "found"}

PipeWriteFails ==
    /\ copier = "pipe"
    /\ got < chunk.to
    /\ ReaderClosed
    /\ copier' = "await"
    /\ UNCHANGED <<newlines, json, chunk, got, morpher, readerErr, passed, scanner, taken, printed, errors>>

\* readerDone is closed: writeDelegate(p), all of p
WriteDelegate ==
    /\ copier = "await"
    /\ morpher = "done"
    /\ IF readerErr
       THEN /\ copier' = "failed"
            /\ errors' = errors \cup {"copy"}
            /\ UNCHANGED passed
       ELSE /\ copier' = "delegate"
            /\ Forward(chunk.from, chunk.to)
            /\ UNCHANGED errors
    /\ UNCHANGED <<newlines, json, chunk, got, morpher, readerErr, scanner, taken, printed>>

\* io.Copy fails on an error, and on a Write that claims more than it was given
PipedBefore == got >= chunk.from
MutCopyFails == ForwardError
CopyFails == ForwardError \/ PipedBefore
DelegateReturns ==
    /\ copier = "delegate"
    /\ ForwardDone
    /\ IF CopyFails
       THEN copier' = "failed" /\ errors' = errors \cup {"copy"}
       ELSE copier' = "read" /\ UNCHANGED errors
    /\ UNCHANGED <<newlines, json, chunk, got, morpher, readerErr, passed, scanner, taken, printed>>

\* joinCommands: the process has ended, Close
CloseWriter ==
    /\ copier \in {"eof", "failed"}
    /\ copier' = "close"
    /\ UNCHANGED <<newlines, json, chunk, got, morpher, readerErr, passed, scanner, taken, printed, errors>>

MutReaderDone == ReaderClosed
ReaderDone == morpher = "done"
CloseReturns ==
    /\ copier = "close"
    /\ ReaderDone
    /\ copier' = "closed"
    /\ errors' = IF readerErr THEN errors \cup {"close"} ELSE errors
    /\ UNCHANGED <<newlines, json, chunk, got, morpher, readerErr, passed, scanner, taken, printed>>

\* main returns; nobody closes the ScanningWriters
Exit ==
    /\ copier = "closed"
    /\ copier' = "exited"
    /\ UNCHANGED <<newlines, json, chunk, got, morpher, readerErr, passed, scanner, taken, printed, errors>>

-----------------------------------------------------------------------------
(* The goroutine of NewMorphingWriter.                                       *)

\* ReadBytes fills the buffer as far as it goes; a full one is put aside
Room == Min({BufSize - (got % BufSize), chunk.to - got})
FillBuffer ==
    /\ morpher = "reading"
    /\ copier = "pipe"
    /\ got < chunk.to
    /\ got' = got + Room
    /\ morpher' = IF newlines \cap (1 .. got') # {} THEN "found" ELSE "reading"
    /\ UNCHANGED <<newlines, json, copier, chunk, readerErr, passed, scanner, taken, printed, errors>>

ReadEOF ==
    /\ morpher = "reading"
    /\ copier = "close"
    /\ morpher' = "found"
    /\ UNCHANGED <<newlines, json, copier, chunk, got, readerErr, passed, scanner, taken, printed, errors>>

\* pr.Close
MutCloseReader ==
    /\ morpher = "found"
    /\ copier # "pipe" \/ got = chunk.to
    /\ morpher' = "morphing"
    /\ UNCHANGED <<newlines, json, copier, chunk, got, readerErr, passed, scanner, taken, printed, errors>>
CloseReader ==
    /\ morpher = "found"
    /\ morpher' = "morphing"
    /\ UNCHANGED <<newlines, json, copier, chunk, got, readerErr, passed, scanner, taken, printed, errors>>

\* the length of the first token: with its delimiter, or up to the end of file
TokenLen == Min((newlines \cap 1 .. got) \cup {got})

WriteToken ==
    /\ morpher = "morphing"
    /\ morpher' = "token"
    /\ IF TokenLen > 0 THEN Forward(1, TokenLen) ELSE UNCHANGED passed
    /\ UNCHANGED <<newlines, json, copier, chunk, got, readerErr, scanner, taken, printed, errors>>

\* the buffer holds what was read beyond the token
WriteRest ==
    /\ morpher = "token"
    /\ ForwardDone
    /\ readerErr' = ForwardError
    /\ morpher' = "rest"
    /\ IF got > TokenLen THEN Forward(TokenLen + 1, got) ELSE UNCHANGED passed
    /\ UNCHANGED <<newlines, json, copier, chunk, got, scanner, taken, printed, errors>>

CloseReaderDone ==
    /\ morpher = "rest"
    /\ ForwardDone
    /\ readerErr' = (readerErr \/ ForwardError)
    /\ morpher' = "done"
    /\ UNCHANGED <<newlines, json, copier, chunk, got, passed, scanner, taken, printed, errors>>

-----------------------------------------------------------------------------
(* The goroutine of NewScanningWriter.  What it reads ends a line where the  *)
(* stream has a newline, or the logger a record.                             *)

EndsLine(i) == IF json THEN forwarded[i] \in newlines ELSE i \in ends
LineEnds == {i \in printed + 1 .. taken : EndsLine(i)}

Scan ==
    /\ scanner = "scanning"
    /\ copier # "exited"
    /\ LineEnds = {}
    /\ \E n \in 1 .. Min({Len(forwarded) - taken, MaxToken - (taken - printed)}) : taken' = taken + n
    /\ UNCHANGED <<newlines, json, copier, chunk, got, morpher, readerErr, passed, scanner, printed, errors>>

\* one Write to stdout per line, under its lock
MutFirstLine == taken
FirstLine == Min(LineEnds)
WriteLine ==
    /\ scanner = "scanning"
    /\ copier # "exited"
    /\ LineEnds # {}
    /\ printed' = FirstLine
    /\ UNCHANGED <<newlines, json, copier, chunk, got, morpher, readerErr, passed, scanner, taken, errors>>

\* "token too long": the goroutine closes its end of the pipe and returns
TooLong ==
    /\ scanner = "scanning"
    /\ copier # "exited"
    /\ LineEnds = {}
    /\ taken - printed = MaxToken
    /\ scanner' = "dead"
    /\ UNCHANGED <<newlines, json, copier, chunk, got, morpher, readerErr, passed, taken, printed, errors>>

-----------------------------------------------------------------------------
Copy == PipeWriteReturns \/ PipeWriteFails \/ WriteDelegate \/ DelegateReturns \/ CloseWriter \/ CloseReturns
Morph == FillBuffer \/ ReadEOF \/ CloseReader \/ WriteToken \/ WriteRest \/ CloseReaderDone
ScanLines == Scan \/ WriteLine \/ TooLong

Next == ReadChunk \/ EndOfOutput \/ Copy \/ Exit \/ Morph \/ ScanLines

\* goroutines go on; a process may run, silently, for ever
Spec == Init /\ [][Next]_vars /\ WF_vars(Copy) /\ WF_vars(Morph) /\ WF_vars(ScanLines)

-----------------------------------------------------------------------------
Stream(n) == [i \in 1 .. n |-> i]
CutAtMorph == copier = "delegate" /\ PipedBefore

(* "it will observe the same bytes and order" (morphingwriter.go:19-21): the *)
(* morphed writer gets the stream, whatever is in the pipe, in the buffer    *)
(* and on its way when the first line ends; but for a Write that the morph    *)
(* cuts in two, which is repeated, and then the copy fails.                  *)
SameBytesOrFailure ==
    IsPrefix(forwarded, Stream(chunk.to)) \/ CutAtMorph \/ "copy" \in errors

(* Close waits "for the reader goroutine to flush the buffer"                *)
(* (morphingwriter.go:98): if neither it nor the copy reported an error, the *)
(* whole stream has been passed on.                                          *)
CloseFlushes ==
    copier \in {"closed", "exited"} /\ errors = {} => forwarded = Stream(chunk.to)

(* stdout holds whole lines, in order and none left out; what is missing at   *)
(* the exit without an error and without a line too long is less than a      *)
(* line, or was still to be written when the program ended.                  *)
LinesInOrder ==
    /\ errors = {} /\ ~CutAtMorph
         => SubSeq(forwarded, 1, printed) = Stream(printed)
    /\ printed > 0 => EndsLine(printed)
    /\ copier = "exited" /\ errors = {} /\ json /\ scanner = "scanning"
         => chunk.to - printed <= MaxToken \/ LineEnds # {}

(* A Write returns and Close returns, whoever of the copier, the morpher and *)
(* the scanner is first: a reader that gives up closes its end.              *)
WritesReturn == copier \in {"pipe", "close"} ~> copier \in {"read", "failed", "closed"}

=============================================================================
