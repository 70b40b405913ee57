----------------------------- MODULE ChunkReader -----------------------------
(***************************************************************************)
(* CustomChunkReader of crates/pgdumpx/src/custom/data.rs, which turns the *)
(* length-prefixed chunks of an archive's data block into a byte stream,   *)
(* with the ArchiveReader and read_archive_integer it reads through.  One  *)
(* step is one answer of the source.                                       *)
(*                                                                         *)
(* A chunk length is a sign byte and IntBytes magnitude bytes, least       *)
(* significant first.  A byte has Base values, so that small inputs reach  *)
(* every case; the code's has 256.                                         *)
(***************************************************************************)
EXTENDS Integers, Sequences, SequencesExt

CONSTANTS
  Streams,   \* what the source may hold from the first chunk length on
  Base,      \* values of a byte
  IntBytes,  \* integer_size
  MaxInt,    \* largest i32
  Requests,  \* lengths of the buffers a caller reads into
  MaxFaults  \* bound: errors of the source

Byte == 0 .. Base - 1

ChunkConstants ==
  /\ Base \in Nat \ {0, 1} /\ IntBytes \in 1 .. 4 /\ MaxInt \in Nat
  /\ Streams \subseteq Seq(Byte)
  /\ Requests \subseteq Nat
  /\ MaxFaults \in Nat

VARIABLES
  stream, offset,  \* the source, and how much of it has been consumed
  remaining,       \* remaining
  done,            \* done
  pc,              \* "idle", "length" or "data": where the running read is
  length,          \* the bytes of the chunk length read so far
  request,         \* output.len() of the running read
  output,          \* history: the bytes returned
  answer,          \* history: what the last read returned
  faults,          \* errors of the source so far
  aligned          \* history: no read has begun after an error inside a chunk length

vars == <<stream, offset, remaining, done, pc, length, request, output, answer, faults, aligned>>

-----------------------------------------------------------------------------
Init ==
  /\ stream \in Streams
  /\ offset = 0
  /\ remaining = 0
  /\ done = FALSE
  /\ pc = "idle"
  /\ length = << >>
  /\ request = 0
  /\ output = << >>
  /\ answer = "none"
  /\ faults = 0
  /\ aligned = TRUE

Return(what) == pc' = "idle" /\ answer' = what

(* read: an empty buffer or a finished entry is answered without the source. *)
ReadNothing ==
  /\ pc = "idle"
  /\ \E n \in Requests : request' = n /\ (n = 0 \/ done)
  /\ Return(IF done THEN "end" ELSE "empty")
  /\ UNCHANGED <<stream, offset, remaining, done, length, output, faults, aligned>>

(* Whatever an earlier error left of a chunk length is forgotten. *)
Read ==
  /\ pc = "idle"
  /\ ~done
  /\ \E n \in Requests \ {0} : request' = n
  /\ pc' = IF remaining = 0 THEN "length" ELSE "data"
  /\ length' = << >>
  /\ aligned' = (aligned /\ length = << >>)
  /\ UNCHANGED <<stream, offset, remaining, done, output, answer, faults>>

-----------------------------------------------------------------------------
AtEof == offset = Len(stream)

(* read_archive_integer; a sign byte other than zero means negative, whatever
   it is, and minus zero is zero.                                             *)
Magnitude(bytes) == FoldRight(LAMBDA b, rest : b + Base * rest, Tail(bytes), 0)

IntegerOf(bytes) == IF bytes[1] = 0 THEN Magnitude(bytes) ELSE 0 - Magnitude(bytes)

InRange(n) == n \in -MaxInt - 1 .. MaxInt

ReadLengthByte ==
  /\ pc = "length" /\ Len(length) <= IntBytes
  /\ ~AtEof
  /\ length' = Append(length, stream[offset + 1])
  /\ offset' = offset + 1
  /\ UNCHANGED <<stream, remaining, done, pc, request, output, answer, faults, aligned>>

\* Mutant: a length is waited for at the source's end.
WaitsForLength ==
  /\ pc = "length" /\ Len(length) <= IntBytes
  /\ AtEof
  /\ UNCHANGED vars

LengthIsCut ==
  /\ pc = "length" /\ Len(length) <= IntBytes
  /\ AtEof
  /\ Return("TruncatedDataChunkLength")
  /\ UNCHANGED <<stream, offset, remaining, done, length, request, output, faults, aligned>>

(* A chunk of length zero ends the entry. *)
BeginChunk ==
  /\ pc = "length" /\ Len(length) = IntBytes + 1
  /\ LET n == IntegerOf(length)
     IN  \/ /\ ~InRange(n)
            /\ Return("ArchiveIntegerOutOfRange")
            /\ UNCHANGED <<remaining, done, length>>
         \/ /\ InRange(n) /\ n < 0
            /\ Return("InvalidDataChunkLength")
            /\ UNCHANGED <<remaining, done, length>>
         \/ /\ n = 0
            /\ done' = TRUE
            /\ Return("end")
            /\ UNCHANGED <<remaining, length>>
         \/ /\ InRange(n) /\ n > 0
            /\ remaining' = n
            /\ pc' = "data"
            /\ length' = << >>
            /\ UNCHANGED <<done, answer>>
  /\ UNCHANGED <<stream, offset, request, output, faults, aligned>>

(* What read_some is asked for. *)
Wanted == IF request <= remaining THEN request ELSE remaining

ReadData ==
  /\ pc = "data"
  /\ \E k \in 1 .. Wanted :
       /\ offset + k <= Len(stream)
       /\ offset' = offset + k
       /\ output' = output \o SubSeq(stream, offset + 1, offset + k)
       /\ remaining' = IF k <= remaining THEN remaining - k ELSE 0
  /\ Return("bytes")
  /\ UNCHANGED <<stream, done, length, request, faults, aligned>>

\* Mutant: the source's end inside a chunk is taken as the entry's.
CutIsTheEnd ==
  /\ pc = "data"
  /\ AtEof
  /\ Return("end")
  /\ UNCHANGED <<stream, offset, remaining, done, length, request, output, faults, aligned>>

DataIsCut ==
  /\ pc = "data"
  /\ AtEof
  /\ Return("TruncatedDataChunk")
  /\ UNCHANGED <<stream, offset, remaining, done, length, request, output, faults, aligned>>

(* An error of the source; an interrupted read is simply tried again. *)
SourceFails ==
  /\ pc # "idle"
  /\ pc = "length" => Len(length) <= IntBytes
  /\ faults < MaxFaults
  /\ faults' = faults + 1
  /\ Return("Io")
  /\ UNCHANGED <<stream, offset, remaining, done, length, request, output, aligned>>

Progress == ReadLengthByte \/ LengthIsCut \/ BeginChunk \/ ReadData \/ DataIsCut

Next == ReadNothing \/ Read \/ Progress \/ SourceFails

(* The source answers a read; nobody is obliged to read. *)
Spec == Init /\ [][Next]_vars /\ WF_vars(Progress)

-----------------------------------------------------------------------------
(* What a stream holds if a chunk length begins after its first p bytes: the bytes
   of the chunks from there on, and how they end.                                  *)
ChunksOf(s) ==
  LET header(p) == SubSeq(s, p + 1, p + 1 + IntBytes)
      from[p \in 0 .. Len(s)] ==
        IF p + 1 + IntBytes > Len(s) THEN [bytes |-> << >>, end |-> "cut"]
        ELSE LET n    == IntegerOf(header(p))
                 next == p + 1 + IntBytes
             IN  IF n < 0 \/ ~InRange(n) THEN [bytes |-> << >>, end |-> "malformed"]
                 ELSE IF n = 0 THEN [bytes |-> << >>, end |-> "whole"]
                 ELSE IF next + n > Len(s)
                      THEN [bytes |-> SubSeq(s, next + 1, Len(s)), end |-> "cut"]
                      ELSE [from[next + n] EXCEPT
                              !.bytes = SubSeq(s, next + 1, next + n) \o @]
  IN  from

(* The entry a stream holds: its bytes, and how it ends. *)
Entry(s) == ChunksOf(s)[0]

(* However the reads are sized and however short the source answers, the bytes
   returned are a prefix of the entry's, also when a read is tried again after
   a source error, as long as the error did not cut a chunk length in two.
   Truncation is never a clean end: a read ends the entry only at its zero-length
   chunk, with every byte before it returned, and reports a cut or a malformed
   length only for an entry that is cut or malformed at that place.                *)
EndMeansWhole ==
  aligned =>
    /\ IsPrefix(output, Entry(stream).bytes)
    /\ pc = "idle" =>
         /\ answer = "end" => Entry(stream) = [bytes |-> output, end |-> "whole"]
         /\ answer \in {"TruncatedDataChunkLength", "TruncatedDataChunk"} =>
              Entry(stream) = [bytes |-> output, end |-> "cut"]
         /\ answer \in {"InvalidDataChunkLength", "ArchiveIntegerOutOfRange"} =>
              Entry(stream) = [bytes |-> output, end |-> "malformed"]
=============================================================================
