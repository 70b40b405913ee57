----------------------------- MODULE FrameDecoder -----------------------------
(***************************************************************************)
(* Lz4EntryDecoder and ZstdEntryDecoder of crates/pgdumpx/src/entry.rs:    *)
(* wrappers that read an entry through a codec of another crate.  Both     *)
(* recover the source's own error from a cell the codec knows nothing of;  *)
(* the LZ4 wrapper also watches the compressed bytes, because its codec    *)
(* reports a frame that is cut before its end mark as a clean end.         *)
(*                                                                         *)
(* One step is one answer of the chunk reader, or one decision of the      *)
(* codec or of its wrapper.  A decoded byte is its position.               *)
(***************************************************************************)
EXTENDS Integers, Sequences, FiniteSets

CONSTANTS
  Entries,      \* [algorithm, frame, blocks, at, length, corrupt]: see FrameConstants
  Slices,       \* lengths of the buffers in which a codec asks for input
  MaxFaults,    \* bound: errors of the chunk reader
  MaxOutput     \* bound: bytes a caller is given who reads on after an error

-----------------------------------------------------------------------------
Bit(byte, mask) == (byte \div mask) % 2 = 1

(* What follows the first six bytes of a header: its checksum and optional fields. *)
Optional(flg) == 1 + (IF Bit(flg, 8) THEN 8 ELSE 0) + (IF Bit(flg, 1) THEN 4 ELSE 0)

(* The length in a block header, without the bit that marks a raw block; the test
   for the end mark sees all 32 bits.                                              *)
BlockLength(word) == word[1] + 256 * word[2] + 65536 * word[3] + 16777216 * (word[4] % 128)

IsEndMark(word) == \A i \in 1 .. 4 : word[i] = 0

(* The LZ4 frame format: a header, blocks that begin behind the bytes counted in
   `blocks`, each with its length and perhaps a checksum, and the end mark with one. *)
IsLz4Frame(frame, blocks) ==
  LET last == Len(blocks)
      word(k) == SubSeq(frame, blocks[k] + 1, blocks[k] + 4)
      checksum(mask) == IF Bit(frame[5], mask) THEN 4 ELSE 0
  IN  /\ last > 0
      /\ blocks \in Seq(0 .. Len(frame) - 4)
      /\ blocks[1] = 6 + Optional(frame[5])
      /\ \A k \in 1 .. last - 1 :
           /\ ~IsEndMark(word(k))
           /\ blocks[k + 1] = blocks[k] + 4 + BlockLength(word(k)) + checksum(16)
      /\ IsEndMark(word(last))
      /\ Len(frame) = blocks[last] + 4 + checksum(4)

(* frame is the bytes of a whole frame; at[i] is how many of them must be read
   before decoded byte i can be given; length is how many bytes the entry has:
   fewer than the frame's when it is cut, more when something follows it.      *)
FrameConstants ==
  /\ \A e \in Entries :
       /\ e.algorithm \in {"lz4", "zstd"}
       /\ e.frame \in Seq(0 .. 255) /\ Len(e.frame) > 0
       /\ e.algorithm = "lz4" => IsLz4Frame(e.frame, e.blocks)
       /\ e.at \in Seq(1 .. Len(e.frame))
       /\ e.length \in Nat /\ e.corrupt \in BOOLEAN
  /\ Slices \subseteq Nat \ {0}
  /\ MaxFaults \in Nat /\ MaxOutput \in Nat

(* A byte that a codec gives after an error: nothing is known of it. *)
Stray == 0

VARIABLES
  entry,
  taken,        \* compressed bytes read from the chunk reader
  tracker,      \* Lz4FrameTracker
  source_error, \* the shared cell holds an error
  state,        \* ZstdDecoderState: "uninitialized", "decoding" or "failed"
  stream_end,
  broken,       \* the codec has failed
  pc,           \* "idle", "initialize", "decode" or "finish"
  exposed,      \* history: the bytes returned
  answer,       \* history: what the last read returned
  faulted,      \* history: a read has failed
  failing,      \* history: the chunk reader failed during the last read
  faults        \* errors of the chunk reader so far

vars == <<entry, taken, tracker, source_error, state, stream_end, broken, pc,
          exposed, answer, faulted, failing, faults>>
callVars == <<entry, state, stream_end, exposed, answer, faulted, failing>>

-----------------------------------------------------------------------------
(* The tracker collects `need` more bytes of its phase in `held`. *)
Phase(t, phase, need) == [t EXCEPT !.phase = phase, !.need = need, !.held = << >>]

NewTracker == [phase |-> "header", need |-> 6, held |-> << >>,
               block_checksum |-> FALSE, content_checksum |-> FALSE]

(* The phase after the one whose bytes are all there. *)
NextPhase(t) ==
  CASE t.phase = "header" /\ Len(t.held) = 6 ->
         [t EXCEPT !.need = Optional(t.held[5]),
                   !.block_checksum = Bit(t.held[5], 16),
                   !.content_checksum = Bit(t.held[5], 4)]
    [] (t.phase = "header" /\ Len(t.held) # 6) \/ t.phase = "block_checksum" ->
         Phase(t, "block_header", 4)
    [] t.phase = "block_header" ->
         IF ~IsEndMark(t.held) THEN Phase(t, "payload", BlockLength(t.held))
         ELSE IF t.content_checksum THEN Phase(t, "content_checksum", 4)
         ELSE Phase(t, "finished", 0)
    [] t.phase = "payload" ->
         IF t.block_checksum THEN Phase(t, "block_checksum", 4) ELSE Phase(t, "block_header", 4)
    [] t.phase = "content_checksum" -> Phase(t, "finished", 0)

(* A header has its first six bytes to come, or the rest of it; a block header has four. *)
Trackers ==
  {t \in [phase : {"header", "block_header", "payload", "block_checksum", "content_checksum", "finished"},
          need : Nat, held : Seq(0 .. 255), block_checksum : BOOLEAN, content_checksum : BOOLEAN] :
     /\ t.phase = "header" => t.need > 0 /\ Len(t.held) + t.need >= 6
     /\ t.phase = "block_header" => t.need > 0 /\ Len(t.held) + t.need = 4}

(* observe: each turn of its loop takes what the phase still needs of the input. *)
Observed[x \in Trackers \X Seq(0 .. 255)] ==
  LET t     == x[1]
      input == x[2]
      take  == IF t.need < Len(input) THEN t.need ELSE Len(input)
      seen  == [t EXCEPT !.need = @ - take, !.held = @ \o SubSeq(input, 1, take)]
  IN  IF input = << >> \/ t.phase = "finished" THEN t
      ELSE Observed[<<IF seen.need = 0 THEN NextPhase(seen) ELSE seen,
                      SubSeq(input, take + 1, Len(input))>>]

Observe(t, input) == Observed[<<t, input>>]

\* Mutant: nothing looks for the end mark.
AlwaysFinished == TRUE

IsFinished == tracker.phase = "finished"

-----------------------------------------------------------------------------
Init ==
  /\ entry \in Entries
  /\ taken = 0
  /\ tracker = NewTracker
  /\ source_error = FALSE
  /\ state = IF entry.algorithm = "zstd" THEN "uninitialized" ELSE "decoding"
  /\ stream_end = FALSE
  /\ broken = FALSE
  /\ pc = "idle"
  /\ exposed = << >>
  /\ answer = "none"
  /\ faulted = FALSE /\ failing = FALSE
  /\ faults = 0

Return(what) == /\ pc' = "idle"
                /\ answer' = what
                /\ faulted' = (faulted \/ what \in {"io", "failed"})

\* Mutant: the error is copied out of the cell and stays in it.
PeekSourceError ==
  /\ Return(IF source_error THEN "io" ELSE "failed")
  /\ UNCHANGED source_error

(* take_source_error: the source's own error if it left one, or else the codec's. *)
ReportError ==
  /\ Return(IF source_error THEN "io" ELSE "failed")
  /\ source_error' = FALSE

ReadNothing ==
  /\ pc = "idle"
  /\ Return("empty") \/ (stream_end /\ Return("end"))
  /\ failing' = FALSE
  /\ UNCHANGED <<entry, taken, tracker, source_error, state, stream_end, broken, exposed, faults>>

Read ==
  /\ pc = "idle" /\ ~stream_end /\ state # "failed"
  /\ pc' = IF state = "uninitialized" THEN "initialize" ELSE "decode"
  /\ failing' = FALSE
  /\ UNCHANGED <<entry, taken, tracker, source_error, state, stream_end, broken, exposed, answer, faulted, faults>>

(* A Zstandard decoder whose initialization failed has lost its source. *)
ReadUnavailable ==
  /\ pc = "idle" /\ state = "failed"
  /\ Return("failed")
  /\ failing' = FALSE
  /\ UNCHANGED <<entry, taken, tracker, source_error, state, stream_end, broken, exposed, faults>>

-----------------------------------------------------------------------------
(* A codec asks for no byte behind its frame; one that has failed asks for any. *)
Wanted == IF broken \/ entry.length < Len(entry.frame) THEN entry.length ELSE Len(entry.frame)

Supplied(n) == [i \in 1 .. n |-> IF taken + i <= Len(entry.frame) THEN entry.frame[taken + i] ELSE 0]

(* TrackedLz4Source::read and TrackedCompressedSource::read, called by the codec. *)
SourceGives ==
  /\ pc \in {"initialize", "decode"}
  /\ \E n \in Slices : /\ taken + n <= Wanted
                       /\ taken' = taken + n
                       /\ tracker' = IF entry.algorithm = "lz4" THEN Observe(tracker, Supplied(n)) ELSE tracker
  /\ UNCHANGED <<callVars, source_error, broken, pc, faults>>

(* The chunk reader's error goes into the cell, and a copy without its cause up
   through the codec or, behind the frame, to the wrapper's own read.            *)
SourceFails ==
  /\ pc \in {"initialize", "decode"} \/ (pc = "finish" /\ IsFinished)
  /\ ~failing
  /\ faults < MaxFaults
  /\ faults' = faults + 1
  /\ source_error' = TRUE
  /\ broken' = TRUE
  /\ failing' = TRUE
  /\ UNCHANGED <<entry, taken, tracker, state, stream_end, pc, exposed, answer, faulted>>

AtEnd == taken >= entry.length

Decodable == Cardinality({i \in DOMAIN entry.at : entry.at[i] <= taken})

(* The codec may fail when it has failed before, when the frame is cut, and at
   the last byte of a corrupt one.                                              *)
MayFail ==
  \/ broken
  \/ AtEnd /\ taken < Len(entry.frame)
  \/ entry.corrupt /\ taken >= Len(entry.frame)

(* StreamingDecoder::new reads the frame's header, here one byte. *)
Initialize ==
  /\ pc = "initialize"
  /\ ~broken /\ taken > 0
  /\ state' = "decoding"
  /\ pc' = "decode"
  /\ UNCHANGED <<entry, taken, tracker, source_error, stream_end, broken, exposed, answer, faulted, failing, faults>>

InitializeFails ==
  /\ pc = "initialize"
  /\ MayFail
  /\ state' = "failed"
  /\ broken' = TRUE
  /\ ReportError
  /\ UNCHANGED <<entry, taken, tracker, stream_end, exposed, failing, faults>>

CodecGives ==
  /\ pc = "decode"
  /\ ~broken
  /\ \E n \in 1 .. Decodable - Len(exposed) :
       exposed' = exposed \o [i \in 1 .. n |-> Len(exposed) + i]
  /\ Return("bytes")
  /\ UNCHANGED <<entry, taken, tracker, source_error, state, stream_end, broken, failing, faults>>

(* Neither wrapper remembers that a read has failed: the next one calls the codec
   again, which has lost bytes of its frame and may decode whatever follows.       *)
CodecStrays ==
  /\ pc = "decode"
  /\ broken /\ ~failing
  /\ \E n \in 1 .. MaxOutput - Len(exposed) :
       exposed' = exposed \o [i \in 1 .. n |-> Stray]
  /\ Return("bytes")
  /\ UNCHANGED <<entry, taken, tracker, source_error, state, stream_end, broken, failing, faults>>

(* The codec says Ok(0): after its frame, the LZ4 codec also where its source ends,
   and either of them anywhere once it is out of step.                              *)
CodecStops ==
  /\ pc = "decode"
  /\ ~failing
  /\ \/ broken
     \/ /\ Len(exposed) = Decodable
        /\ \/ taken = Len(entry.frame) /\ ~entry.corrupt
           \/ entry.algorithm = "lz4" /\ AtEnd /\ taken < Len(entry.frame)
  /\ IF entry.algorithm = "lz4" THEN pc' = "finish" /\ UNCHANGED <<answer, faulted>>
                                ELSE Return("end")
  /\ UNCHANGED <<entry, taken, tracker, source_error, state, stream_end, broken, exposed, failing, faults>>

CodecFails ==
  /\ pc = "decode"
  /\ MayFail
  /\ broken' = TRUE
  /\ ReportError
  /\ UNCHANGED <<entry, taken, tracker, state, stream_end, exposed, failing, faults>>

-----------------------------------------------------------------------------
(* finish_stream: Ok(0) is the end only if the tracker has seen the whole frame ... *)
FrameIsCut ==
  /\ pc = "finish"
  /\ ~IsFinished
  /\ Return("failed")
  /\ UNCHANGED <<entry, taken, tracker, source_error, state, stream_end, broken, exposed, failing, faults>>

(* ... and one more byte of the source is the end of the entry. *)
EntryEnds ==
  /\ pc = "finish"
  /\ IsFinished /\ ~failing /\ AtEnd
  /\ stream_end' = TRUE
  /\ Return("end")
  /\ UNCHANGED <<entry, taken, tracker, source_error, state, broken, exposed, failing, faults>>

(* That byte is gone: a codec asked again starts in the middle of what follows. *)
BytesFollow ==
  /\ pc = "finish"
  /\ IsFinished /\ ~failing /\ ~AtEnd
  /\ taken' = taken + 1
  /\ tracker' = Observe(tracker, Supplied(1))
  /\ broken' = TRUE
  /\ Return("failed")
  /\ UNCHANGED <<entry, source_error, state, stream_end, exposed, failing, faults>>

FinishFails ==
  /\ pc = "finish"
  /\ failing
  /\ ReportError
  /\ UNCHANGED <<entry, taken, tracker, state, stream_end, broken, exposed, failing, faults>>

Progress ==
  \/ SourceGives
  \/ Initialize \/ InitializeFails
  \/ CodecGives \/ CodecStrays \/ CodecStops \/ CodecFails
  \/ FrameIsCut \/ EntryEnds \/ BytesFollow \/ FinishFails

Next == ReadNothing \/ Read \/ ReadUnavailable \/ Progress \/ SourceFails

Spec == Init /\ [][Next]_vars /\ WF_vars(Progress)
-----------------------------------------------------------------------------
Whole == entry.length >= Len(entry.frame) /\ ~entry.corrupt

Followed == entry.algorithm = "lz4" /\ entry.length > Len(entry.frame)

(* As long as no read has failed, an end is the end of a whole frame with every
   byte returned, and of the whole entry when it is LZ4; a whole entry does not
   fail unless its source does, and however the codec cuts its input, the tracker
   knows the frame's end exactly.  A read that fails returns the source's error if
   the source failed in that read, and only then: no error waits in the shared
   cell for a later read.                                                          *)
EndIsTheFrames ==
  /\ answer = "end" /\ ~faulted => Whole /\ ~Followed /\ Len(exposed) = Len(entry.at)
  /\ answer = "failed" /\ faults = 0 => ~Whole \/ Followed
  /\ entry.algorithm = "lz4" => IsFinished = (taken >= Len(entry.frame))
  /\ pc = "idle" => /\ ~source_error
                    /\ answer \in {"io", "failed"} => (answer = "io") = failing
=============================================================================
