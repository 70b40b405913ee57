---------------------------- MODULE EntryDataReader ----------------------------
(***************************************************************************)
(* EntryDataReader<R> of crates/pgdumpx/src/entry.rs: the reader of one    *)
(* entry over one of its backends, the chunk reader itself when the        *)
(* archive is not compressed, and the decoder which is that of             *)
(* BoundedEntryReader whatever the backend.                                *)
(***************************************************************************)
EXTENDS Integers, Sequences

CONSTANTS
  Streams, Base, IntBytes, MaxInt, ChunkFaults,  \* of the chunk reader
  ZlibEntries, InputBytes,                       \* of the zlib decoder
  FrameEntries, Slices, MaxOutput,               \* of the LZ4 and Zstandard decoders
  DecoderFaults,
  Requests,                                      \* lengths of the buffers a caller reads into
  Unlimited, MaxSize                             \* bound: bytes a reader gives

VARIABLES
  backend,                                                 \* "none", "gzip" or "frame"
  pc, exposed, answer, faults, faulted,                    \* of any of them
  entry, stream_end, broken,                               \* of the decoders
  stream, offset, remaining, done, length, request, aligned,
  fetched, used, made, source_eof, pending, room, written,
  taken, tracker, source_error, state, failing

anyVars == <<pc, exposed, answer, faults>>
decoderVars == <<entry, stream_end, broken>>
chunkVars == <<stream, offset, remaining, done, length, request, aligned>>
zlibVars == <<fetched, used, made, source_eof, pending, room, written>>
frameVars == <<taken, tracker, source_error, state, failing>>
vars == <<backend, anyVars, faulted, decoderVars, chunkVars, zlibVars, frameVars>>

Chunks == INSTANCE ChunkReader WITH MaxFaults <- ChunkFaults, output <- exposed

Zlib == INSTANCE ZlibDecoder WITH
          Entries <- ZlibEntries, Buffers <- Requests, MaxFaults <- DecoderFaults

Frame == INSTANCE FrameDecoder WITH Entries <- FrameEntries, MaxFaults <- DecoderFaults

ASSUME BackendAssumption ==
  /\ Chunks!ChunkConstants /\ Zlib!ZlibConstants /\ Frame!FrameConstants
  /\ Unlimited \notin Nat /\ MaxSize \in Nat \ {0}
  /\ \A s \in Streams : Len(Chunks!Entry(s).bytes) <= MaxSize
  /\ \A e \in ZlibEntries : \A i \in DOMAIN e.ready : e.ready[i] <= MaxSize
  /\ \A e \in FrameEntries : Len(e.at) <= MaxSize
  /\ MaxOutput <= MaxSize

-----------------------------------------------------------------------------
NoDecoder == entry = << >> /\ stream_end = FALSE /\ broken = FALSE

NoChunks == /\ stream = << >> /\ offset = 0 /\ remaining = 0 /\ done = FALSE
            /\ length = << >> /\ request = 0 /\ aligned = TRUE

NoZlib == /\ fetched = 0 /\ used = 0 /\ made = 0 /\ source_eof = FALSE
          /\ pending = FALSE /\ room = 0 /\ written = 0

NoFrame == taken = 0 /\ tracker = << >> /\ source_error = FALSE /\ state = "none" /\ failing = FALSE

(* EntryDataReader::new makes the backend that the archive's compression names. *)
Init ==
  \/ backend = "none" /\ Chunks!Init /\ faulted = FALSE /\ NoDecoder /\ NoZlib /\ NoFrame
  \/ backend = "gzip" /\ Zlib!Init /\ NoChunks /\ NoFrame
  \/ backend = "frame" /\ Frame!Init /\ NoChunks /\ NoZlib

Failed == answer' \notin {"none", "empty", "bytes", "end"}

(* What a step of a backend leaves alone. *)
BesideChunks == /\ faulted' = (faulted \/ Failed)
                /\ UNCHANGED <<backend, decoderVars, zlibVars, frameVars>>
BesideZlib == UNCHANGED <<backend, chunkVars, frameVars>>
BesideFrame == UNCHANGED <<backend, chunkVars, zlibVars>>

(* Read::read hands every read to the backend. *)
Read ==
  \/ backend = "none" /\ (Chunks!ReadNothing \/ Chunks!Read) /\ BesideChunks
  \/ backend = "gzip" /\ (Zlib!ReadNothing \/ Zlib!ReadDeferred \/ Zlib!Read) /\ BesideZlib
  \/ backend = "frame" /\ (Frame!ReadNothing \/ Frame!ReadUnavailable \/ Frame!Read) /\ BesideFrame

(* The steps of a running read whose source answers without an error. *)
Progress ==
  \/ backend = "none" /\ Chunks!Progress /\ BesideChunks
  \/ backend = "gzip" /\ Zlib!Progress /\ BesideZlib
  \/ backend = "frame" /\ Frame!Progress /\ BesideFrame

SourceFails ==
  \/ backend = "none" /\ Chunks!SourceFails /\ BesideChunks
  \/ backend = "gzip" /\ Zlib!SourceFails /\ BesideZlib
  \/ backend = "frame" /\ Frame!SourceFails /\ BesideFrame

Next == Read \/ Progress \/ SourceFails

Spec == Init /\ [][Next]_vars /\ WF_vars(Progress)

-----------------------------------------------------------------------------
(* What each backend promises of an end; see the modules. *)

(* Uncompressed: a read ends the entry only at its zero-length chunk, with exactly
   its bytes returned; CustomChunkReader::read.                                    *)
EndMeansWhole == backend = "none" => Chunks!EndMeansWhole

(* zlib: an end is that of the stream, trailer included, with every byte returned
   in order; ZlibEntryDecoder::read.                                               *)
EndIsTheStreams == backend = "gzip" => Zlib!EndIsTheStreams

(* LZ4 and Zstandard: an end is that of a whole frame, and an error is the source's
   exactly if the source failed in that read; Lz4EntryDecoder, ZstdEntryDecoder.   *)
EndIsTheFrames == backend = "frame" => Frame!EndIsTheFrames

(* Every read returns: each turn of the loops of entry.rs and data.rs takes input,
   gives output or ends.                                                           *)
EveryReadReturns == (pc # "idle") ~> (pc = "idle")

-----------------------------------------------------------------------------
Size == CASE backend = "none"  -> Len(Chunks!Entry(stream).bytes)
          [] backend = "gzip"  -> Zlib!Size
          [] backend = "frame" -> Len(entry.at)

Position == CASE backend = "none"  -> Len(exposed)
              [] backend = "gzip"  -> made - written
              [] backend = "frame" -> IF faulted THEN Len(entry.at) ELSE Len(exposed)

(* The codecs of LZ4 and Zstandard lose bytes of the frame when a read fails, and
   the next read calls them again.                                                *)
Lost == backend = "frame" /\ faulted

(* A bounded reader does not tell the source's errors from the codec's, nor one
   byte from another.                                                           *)
Seen == IF answer \in {"none", "empty", "bytes", "end"} THEN answer ELSE "failed"

SeenBytes == IF backend = "none" THEN [k \in 1 .. Len(exposed) |-> k] ELSE exposed

(* Without a byte budget, a bounded reader answers as its decoder does. *)
Decoder == INSTANCE MCBoundedEntryReader WITH
             Sizes     <- 0 .. MaxSize,
             Limits    <- {Unlimited},
             Unlimited <- Unlimited,
             U64Max    <- MaxSize,
             Buffers   <- Requests \cup 0 .. MaxSize,
             size      <- Size,
             pos       <- Position,
             lost      <- Lost,
             limit     <- Unlimited,
             returned  <- Len(exposed),
             terminal  <- "none",
             exposed   <- SeenBytes,
             answer    <- Seen

(* Its reads are answers that BoundedEntryReader allows a decoder.  Until a read has
   failed, every backend gives the entry's bytes in order, and its end after the last.
   Afterwards zlib and uncompressed entries go on in order, with the bytes dropped
   that zlib had produced when its source failed, and end only behind the last byte,
   as long as no read is begun after an error inside a chunk length; an LZ4 or
   Zstandard entry is out of step, and what it gives, ends with or refuses is
   promised to nobody.                                                               *)
ImplementsDecoder == Decoder!Init /\ [][aligned' => [Decoder!Next]_(Decoder!readerVars)]_vars
=============================================================================
