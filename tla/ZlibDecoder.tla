------------------------------ MODULE ZlibDecoder ------------------------------
(***************************************************************************)
(* ZlibEntryDecoder of crates/pgdumpx/src/entry.rs: the loop that feeds a  *)
(* codec from the chunk reader and collects what it produces.  One step is *)
(* one answer of the chunk reader or one call of the codec.                *)
(*                                                                         *)
(* A compressed entry is how many bytes the codec can produce once it has  *)
(* each compressed byte, how the zlib stream ends, and how many bytes of   *)
(* the entry follow it.  A decoded byte is its position.                   *)
(***************************************************************************)
EXTENDS Integers, Sequences

CONSTANTS
  Entries,      \* [ready : Seq(Nat), end : {"whole", "cut", "corrupt"}, tail : Nat]
  InputBytes,   \* COMPRESSED_INPUT_BUFFER_BYTES
  Buffers,      \* lengths of the buffers a caller reads into
  MaxFaults     \* bound: errors of the chunk reader

ZlibConstants ==
  /\ \A e \in Entries :
       /\ e.ready \in Seq(Nat) /\ e.tail \in Nat
       /\ \A i \in DOMAIN e.ready : \A j \in 1 .. i : e.ready[j] <= e.ready[i]
       /\ e.end \in {"whole", "cut", "corrupt"}
       /\ e.end = "cut" => e.tail = 0
       /\ e.end = "corrupt" => e.tail > 0
  /\ InputBytes \in Nat \ {0}
  /\ Buffers \subseteq Nat
  /\ MaxFaults \in Nat

VARIABLES
  entry,
  fetched,    \* compressed bytes the chunk reader has returned
  used,       \* compressed bytes the codec has consumed: input_start
  made,       \* bytes the codec has produced
  source_eof, stream_end,
  pending,    \* pending_error is Some
  broken,     \* the codec has failed
  pc,         \* "idle", "fill" or "decode"
  room,       \* output.len() of the running read
  written,    \* written
  exposed,    \* history: the bytes returned
  answer,     \* history: what the last read returned
  faulted,    \* history: a read has failed
  faults      \* errors of the chunk reader so far

vars == <<entry, fetched, used, made, source_eof, stream_end, pending, broken, pc, room,
          written, exposed, answer, faulted, faults>>
inputVars == <<entry, fetched, source_eof, faults>>
codecVars == <<used, made, broken>>

-----------------------------------------------------------------------------
Init ==
  /\ entry \in Entries
  /\ fetched = 0 /\ used = 0 /\ made = 0
  /\ source_eof = FALSE /\ stream_end = FALSE
  /\ pending = FALSE /\ broken = FALSE
  /\ pc = "idle"
  /\ room = 0 /\ written = 0
  /\ exposed = << >>
  /\ answer = "none"
  /\ faulted = FALSE
  /\ faults = 0

(* What the codec can have produced from the first n bytes of the zlib stream. *)
Decodable(n) == IF n = 0 THEN 0 ELSE entry.ready[n]

Size == Decodable(Len(entry.ready))

(* A read that returns leaves nothing in hand: bytes not returned are dropped. *)
Return(what) == /\ pc' = "idle"
                /\ written' = 0
                /\ answer' = what
                /\ faulted' = (faulted \/ what \in {"io", "failed"})
                /\ UNCHANGED room

ReturnBytes(n) == Return("bytes") /\ exposed' = exposed \o [i \in 1 .. n |-> made' - n + i]

(* fail_or_defer: output comes first, and the error with the next read. *)
FailOrDefer == IF written = 0 THEN Return("failed") /\ UNCHANGED <<pending, exposed>>
                              ELSE ReturnBytes(written) /\ pending' = TRUE

-----------------------------------------------------------------------------
ReadNothing ==
  /\ pc = "idle"
  /\ \/ 0 \in Buffers /\ Return("empty")
     \/ stream_end /\ Return("end")
  /\ UNCHANGED <<inputVars, codecVars, stream_end, pending, exposed>>

ReadDeferred ==
  /\ pc = "idle"
  /\ ~stream_end /\ pending
  /\ pending' = FALSE
  /\ Return("failed")
  /\ UNCHANGED <<inputVars, codecVars, stream_end, exposed>>

Read ==
  /\ pc = "idle"
  /\ ~stream_end /\ ~pending
  /\ room' \in Buffers \ {0}
  /\ pc' = "fill"
  /\ UNCHANGED <<inputVars, codecVars, stream_end, pending, written, exposed, answer, faulted>>

-----------------------------------------------------------------------------
Length == Len(entry.ready) + entry.tail

Least(a, b) == IF a <= b THEN a ELSE b

Drained == used = fetched

(* The input buffer is refilled only when the codec has consumed all of it. *)
Fill ==
  /\ pc = "fill"
  /\ IF Drained /\ ~source_eof
     THEN \/ /\ fetched' \in fetched + 1 .. Least(fetched + InputBytes, Length)
             /\ UNCHANGED source_eof
          \/ /\ fetched = Length
             /\ source_eof' = TRUE
             /\ UNCHANGED fetched
     ELSE UNCHANGED <<fetched, source_eof>>
  /\ pc' = "decode"
  /\ UNCHANGED <<entry, faults, codecVars, stream_end, pending, room, written, exposed, answer, faulted>>

(* The chunk reader's error goes out at once, whatever has been decoded. *)
SourceFails ==
  /\ pc = "fill"
  /\ Drained /\ ~source_eof
  /\ faults < MaxFaults
  /\ faults' = faults + 1
  /\ Return("io")
  /\ UNCHANGED <<entry, fetched, source_eof, codecVars, stream_end, pending, exposed>>

(* The codec.  It takes input and gives output, some of one of them whenever it
   can, and reports the stream's end once it has given everything; it may do so
   only on the call after the one that filled the output.                       *)
Takes == 0 .. Least(fetched, Len(entry.ready)) - used

Gives(k) == 0 .. Least(room - written, Decodable(used + k) - made)

Complete == entry.end = "whole" /\ used' = Len(entry.ready) /\ made' = Size

CodecRuns ==
  /\ ~broken
  /\ \E k \in Takes : /\ used' = used + k
                      /\ \E p \in Gives(k) : made' = made + p
  /\ UNCHANGED broken

Produced == made' - made

CanMove == \E k \in Takes : k > 0 \/ \E p \in Gives(k) : p > 0

StreamEnds ==
  /\ pc = "decode"
  /\ CodecRuns /\ Complete
  /\ stream_end' = TRUE
  /\ IF written + Produced = 0 THEN Return("end") /\ UNCHANGED exposed
                               ELSE ReturnBytes(written + Produced)
  /\ UNCHANGED <<inputVars, pending>>

OutputFull ==
  /\ pc = "decode"
  /\ CodecRuns
  /\ written + Produced = room
  /\ ReturnBytes(room)
  /\ UNCHANGED <<inputVars, stream_end, pending>>

Continue ==
  /\ pc = "decode"
  /\ CodecRuns /\ ~Complete
  /\ used' # used \/ made' # made
  /\ written' = written + Produced
  /\ written' < room
  /\ pc' = "fill"
  /\ UNCHANGED <<inputVars, stream_end, pending, room, exposed, answer, faulted>>

\* Mutant: the source's end is the entry's, whether or not the codec has seen its own.
CutIsTheEnd ==
  /\ pc = "decode"
  /\ Drained /\ source_eof
  /\ stream_end' = TRUE
  /\ UNCHANGED <<inputVars, codecVars, pending>>
  /\ IF written = 0 THEN Return("end") /\ UNCHANGED exposed ELSE ReturnBytes(written)

(* No progress at the source's end: the stream is cut before its trailer. *)
StreamIsCut ==
  /\ pc = "decode"
  /\ ~broken /\ ~CanMove /\ entry.end = "cut"
  /\ Drained /\ source_eof
  /\ UNCHANGED <<inputVars, codecVars, stream_end>>
  /\ FailOrDefer

(* The codec refuses a byte, or makes no progress with it; it stays that way. *)
CodecFails ==
  /\ pc = "decode"
  /\ broken \/ (entry.end = "corrupt" /\ fetched > Len(entry.ready))
  /\ broken' = TRUE
  /\ UNCHANGED <<inputVars, used, made, stream_end>>
  /\ FailOrDefer

Progress == Fill \/ StreamEnds \/ OutputFull \/ Continue \/ StreamIsCut \/ CodecFails

Next == ReadNothing \/ ReadDeferred \/ Read \/ Progress \/ SourceFails

(* A running read goes on; nobody is obliged to read. *)
Spec == Init /\ [][Next]_vars /\ WF_vars(Progress)
-----------------------------------------------------------------------------
(* However the input is cut into buffers and the reads are sized, the bytes
   returned are the entry's first, in order, as long as the chunk reader has not
   failed; when it has, bytes may be missing but none comes twice.  A clean end is
   the end of the zlib stream, trailer included, with every byte returned: a cut or
   corrupt entry never ends, in whichever read its error is discovered.             *)
EndIsTheStreams ==
  /\ \A i \in 2 .. Len(exposed) : exposed[i - 1] < exposed[i]
  /\ faults = 0 => exposed = [i \in 1 .. Len(exposed) |-> i]
  /\ answer = "end" => entry.end = "whole" /\ (faults = 0 => Len(exposed) = Size)
=============================================================================
