--------------------------- MODULE MCEntryDataReader ---------------------------
(* Entries for EntryDataReader: chunks, zlib streams, and LZ4 and Zstandard frames. *)
EXTENDS EntryDataReader, SequencesExt

CONSTANTS MaxYield,  \* bound: decoded bytes one compressed byte of a zlib stream releases
          MaxStream  \* bound: compressed bytes of a zlib stream

(* Every cut of two chunks, of any length a sign and a magnitude byte can give,
   followed by a terminator and a byte that is not the entry's.                  *)
ChunkOf(sign, size, data) == <<sign, size>> \o SubSeq(data, 1, size)

FullStreams ==
  {ChunkOf(s1, n1, <<0, 1>>) \o ChunkOf(s2, n2, <<2, 3>>) \o <<0, 0, 3>> :
     s1, s2 \in {0, 2}, n1, n2 \in {0, 1, 2}}
  \cup {<<s, 3>> \o ChunkOf(0, 1, <<0>>) : s \in {0, 2}}

CutStreams == UNION {Prefixes(s) : s \in FullStreams}

-----------------------------------------------------------------------------
SmallZlib ==
  {e \in [ready : BoundedSeq(0 .. MaxYield * MaxStream, MaxStream), end : {"whole", "cut", "corrupt"}, tail : 0 .. 2] :
     /\ \A i \in DOMAIN e.ready :
          LET before == IF i = 1 THEN 0 ELSE e.ready[i - 1] IN e.ready[i] \in before .. before + MaxYield
     /\ e.end = "cut" => e.tail = 0
     /\ e.end = "corrupt" => e.tail > 0
     /\ e.end = "whole" => e.ready # << >>}

-----------------------------------------------------------------------------
Zeros(n) == [i \in 1 .. n |-> 0]

Flag(on, mask) == IF on THEN mask ELSE 0

(* A frame as the LZ4 format writes it; f says which optional fields it has, and
   each block is its payload's length and whether it is stored raw.              *)
HeaderBytes(f) ==
  <<4, 34, 77, 24, 64 + Flag(f.checksums, 16) + Flag(f.sized, 8) + Flag(f.checksum, 4) + Flag(f.dictionary, 1), 64>>
    \o Zeros(1 + (IF f.sized THEN 8 ELSE 0) + (IF f.dictionary THEN 4 ELSE 0))

BlockBytes(f, b) ==
  <<b.bytes, 0, 0, Flag(b.raw, 128)>> \o Zeros(b.bytes) \o Zeros(IF f.checksums THEN 4 ELSE 0)

RECURSIVE Written(_, _, _)
(* The bytes of a frame's blocks, where each block begins, and where each decoded
   byte becomes available.                                                         *)
Written(f, blocks, sofar) ==
  LET begun == [sofar EXCEPT !.blocks = Append(@, Len(sofar.frame))]
  IN  IF blocks = << >>
      THEN [begun EXCEPT !.frame = @ \o Zeros(IF f.checksum THEN 8 ELSE 4)]
      ELSE LET frame == sofar.frame \o BlockBytes(f, Head(blocks))
           IN  Written(f, Tail(blocks),
                       [begun EXCEPT !.frame = frame,
                                     !.at = @ \o [i \in 1 .. Head(blocks).bytes |-> Len(frame)]])

Fields == [checksums : BOOLEAN, sized : BOOLEAN, checksum : BOOLEAN, dictionary : BOOLEAN]

Raw(n) == [bytes |-> n, raw |-> TRUE]
Packed(n) == [bytes |-> n, raw |-> FALSE]

Bodies == {<< >>, <<Raw(0), Packed(2)>>}

Lz4Frames == {Written(f, b, [frame |-> HeaderBytes(f), blocks |-> << >>, at |-> << >>]) : f \in Fields, b \in Bodies}

ZstdFrames == {[frame |-> Zeros(3), blocks |-> << >>, at |-> at] : at \in {<< >>, <<2, 2>>}}

FramesRead ==
  {[algorithm |-> a, frame |-> w.frame, blocks |-> w.blocks, at |-> w.at, length |-> n, corrupt |-> c] :
     a \in {"lz4"}, w \in Lz4Frames, n \in 0 .. 45, c \in {FALSE}}
  \cup {[algorithm |-> a, frame |-> w.frame, blocks |-> w.blocks, at |-> w.at, length |-> n, corrupt |-> c] :
     a \in {"zstd"}, w \in ZstdFrames, n \in 0 .. 5, c \in BOOLEAN}
  \cup {[algorithm |-> "lz4", frame |-> w.frame, blocks |-> w.blocks, at |-> w.at, length |-> Len(w.frame), corrupt |-> TRUE] :
     w \in Lz4Frames}

(* Entries with at most two bytes behind the frame. *)
SmallFrames == {e \in FramesRead : e.length <= Len(e.frame) + 2}
=============================================================================
