-------------------------- MODULE BoundedEntryReader --------------------------
(***************************************************************************)
(* BoundedEntryDataReader of crates/pgdumpx/src/raw_entry.rs: the byte     *)
(* budget over one entry's decoder.  A byte is its position in the decoded *)
(* entry.  The decoder underneath answers with some bytes, with the end,   *)
(* or with an error.  An error may cost decoded bytes: the zlib decoder    *)
(* returns its source's error and drops what it had produced.  It may also *)
(* leave a decoder that is read again and gives anything: the LZ4 and      *)
(* Zstandard codecs then start in the middle of what follows.              *)
(***************************************************************************)
EXTENDS Integers, Sequences

CONSTANTS
  Sizes,      \* numbers of bytes an entry may decode to
  Limits,     \* byte budgets, or Unlimited
  Unlimited,
  U64Max      \* largest value of the u64 counter

ASSUME ReaderAssumption ==
  /\ U64Max \in Nat
  /\ Sizes \subseteq Nat
  /\ Unlimited \notin Nat
  /\ Limits \subseteq 0 .. U64Max \cup {Unlimited}

(* A byte that a decoder out of step has given: it has no position. *)
Stray == 0

VARIABLES
  size, pos,  \* the decoder: bytes it can produce, bytes it has produced
  lost,       \* the decoder: it has failed and is out of step
  limit,      \* limits.max_decompressed_bytes
  returned,   \* returned
  terminal,   \* terminal_error: "none", "limit" or "overflow"
  exposed,    \* history: the bytes handed to the caller
  faulted,    \* history: the decoder has failed
  answer      \* history: what the last read returned

readerVars == <<size, pos, lost, limit, returned, terminal, exposed, faulted, answer>>

-----------------------------------------------------------------------------
Init ==
  /\ size \in Sizes
  /\ pos = 0
  /\ lost = FALSE
  /\ limit \in Limits
  /\ returned = 0
  /\ terminal = "none"
  /\ exposed = << >>
  /\ faulted = FALSE
  /\ answer = "none"

Least(a, b) == IF a <= b THEN a ELSE b

AtLimit == limit # Unlimited /\ returned >= limit

\* Mutant: the request is not cut to what is left of the budget.
WholeBuffer(n) == n

(* How much of an n-byte buffer the decoder is asked to fill. *)
Requested(n) == IF limit = Unlimited THEN n ELSE Least(n, limit - returned)

(* An empty buffer is answered before the stored error is looked at. *)
EmptyRead == answer' = "empty" /\ UNCHANGED <<size, pos, lost, limit, returned, terminal, exposed, faulted>>

RepeatError ==
  /\ terminal # "none"
  /\ answer' = terminal
  /\ UNCHANGED <<size, pos, lost, limit, returned, terminal, exposed, faulted>>

Overflows(k) == returned + k > U64Max

(* What the decoder can still give: the rest of the entry, or no end of bytes. *)
Available(n) == IF lost THEN Requested(n) ELSE Least(Requested(n), size - pos)

Given(k) == [i \in 1 .. k |-> IF lost THEN Stray ELSE pos + i]

Advance(k) == pos' = IF lost THEN pos ELSE pos + k

(* The decoder produces k bytes; they are the caller's unless the count overflows. *)
ReadBytes(n) ==
  /\ terminal = "none" /\ ~AtLimit
  /\ \E k \in 1 .. Available(n) :
       /\ Advance(k)
       /\ IF Overflows(k)
          THEN /\ terminal' = "overflow" /\ answer' = "overflow"
               /\ UNCHANGED <<returned, exposed>>
          ELSE /\ returned' = returned + k
               /\ exposed' = exposed \o Given(k)
               /\ answer' = "bytes"
               /\ UNCHANGED terminal
  /\ UNCHANGED <<size, lost, limit, faulted>>

(* At the budget a one-byte probe tells the end from one byte too many; *)
(* that byte is never returned.                                         *)
RefuseByte ==
  /\ terminal = "none" /\ AtLimit
  /\ lost \/ pos < size
  /\ Advance(1)
  /\ terminal' = IF Overflows(1) THEN "overflow" ELSE "limit"
  /\ answer' = terminal'
  /\ UNCHANGED <<size, lost, limit, returned, exposed, faulted>>

\* Mutant: an exhausted budget is reported as the end, without a probe.
EndAtLimit == lost \/ pos = size \/ AtLimit

DecoderEnds == lost \/ pos = size

ReadEnd ==
  /\ terminal = "none"
  /\ DecoderEnds
  /\ answer' = "end"
  /\ UNCHANGED <<size, pos, lost, limit, returned, terminal, exposed, faulted>>

(* The decoder's own errors are passed on and not stored. *)
DecoderFails ==
  /\ terminal = "none"
  /\ pos' \in pos .. size
  /\ lost' \in {lost, TRUE}
  /\ faulted' = TRUE
  /\ answer' = "failed"
  /\ UNCHANGED <<size, limit, returned, terminal, exposed>>

(* Read::read with a buffer of n bytes. *)
Read(n) ==
  \/ n = 0 /\ EmptyRead
  \/ n > 0 /\ RepeatError
  \/ n > 0 /\ ReadBytes(n)
  \/ n > 0 /\ RefuseByte
  \/ n > 0 /\ ReadEnd
  \/ n > 0 /\ DecoderFails

-----------------------------------------------------------------------------
ReaderTypeOK ==
  /\ size \in Sizes
  /\ pos \in 0 .. size
  /\ limit \in Limits
  /\ returned \in 0 .. U64Max
  /\ terminal \in {"none", "limit", "overflow"}
  /\ lost \in BOOLEAN
  /\ exposed \in Seq(0 .. size)
  /\ faulted \in BOOLEAN
  /\ answer \in {"none", "empty", "bytes", "end", "limit", "overflow", "failed"}

(* However the caller sizes its reads and whatever the decoder does, the bytes
   exposed are counted exactly and never pass the budget.                      *)
NothingBeyondTheLimit ==
  /\ returned = Len(exposed)
  /\ limit # Unlimited => Len(exposed) <= limit

(* The budget is not an end and an end is not a guess: unless the decoder failed
   before, a reader that ends has given the whole entry; one that refuses for its
   limit has given exactly that much, and of a longer entry unless the decoder is
   out of step; and one that has refused gives a caller who goes on reading the same
   refusal and nothing else.                                                         *)
EndIsNotTheLimit ==
  /\ answer = "end" /\ ~faulted => exposed = [i \in 1 .. size |-> i]
  /\ answer = "limit" => Len(exposed) = limit /\ (lost \/ limit < size)
  /\ terminal # "none" => answer \in {terminal, "empty"}
=============================================================================
