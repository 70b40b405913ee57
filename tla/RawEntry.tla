------------------------------- MODULE RawEntry -------------------------------
(***************************************************************************)
(* Archive::copy_entry_to of crates/pgdumpx/src/raw_entry.rs: the copy     *)
(* loop, with write_all_counted, over a BoundedEntryReader.  One step is   *)
(* one call of the reader or of the writer, and either may fail.           *)
(***************************************************************************)
EXTENDS BoundedEntryReader

CONSTANTS
  BufferBytes,   \* COPY_BUFFER_BYTES
  MaxInterrupts  \* bound: writes the operating system interrupts

ASSUME CopyAssumption == BufferBytes \in Nat \ {0} /\ MaxInterrupts \in Nat

VARIABLES
  pc,          \* "open", "read", "write" or "done"
  pending,     \* the rest of the buffer that write_all_counted still has to write
  copied,      \* copied, which is also write_all_counted's `written`
  accepted,    \* history: the bytes the writer has accepted
  interrupts,  \* writes interrupted so far
  outcome      \* the result, as in EntryCopy

copyVars == <<pc, pending, copied, accepted, interrupts, outcome>>
vars == <<readerVars, copyVars>>

Result(kind, bytes) == [kind |-> kind, bytes |-> bytes]

CopyInit ==
  /\ Init
  /\ pc = "open"
  /\ pending = << >>
  /\ copied = 0
  /\ accepted = << >>
  /\ interrupts = 0
  /\ outcome = Result("running", 0)

Finish(result) == pc' = "done" /\ outcome' = result

-----------------------------------------------------------------------------
(* Finding, seeking to and validating the entry; a missing dump ID, a bad
   offset or a bad data header is an error before anything is written.     *)
OpenEntry ==
  /\ pc = "open"
  /\ \/ pc' = "read" /\ UNCHANGED outcome
     \/ Finish(Result("unread", 0))
  /\ UNCHANGED <<readerVars, pending, copied, accepted, interrupts>>

\* Mutant: a read error is tried again.
RetriesReadErrors ==
  IF answer' = "end" THEN Finish(Result("complete", copied))
  ELSE /\ pc' = IF answer' = "bytes" THEN "write" ELSE "read"
       /\ UNCHANGED outcome

(* The results of reader.read: bytes to write, the end, or an error. *)
ReadResult ==
  CASE answer' = "bytes" -> pc' = "write" /\ UNCHANGED outcome
    [] answer' = "end"   -> Finish(Result("complete", copied))
    [] answer' = "limit" -> Finish(Result("limit", 0))
    [] OTHER             -> Finish(Result("unread", 0))

ReadBuffer ==
  /\ pc = "read"
  /\ Read(BufferBytes)
  /\ pending' = SubSeq(exposed', Len(exposed) + 1, Len(exposed'))
  /\ ReadResult
  /\ UNCHANGED <<copied, accepted, interrupts>>

\* Mutant: one write is taken to have written the whole buffer.
ShortWriteTakenAsWhole ==
  /\ pc = "write"
  /\ \E k \in 1 .. Len(pending) : accepted' = accepted \o SubSeq(pending, 1, k)
  /\ copied' = copied + Len(pending)
  /\ pending' = << >>
  /\ pc' = "read"
  /\ UNCHANGED <<readerVars, interrupts, outcome>>

(* The writer accepts the first k bytes. *)
WriteSome ==
  /\ pc = "write"
  /\ \E k \in 1 .. Len(pending) :
       /\ accepted' = accepted \o SubSeq(pending, 1, k)
       /\ pending' = SubSeq(pending, k + 1, Len(pending))
       /\ IF copied + k > U64Max
          THEN Finish(Result("unread", 0)) /\ UNCHANGED copied
          ELSE /\ copied' = copied + k
               /\ pc' = IF k = Len(pending) THEN "read" ELSE "write"
               /\ UNCHANGED outcome
  /\ UNCHANGED <<readerVars, interrupts>>

(* An interrupted write is tried again with the same bytes. *)
WriteInterrupted ==
  /\ pc = "write"
  /\ interrupts < MaxInterrupts
  /\ interrupts' = interrupts + 1
  /\ UNCHANGED <<readerVars, pc, pending, copied, accepted, outcome>>

\* Mutant: the bytes of the failed buffer count as written.
CountsPending ==
  /\ pc = "write"
  /\ Finish(Result("output", copied + Len(pending)))
  /\ UNCHANGED <<readerVars, pending, copied, accepted, interrupts>>

(* An error of the writer, or a write that accepts nothing. *)
WriteFails ==
  /\ pc = "write"
  /\ Finish(Result("output", copied))
  /\ UNCHANGED <<readerVars, pending, copied, accepted, interrupts>>

Next == OpenEntry \/ ReadBuffer \/ WriteSome \/ WriteInterrupted \/ WriteFails

(* The library runs its loop; a reader or writer that is called answers. *)
Spec == CopyInit /\ [][Next]_vars /\ WF_vars(Next)

-----------------------------------------------------------------------------
CopyTypeOK ==
  /\ ReaderTypeOK
  /\ pc \in {"open", "read", "write", "done"}
  /\ pending \in Seq(1 .. size)
  /\ copied \in 0 .. U64Max
  /\ accepted \in Seq(1 .. size)
  /\ interrupts \in 0 .. MaxInterrupts
  /\ outcome \in [kind : {"running", "complete", "output", "limit", "unread"}, bytes : 0 .. U64Max]

(* Through short writes, interruptions and any failure, what the writer has
   accepted and what is still buffered are together what the reader exposed:
   no byte is skipped, repeated or reordered, and all of them are counted.    *)
WriterGetsWhatWasRead ==
  /\ accepted \o pending = exposed
  /\ copied = Len(accepted)

(* Partial output is never reported as success: a complete copy is the whole
   entry, byte for byte, within the budget.                                  *)
CompleteIsWhole ==
  outcome.kind = "complete" =>
    /\ accepted = [i \in 1 .. size |-> i]
    /\ outcome.bytes = size
    /\ limit # Unlimited => size <= limit

(* A copy ends, whatever the reader and the writer answer. *)
CopyEnds == <>(pc = "done")

-----------------------------------------------------------------------------
(* The copy is an EntryCopy. *)
Copy == INSTANCE EntryCopy WITH accepted <- Len(accepted)

ImplementsEntryCopy == Copy!Spec
=============================================================================
