---------------------------- MODULE RawEntryProofs ----------------------------
(***************************************************************************)
(* Proofs about RawEntry: its types, its byte budget, that a complete copy *)
(* is the whole entry, and that the copy implements EntryCopy, for every   *)
(* entry size, budget, buffer size, counter width and number of            *)
(* interrupted writes.                                                     *)
(***************************************************************************)
EXTENDS RawEntry, SequenceTheorems, TLAPS

(* The first n bytes of an entry, in order. *)
FirstBytes(n) == [i \in 1 .. n |-> i]

(* The k bytes after the first m. *)
BytesAfter(m, k) == [i \in 1 .. k |-> m + i]

(* A buffer of which a write has taken the first k bytes: those, and the rest. *)
Taken(p, k) == SubSeq(p, 1, k)
Rest(p, k)  == SubSeq(p, k + 1, Len(p))
Joins(a, p, k) == (a \o Taken(p, k)) \o Rest(p, k) = a \o p

(* What every read keeps true of the reader. *)
ReadInv ==
  /\ NothingBeyondTheLimit
  /\ lost => faulted
  /\ ~faulted /\ terminal = "none" => exposed = FirstBytes(pos)

(* How the copy loop's place relates to its reader, its buffer and its result. *)
LoopInv ==
  /\ pc # "done" => /\ ~faulted /\ terminal = "none"
                    /\ outcome = Result("running", 0)
  /\ pc = "done" => outcome.kind # "running"
  /\ pc \in {"open", "read"} => pending = << >>
  /\ pc = "write" => pending # << >>

CopyInv == CopyTypeOK /\ ReadInv /\ WriterGetsWhatWasRead /\ LoopInv /\ CompleteIsWhole

-----------------------------------------------------------------------------
(* Splitting a buffer at the number of bytes a write took loses nothing. *)
LEMMA SplitBuffer ==
  ASSUME NEW S, NEW a \in Seq(S), NEW p \in Seq(S), NEW k \in 1 .. Len(p)
  PROVE  /\ Taken(p, k) \in Seq(S) /\ Len(Taken(p, k)) = k
         /\ Rest(p, k) \in Seq(S) /\ Len(Rest(p, k)) = Len(p) - k
         /\ Joins(a, p, k)
<1> DEFINE front == SubSeq(p, 1, k)
           back  == SubSeq(p, k + 1, Len(p))
<1>1. Len(p) \in Nat /\ \A i \in 1 .. Len(p) : p[i] \in S
  BY LenProperties, ElementOfSeq
<1>2. front \in Seq(S) /\ Len(front) = k
  <2>1. \A i \in 1 .. k : p[i] \in S
    BY <1>1
  <2> QED  BY <2>1, <1>1, SubSeqProperties
<1>3. back \in Seq(S) /\ Len(back) = Len(p) - k
  <2>1. \A i \in k + 1 .. Len(p) : p[i] \in S
    BY <1>1
  <2> QED  BY <2>1, <1>1, SubSeqProperties
<1>4. /\ \A i \in 1 .. k : front[i] = p[i]
      /\ \A i \in 1 .. Len(p) - k : back[i] = p[k + i]
  <2>1. /\ \A i \in 1 .. k : p[i] \in S
        /\ \A i \in k + 1 .. Len(p) : p[i] \in S
    BY <1>1
  <2>2. \A i \in 1 .. k - 1 + 1 : front[i] = p[1 + i - 1]
    BY <2>1, <1>1, SubSeqProperties
  <2>3. \A i \in 1 .. Len(p) - (k + 1) + 1 : back[i] = p[k + 1 + i - 1]
    BY <2>1, <1>1, SubSeqProperties
  <2> HIDE DEF front, back
  <2> QED  BY <2>2, <2>3, <1>1
<1> HIDE DEF front, back
<1>5. /\ Len(a) \in Nat
      /\ a \o front \in Seq(S) /\ Len(a \o front) = Len(a) + k
      /\ \A i \in 1 .. Len(a) + k :
           (a \o front)[i] = IF i <= Len(a) THEN a[i] ELSE front[i - Len(a)]
  BY <1>2, ConcatProperties, LenProperties
<1>6. /\ (a \o front) \o back \in Seq(S)
      /\ Len((a \o front) \o back) = Len(a) + Len(p)
      /\ \A i \in 1 .. Len(a) + Len(p) :
           ((a \o front) \o back)[i]
             = IF i <= Len(a) + k THEN (a \o front)[i] ELSE back[i - (Len(a) + k)]
  <2> DEFINE left == a \o front
  <2>1. left \in Seq(S) /\ Len(left) = Len(a) + k
    BY <1>5
  <2> HIDE DEF left
  <2>2. /\ left \o back \in Seq(S)
        /\ Len(left \o back) = Len(left) + Len(back)
        /\ \A i \in 1 .. Len(left) + Len(back) :
             (left \o back)[i] = IF i <= Len(left) THEN left[i] ELSE back[i - Len(left)]
    BY <2>1, <1>3, ConcatProperties
  <2>3. /\ left \o back \in Seq(S)
        /\ Len(left \o back) = Len(a) + Len(p)
        /\ \A i \in 1 .. Len(a) + Len(p) :
             (left \o back)[i] = IF i <= Len(a) + k THEN left[i] ELSE back[i - (Len(a) + k)]
    BY <2>1, <2>2, <1>1, <1>3, <1>5
  <2> QED  BY <2>3 DEF left
<1>7. /\ a \o p \in Seq(S) /\ Len(a \o p) = Len(a) + Len(p)
      /\ \A i \in 1 .. Len(a) + Len(p) :
           (a \o p)[i] = IF i <= Len(a) THEN a[i] ELSE p[i - Len(a)]
  BY ConcatProperties
<1>8. \A i \in 1 .. Len(a) + Len(p) : ((a \o front) \o back)[i] = (a \o p)[i]
  BY <1>1, <1>4, <1>5, <1>6, <1>7
<1>9. (a \o front) \o back = a \o p
  <2> DEFINE x == (a \o front) \o back
             y == a \o p
  <2>1. x \in Seq(S) /\ y \in Seq(S) /\ Len(x) = Len(y) /\ \A i \in 1 .. Len(x) : x[i] = y[i]
    BY <1>6, <1>7, <1>8
  <2> HIDE DEF x, y
  <2>2. x = y
    BY <2>1, SeqEqual
  <2> QED  BY <2>2 DEF x, y
<1>10. front = Taken(p, k) /\ back = Rest(p, k)
  BY DEF front, back, Taken, Rest
<1> QED  BY <1>2, <1>3, <1>9, <1>10 DEF Joins

(* What a read adds to the exposed bytes is exactly the buffer it filled. *)
LEMMA NewBytes ==
  ASSUME NEW S, NEW e \in Seq(S), NEW n \in Seq(S)
  PROVE  SubSeq(e \o n, Len(e) + 1, Len(e \o n)) = n
<1> DEFINE new == SubSeq(e \o n, Len(e) + 1, Len(e \o n))
<1>1. /\ e \o n \in Seq(S) /\ Len(e \o n) = Len(e) + Len(n)
      /\ Len(e) \in Nat /\ Len(n) \in Nat
      /\ \A i \in 1 .. Len(e) + Len(n) :
           (e \o n)[i] = IF i <= Len(e) THEN e[i] ELSE n[i - Len(e)]
  BY ConcatProperties, LenProperties
<1>2. \A i \in Len(e) + 1 .. Len(e \o n) : (e \o n)[i] \in S
  BY <1>1, ElementOfSeq
<1>3. /\ new \in Seq(S)
      /\ Len(new) = IF Len(e) + 1 <= Len(e \o n) THEN Len(e \o n) - (Len(e) + 1) + 1 ELSE 0
      /\ \A i \in 1 .. Len(e \o n) - (Len(e) + 1) + 1 : new[i] = (e \o n)[Len(e) + 1 + i - 1]
  BY <1>1, <1>2, SubSeqProperties
<1>4. Len(new) = Len(n)
  BY <1>1, <1>3
<1>5. \A i \in 1 .. Len(new) : new[i] = n[i]
  BY <1>1, <1>3, <1>4
<1> QED  BY <1>3, <1>4, <1>5, SeqEqual

(* The first m bytes of an entry of at least m bytes. *)
LEMMA FirstBytesAreASequence ==
  ASSUME NEW m \in Nat, NEW size1 \in Nat, m <= size1
  PROVE  FirstBytes(m) \in Seq(1 .. size1) /\ Len(FirstBytes(m)) = m
BY DEF FirstBytes

(* A run of k bytes from position m on continues the first m bytes. *)
LEMMA NextBytes ==
  ASSUME NEW m \in Nat, NEW k \in Nat, NEW size1 \in Nat, m + k <= size1
  PROVE  /\ FirstBytes(m) \in Seq(1 .. size1) /\ Len(FirstBytes(m)) = m
         /\ BytesAfter(m, k) \in Seq(1 .. size1)
         /\ Len(BytesAfter(m, k)) = k
         /\ FirstBytes(m) \o BytesAfter(m, k) = FirstBytes(m + k)
<1> DEFINE run == BytesAfter(m, k)
<1>1. FirstBytes(m) \in Seq(1 .. size1) /\ Len(FirstBytes(m)) = m
  BY FirstBytesAreASequence
<1>2. run \in Seq(1 .. size1) /\ Len(run) = k
  BY DEF BytesAfter
<1>3. FirstBytes(m + k) \in Seq(1 .. size1) /\ Len(FirstBytes(m + k)) = m + k
  BY FirstBytesAreASequence
<1>4. /\ FirstBytes(m) \o run \in Seq(1 .. size1)
      /\ Len(FirstBytes(m) \o run) = m + k
      /\ \A i \in 1 .. m + k :
           (FirstBytes(m) \o run)[i] = IF i <= m THEN FirstBytes(m)[i] ELSE run[i - m]
  <2> DEFINE firsts == FirstBytes(m)
  <2>1. firsts \in Seq(1 .. size1) /\ run \in Seq(1 .. size1) /\ Len(firsts) = m /\ Len(run) = k
    BY <1>1, <1>2
  <2> HIDE DEF firsts, run
  <2>2. /\ firsts \o run \in Seq(1 .. size1)
        /\ Len(firsts \o run) = Len(firsts) + Len(run)
        /\ \A i \in 1 .. Len(firsts) + Len(run) :
             (firsts \o run)[i] = IF i <= Len(firsts) THEN firsts[i] ELSE run[i - Len(firsts)]
    BY <2>1, ConcatProperties
  <2>3. /\ firsts \o run \in Seq(1 .. size1)
        /\ Len(firsts \o run) = m + k
        /\ \A i \in 1 .. m + k :
             (firsts \o run)[i] = IF i <= m THEN firsts[i] ELSE run[i - m]
    BY <2>1, <2>2
  <2> QED  BY <2>3 DEF firsts
<1>5. \A i \in 1 .. m + k : (FirstBytes(m) \o run)[i] = FirstBytes(m + k)[i]
  BY <1>4 DEF FirstBytes, BytesAfter
<1>6. FirstBytes(m) \o run = FirstBytes(m + k)
  <2> HIDE DEF run
  <2> QED  BY <1>3, <1>4, <1>5, SeqEqual
<1> QED  BY <1>1, <1>2, <1>6

-----------------------------------------------------------------------------
(* One read of a non-empty buffer by a reader that has not stopped: it adds a
   non-empty run of the next bytes and goes on, or it adds nothing.           *)
Grows == /\ answer' = "bytes" /\ ~faulted' /\ terminal' = "none"
         /\ \E new \in Seq(1 .. size) : new # << >> /\ exposed' = exposed \o new

Stops == /\ exposed' = exposed /\ answer' \in {"end", "limit", "overflow", "failed"}
         /\ answer' = "end" => pos = size
         /\ answer' = "limit" => returned = limit /\ size > pos

LEMMA ReadKeepsTheReader ==
  ASSUME ReaderTypeOK, ReadInv, terminal = "none", ~faulted,
         NEW n \in Nat \ {0}, Read(n)
  PROVE  ReaderTypeOK' /\ ReadInv' /\ (Grows \/ Stops) /\ UNCHANGED <<size, limit>>
<1> USE ReaderAssumption DEF ReaderTypeOK
<1>0. /\ size \in Nat /\ pos \in Nat /\ returned \in Nat /\ U64Max \in Nat
      /\ limit # Unlimited => limit \in 0 .. U64Max
      /\ exposed = FirstBytes(pos) /\ returned = Len(exposed) /\ lost = FALSE
      /\ limit # Unlimited => Len(exposed) <= limit
  BY DEF ReadInv, NothingBeyondTheLimit
<1>1. CASE ReadBytes(n)
  <2>1. PICK k \in 1 .. Available(n) :
          /\ Advance(k)
          /\ IF Overflows(k)
             THEN /\ terminal' = "overflow" /\ answer' = "overflow"
                  /\ UNCHANGED <<returned, exposed>>
             ELSE /\ returned' = returned + k
                  /\ exposed' = exposed \o Given(k)
                  /\ answer' = "bytes"
                  /\ UNCHANGED terminal
    BY <1>1 DEF ReadBytes
  <2>2. /\ UNCHANGED <<size, lost, limit, faulted>>
        /\ limit # Unlimited => returned < limit
    BY <1>0, <1>1 DEF ReadBytes, AtLimit
  <2>3. /\ k \in Nat \ {0} /\ pos + k <= size /\ pos' = pos + k
        /\ limit # Unlimited => returned + k <= limit
    BY <1>0, <2>1, <2>2 DEF Available, Advance, Least, Requested
  <2>4. CASE Overflows(k)
    BY <1>0, <2>1, <2>2, <2>3, <2>4 DEF ReadInv, NothingBeyondTheLimit, Stops
  <2>5. CASE ~Overflows(k)
    <3> DEFINE run == BytesAfter(pos, k)
    <3>1. /\ run \in Seq(1 .. size) /\ Len(run) = k
          /\ FirstBytes(pos) \o run = FirstBytes(pos + k)
          /\ FirstBytes(pos + k) \in Seq(1 .. size) /\ Len(FirstBytes(pos + k)) = pos + k
          /\ Len(FirstBytes(pos)) = pos
      <4>1. pos + k \in Nat /\ k \in Nat
        BY <1>0, <2>3
      <4>2. /\ run \in Seq(1 .. size) /\ Len(run) = k /\ Len(FirstBytes(pos)) = pos
            /\ FirstBytes(pos) \o run = FirstBytes(pos + k)
        BY <4>1, <1>0, <2>3, NextBytes
      <4>3. FirstBytes(pos + k) \in Seq(1 .. size) /\ Len(FirstBytes(pos + k)) = pos + k
        BY <4>1, <1>0, <2>3, FirstBytesAreASequence
      <4> QED  BY <4>2, <4>3
    <3>2. /\ exposed' = exposed \o run /\ exposed' = FirstBytes(pos')
          /\ returned' = Len(exposed') /\ returned' = returned + k
          /\ answer' = "bytes" /\ terminal' = "none"
      <4>1. exposed' = exposed \o run /\ returned' = returned + k
            /\ answer' = "bytes" /\ terminal' = "none"
        BY <1>0, <2>1, <2>5 DEF BytesAfter, Given
      <4> HIDE DEF run
      <4> QED  BY <1>0, <2>1, <2>3, <3>1, <4>1
    <3>3. exposed' \in Seq(0 .. size)
      BY <2>3, <3>1, <3>2
    <3>4. returned' \in 0 .. U64Max
      BY <1>0, <2>3, <2>5, <3>2 DEF Overflows
    <3>5. ReaderTypeOK'
      BY <1>0, <2>1, <2>2, <2>3, <3>2, <3>3, <3>4
    <3>6. ReadInv'
      BY <1>0, <2>2, <2>3, <3>2 DEF ReadInv, NothingBeyondTheLimit
    <3>7. run # << >>
      BY <3>1, <2>3
    <3>8. Grows
      <4> HIDE DEF run
      <4> QED  BY <2>2, <3>1, <3>2, <3>7 DEF Grows
    <3> QED  BY <2>2, <3>5, <3>6, <3>8
  <2> QED  BY <2>4, <2>5
<1>2. CASE RefuseByte
  BY <1>0, <1>2 DEF RefuseByte, Advance, AtLimit, Overflows, ReadInv, NothingBeyondTheLimit, Stops
<1>3. CASE ReadEnd
  BY <1>0, <1>3 DEF ReadEnd, DecoderEnds, ReadInv, NothingBeyondTheLimit, Stops
<1>4. CASE DecoderFails
  <2>1. /\ pos' \in 0 .. size /\ faulted' = TRUE /\ answer' = "failed"
        /\ UNCHANGED <<size, limit, returned, terminal, exposed>>
    BY <1>0, <1>4 DEF DecoderFails
  <2>2. lost' \in BOOLEAN
    BY <1>0, <1>4 DEF DecoderFails
  <2> QED
    BY <1>0, <2>1, <2>2 DEF ReadInv, NothingBeyondTheLimit, Stops
<1> QED  BY <1>1, <1>2, <1>3, <1>4 DEF Read, RepeatError

-----------------------------------------------------------------------------
(* CopyInv is inductive. *)
LEMMA CopyInvInit == CopyInit => CopyInv
<1> SUFFICES ASSUME CopyInit PROVE CopyInv
  OBVIOUS
<1>0. /\ size \in Sizes /\ pos = 0 /\ limit \in Limits /\ returned = 0
      /\ terminal = "none" /\ exposed = << >> /\ faulted = FALSE /\ answer = "none" /\ lost = FALSE
  BY DEF CopyInit, Init
<1> USE ReaderAssumption, CopyAssumption DEF CopyInit, Result
<1>1. CopyTypeOK
  <2>1. << >> \in Seq(1 .. size)
    BY EmptySeq
  <2>2. ReaderTypeOK
    <3>1. pos \in 0 .. size /\ returned \in 0 .. U64Max
      BY <1>0
    <3>2. exposed \in Seq(0 .. size)
      BY <1>0, <2>1
    <3>3. faulted \in BOOLEAN
      BY <1>0
    <3> QED  BY <1>0, <3>1, <3>2, <3>3 DEF ReaderTypeOK
  <2>3. 0 \in 0 .. U64Max /\ 0 \in 0 .. MaxInterrupts
    OBVIOUS
  <2> QED  BY <2>1, <2>2, <2>3 DEF CopyTypeOK
<1>2. << >> = FirstBytes(0) /\ << >> \o << >> = << >>
  <2>1. FirstBytes(0) = << >>
    <3>1. FirstBytes(0) \in Seq({}) /\ Len(FirstBytes(0)) = 0
      BY DEF FirstBytes
    <3> QED  BY <3>1, EmptySeq
  <2> QED  BY <2>1, << >> \in Seq({}), ConcatEmptySeq
<1>3. ReadInv
  BY <1>0, <1>2 DEF ReadInv, NothingBeyondTheLimit
<1>4. WriterGetsWhatWasRead
  BY <1>0, <1>2 DEF WriterGetsWhatWasRead
<1>5. LoopInv /\ CompleteIsWhole
  BY <1>0 DEF LoopInv, CompleteIsWhole
<1> QED  BY <1>1, <1>3, <1>4, <1>5 DEF CopyInv

(* A read by the loop: what it may be, with the buffer it leaves. *)
LEMMA ReadBufferStep ==
  ASSUME CopyInv, ReadBuffer
  PROVE  /\ CopyInv'
         /\ accepted' = accepted /\ UNCHANGED <<size, limit>>
         /\ outcome' # outcome =>
              \/ outcome' = Result("complete", Len(accepted)) /\ Len(accepted) = size
              \/ outcome' = Result("limit", 0) /\ Len(accepted) = limit /\ size > limit
              \/ outcome' = Result("unread", 0)
<1> USE ReaderAssumption, CopyAssumption
<1>1. /\ pc = "read" /\ terminal = "none" /\ ~faulted /\ pending = << >>
      /\ outcome = Result("running", 0)
      /\ accepted \o pending = exposed /\ copied = Len(accepted)
      /\ ReaderTypeOK /\ ReadInv /\ exposed = FirstBytes(pos)
      /\ copied \in 0 .. U64Max /\ interrupts \in 0 .. MaxInterrupts
      /\ accepted \in Seq(1 .. size) /\ size \in Nat /\ pos \in 0 .. size
      /\ exposed \in Seq(1 .. size)
  <2>1. /\ pc = "read" /\ terminal = "none" /\ ~faulted /\ pending = << >>
        /\ outcome = Result("running", 0)
        /\ accepted \o pending = exposed /\ copied = Len(accepted)
        /\ ReaderTypeOK /\ ReadInv /\ exposed = FirstBytes(pos)
        /\ copied \in 0 .. U64Max /\ interrupts \in 0 .. MaxInterrupts
        /\ accepted \in Seq(1 .. size) /\ size \in Nat /\ pos \in 0 .. size
    BY DEF CopyInv, ReadBuffer, LoopInv, WriterGetsWhatWasRead, CopyTypeOK, ReaderTypeOK, ReadInv
  <2>2. exposed \in Seq(1 .. size)
    BY <2>1, FirstBytesAreASequence
  <2> QED
    BY <2>1, <2>2
<1>2. accepted = exposed
  BY <1>1, ConcatEmptySeq
<1>3. /\ Read(BufferBytes) /\ UNCHANGED <<copied, accepted, interrupts>>
      /\ pending' = SubSeq(exposed', Len(exposed) + 1, Len(exposed'))
      /\ ReadResult
  BY DEF ReadBuffer
<1>4. ReaderTypeOK' /\ ReadInv' /\ (Grows \/ Stops) /\ UNCHANGED <<size, limit>>
  BY <1>1, <1>3, ReadKeepsTheReader
<1>5. CASE Grows
  <2>1. PICK new \in Seq(1 .. size) : new # << >> /\ exposed' = exposed \o new
    BY <1>5 DEF Grows
  <2>2. pending' = new
    BY <1>1, <1>3, <2>1, NewBytes
  <2>3. /\ answer' = "bytes" /\ ~faulted' /\ terminal' = "none"
        /\ pc' = "write" /\ UNCHANGED outcome
    BY <1>3, <1>5 DEF Grows, ReadResult
  <2>4. CopyTypeOK'
    BY <1>1, <1>3, <1>4, <2>1, <2>2, <2>3 DEF CopyTypeOK, CopyInv
  <2>5. WriterGetsWhatWasRead'
    BY <1>1, <1>2, <1>3, <2>1, <2>2 DEF WriterGetsWhatWasRead
  <2>6. LoopInv' /\ CompleteIsWhole'
    BY <1>1, <2>1, <2>2, <2>3 DEF LoopInv, CompleteIsWhole, Result
  <2> QED  BY <1>3, <1>4, <2>3, <2>4, <2>5, <2>6 DEF CopyInv
<1>6. CASE Stops
  <2>1. exposed' = exposed /\ answer' \in {"end", "limit", "overflow", "failed"}
    BY <1>6 DEF Stops
  <2>2. pending' = << >>
    BY <1>1, <1>3, <2>1, LenProperties, SubSeqEmpty
  <2>3. /\ pc' = "done"
        /\ outcome' = CASE answer' = "end"   -> Result("complete", copied)
                        [] answer' = "limit" -> Result("limit", 0)
                        [] OTHER             -> Result("unread", 0)
    BY <1>3, <2>1 DEF ReadResult, Finish
  <2>4. answer' = "end" => /\ exposed = FirstBytes(size) /\ Len(accepted) = size
                           /\ limit # Unlimited => size <= limit
    <3> SUFFICES ASSUME answer' = "end"
                 PROVE  /\ exposed = FirstBytes(size) /\ Len(accepted) = size
                        /\ limit # Unlimited => size <= limit
      OBVIOUS
    <3>1. pos = size
      BY <1>6 DEF Stops
    <3>2. exposed = FirstBytes(size) /\ Len(FirstBytes(size)) = size
      BY <1>1, <3>1, FirstBytesAreASequence
    <3> QED  BY <1>1, <1>2, <3>2 DEF ReadInv, NothingBeyondTheLimit
  <2>5. answer' = "limit" => Len(accepted) = limit /\ size > limit
    <3> SUFFICES ASSUME answer' = "limit"
                 PROVE  Len(accepted) = limit /\ size > limit
      OBVIOUS
    <3>1. returned = limit /\ size > pos
      BY <1>6 DEF Stops
    <3>2. Len(exposed) = pos
      BY <1>1, FirstBytesAreASequence
    <3> QED  BY <1>1, <1>2, <3>1, <3>2 DEF ReadInv, NothingBeyondTheLimit
  <2>6. CopyTypeOK'
    BY <1>1, <1>3, <1>4, <2>2, <2>3 DEF CopyTypeOK, CopyInv, Result
  <2>7. WriterGetsWhatWasRead'
    BY <1>1, <1>3, <2>1, <2>2 DEF WriterGetsWhatWasRead
  <2>8. LoopInv' /\ CompleteIsWhole'
    BY <1>1, <1>2, <1>3, <1>4, <2>2, <2>3, <2>4 DEF LoopInv, CompleteIsWhole, Result, FirstBytes
  <2> QED  BY <1>1, <1>3, <1>4, <2>1, <2>3, <2>4, <2>5, <2>6, <2>7, <2>8 DEF CopyInv
<1> QED  BY <1>4, <1>5, <1>6

(* A write: the writer's bytes move from the buffer, and the count follows.  The
   count cannot overflow, because every byte written was counted when it was read. *)
LEMMA WriteSomeStep ==
  ASSUME CopyInv, WriteSome
  PROVE  /\ CopyInv'
         /\ Len(accepted') > Len(accepted) /\ Len(accepted') <= size
         /\ limit # Unlimited => Len(accepted') <= limit
         /\ UNCHANGED <<size, limit, outcome>>
<1> USE ReaderAssumption, CopyAssumption
<1>1. /\ pc = "write" /\ terminal = "none" /\ ~faulted /\ outcome = Result("running", 0)
      /\ pending # << >>
      /\ accepted \o pending = exposed /\ copied = Len(accepted)
      /\ ReaderTypeOK /\ ReadInv /\ exposed = FirstBytes(pos)
      /\ copied \in 0 .. U64Max /\ returned \in 0 .. U64Max
      /\ accepted \in Seq(1 .. size) /\ pending \in Seq(1 .. size)
      /\ size \in Nat /\ pos \in 0 .. size /\ U64Max \in Nat
      /\ returned = Len(exposed)
      /\ limit # Unlimited => Len(exposed) <= limit /\ limit \in 0 .. U64Max
  BY DEF CopyInv, WriteSome, LoopInv, WriterGetsWhatWasRead, CopyTypeOK, ReaderTypeOK, ReadInv,
         NothingBeyondTheLimit
<1>2. PICK k \in 1 .. Len(pending) :
        /\ accepted' = accepted \o SubSeq(pending, 1, k)
        /\ pending' = SubSeq(pending, k + 1, Len(pending))
        /\ IF copied + k > U64Max
           THEN Finish(Result("unread", 0)) /\ UNCHANGED copied
           ELSE /\ copied' = copied + k
                /\ pc' = IF k = Len(pending) THEN "read" ELSE "write"
                /\ UNCHANGED outcome
  BY DEF WriteSome
<1>3. UNCHANGED <<readerVars, interrupts>>
  BY DEF WriteSome
<1>4. /\ Len(pending) \in Nat /\ Len(accepted) \in Nat /\ k \in Nat
      /\ Len(exposed) = Len(accepted) + Len(pending) /\ Len(exposed) = pos
  <2>1. accepted \in Seq(1 .. size) /\ pending \in Seq(1 .. size)
    BY <1>1
  <2>2. Len(accepted \o pending) = Len(accepted) + Len(pending)
    BY <2>1, ConcatProperties
  <2>3. Len(pending) \in Nat /\ Len(accepted) \in Nat
    BY <2>1, LenProperties
  <2>4. pos \in Nat /\ size \in Nat /\ pos <= size /\ exposed = FirstBytes(pos)
    BY <1>1
  <2>5. Len(exposed) = pos
    BY <2>4, FirstBytesAreASequence
  <2>6. accepted \o pending = exposed
    BY <1>1
  <2>7. Len(exposed) = Len(accepted) + Len(pending)
    BY <2>2, <2>6, Zenon
  <2>8. k \in Nat
    BY <2>3
  <2> QED  BY <2>3, <2>5, <2>7, <2>8
<1>5. /\ pending' \in Seq(1 .. size) /\ Len(pending') = Len(pending) - k
      /\ accepted' \in Seq(1 .. size) /\ Len(accepted') = Len(accepted) + k
      /\ accepted' \o pending' = exposed
  <2>1. /\ accepted \in Seq(1 .. size) /\ pending \in Seq(1 .. size)
        /\ accepted \o pending = exposed
    BY <1>1
  <2>2. /\ Taken(pending, k) \in Seq(1 .. size) /\ Len(Taken(pending, k)) = k
        /\ Rest(pending, k) \in Seq(1 .. size) /\ Len(Rest(pending, k)) = Len(pending) - k
        /\ Joins(accepted, pending, k)
    BY <2>1, SplitBuffer
  <2>3. accepted' = accepted \o Taken(pending, k) /\ pending' = Rest(pending, k)
    BY <1>2 DEF Taken, Rest
  <2>4. accepted' \in Seq(1 .. size) /\ Len(accepted') = Len(accepted) + Len(Taken(pending, k))
    BY <2>1, <2>2, <2>3, ConcatProperties
  <2>5. accepted' \o pending' = exposed
    BY <2>1, <2>2, <2>3, Zenon DEF Joins
  <2> QED  BY <2>2, <2>3, <2>4, <2>5
<1>7. /\ copied' = copied + k /\ copied' \in 0 .. U64Max
      /\ pc' = (IF k = Len(pending) THEN "read" ELSE "write")
      /\ UNCHANGED outcome
  <2>1. /\ copied \in Nat /\ U64Max \in Nat /\ copied = Len(accepted)
        /\ returned = Len(accepted) + Len(pending) /\ returned <= U64Max
        /\ k <= Len(pending)
    <3>1. returned = Len(accepted) + Len(pending)
      BY <1>1, <1>4
    <3>2. k <= Len(pending)
      BY <1>4
    <3> QED  BY <3>1, <3>2, <1>1
  <2>2. copied + k \in 0 .. U64Max /\ ~(copied + k > U64Max)
    BY <2>1, <1>4
  <2> QED  BY <1>2, <2>2
<1>8. CopyTypeOK'
  <2>1. ReaderTypeOK'
    BY <1>1, <1>3 DEF ReaderTypeOK, readerVars
  <2>2. outcome' \in [kind : {"running", "complete", "output", "limit", "unread"}, bytes : 0 .. U64Max]
    BY <1>7 DEF CopyInv, CopyTypeOK
  <2>3. interrupts' \in 0 .. MaxInterrupts
    BY <1>3 DEF CopyInv, CopyTypeOK
  <2>4. pending' \in Seq(1 .. size') /\ accepted' \in Seq(1 .. size')
    BY <1>3, <1>5 DEF readerVars
  <2> QED  BY <1>7, <2>1, <2>2, <2>3, <2>4 DEF CopyTypeOK
<1>9. ReadInv' /\ WriterGetsWhatWasRead'
  BY <1>1, <1>3, <1>5, <1>7
     DEF ReadInv, NothingBeyondTheLimit, readerVars, WriterGetsWhatWasRead
<1>10. LoopInv' /\ CompleteIsWhole'
  <2>1. k = Len(pending) => pending' = << >>
    BY <1>4, <1>5, EmptySeq
  <2>2. k # Len(pending) => pending' # << >>
    <3>1. k # Len(pending) => Len(pending') # 0
      BY <1>4, <1>5
    <3> QED  BY <3>1, EmptySeq
  <2> QED  BY <1>1, <1>3, <1>7, <2>1, <2>2 DEF LoopInv, CompleteIsWhole, readerVars, Result
<1>11. Len(accepted') > Len(accepted) /\ Len(accepted') <= size
  <2>1. Len(accepted') = Len(accepted) + k /\ k <= Len(pending) /\ k > 0
    BY <1>4, <1>5
  <2>2. Len(accepted) + Len(pending) = pos /\ pos <= size
    BY <1>1, <1>4
  <2> QED  BY <1>1, <1>4, <2>1, <2>2
<1>12. limit # Unlimited => Len(accepted') <= limit
  BY <1>1, <1>4, <1>5
<1>13. CopyInv'
  BY <1>8, <1>9, <1>10 DEF CopyInv
<1> QED  BY <1>3, <1>7, <1>11, <1>12, <1>13 DEF readerVars

(* Every step keeps CopyInv and is a step of EntryCopy or changes none of its state. *)
LEMMA CopyStep ==
  ASSUME CopyInv, [Next]_vars
  PROVE  CopyInv' /\ [Copy!Next]_(Copy!vars)
<1> USE ReaderAssumption, CopyAssumption
<1>1. CASE OpenEntry
  <2>1. UNCHANGED <<readerVars, pending, copied, accepted, interrupts>>
    BY <1>1 DEF OpenEntry
  <2>2. /\ pc = "open"
        /\ \/ pc' = "read" /\ UNCHANGED outcome
           \/ pc' = "done" /\ outcome' = Result("unread", 0)
    BY <1>1 DEF OpenEntry, Finish
  <2>3. outcome = Result("running", 0)
    BY <2>2 DEF CopyInv, LoopInv
  <2>4. CopyInv'
    BY <2>1, <2>2, <2>3 DEF CopyInv, CopyTypeOK, ReaderTypeOK, ReadInv, NothingBeyondTheLimit,
         WriterGetsWhatWasRead, LoopInv, CompleteIsWhole, readerVars, Result
  <2>5. [Copy!Next]_(Copy!vars)
    BY <2>1, <2>2, <2>3 DEF readerVars, Copy!Next, Copy!vars, Copy!ReadFails, Copy!End,
         Copy!Unread, Copy!Running, Result
  <2> QED  BY <2>4, <2>5
<1>2. CASE ReadBuffer
  <2>1. /\ CopyInv'
        /\ accepted' = accepted /\ UNCHANGED <<size, limit>>
        /\ outcome' # outcome =>
             \/ outcome' = Result("complete", Len(accepted)) /\ Len(accepted) = size
             \/ outcome' = Result("limit", 0) /\ Len(accepted) = limit /\ size > limit
             \/ outcome' = Result("unread", 0)
    BY <1>2, ReadBufferStep
  <2>2. outcome = Result("running", 0)
    BY <1>2 DEF CopyInv, LoopInv, ReadBuffer
  <2>3. [Copy!Next]_(Copy!vars)
    BY <2>1, <2>2 DEF Copy!Next, Copy!vars, Copy!ReadFails, Copy!LimitExceeded, Copy!Complete,
         Copy!End, Copy!Unread, Copy!TooLong, Copy!Running, Result
  <2> QED  BY <2>1, <2>3
<1>3. CASE WriteSome
  <2>1. /\ CopyInv'
        /\ Len(accepted') > Len(accepted) /\ Len(accepted') <= size
        /\ limit # Unlimited => Len(accepted') <= limit
        /\ UNCHANGED <<size, limit, outcome>>
    BY <1>3, WriteSomeStep
  <2>2. /\ outcome = Result("running", 0) /\ size \in Nat
        /\ Len(accepted) \in Nat /\ Len(accepted') \in Nat
    <3>1. outcome = Result("running", 0)
      BY <1>3 DEF CopyInv, LoopInv, WriteSome
    <3>2. accepted \in Seq(1 .. size) /\ accepted' \in Seq(1 .. size') /\ size \in Nat
      BY <2>1 DEF CopyInv, CopyTypeOK, ReaderTypeOK
    <3> QED  BY <3>1, <3>2, LenProperties
  <2>3. Copy!Accept
    BY <2>1, <2>2 DEF Copy!Accept, Copy!Fits, Copy!Running, Result
  <2> QED  BY <2>1, <2>3 DEF Copy!Next
<1>4. CASE WriteInterrupted
  <2>1. /\ UNCHANGED <<readerVars, pc, pending, copied, accepted, outcome>>
        /\ interrupts' \in 0 .. MaxInterrupts
    BY <1>4 DEF WriteInterrupted, CopyInv, CopyTypeOK
  <2>2. CopyInv'
    BY <2>1 DEF CopyInv, CopyTypeOK, ReaderTypeOK, ReadInv, NothingBeyondTheLimit,
         WriterGetsWhatWasRead, LoopInv, CompleteIsWhole, readerVars
  <2> QED  BY <2>1, <2>2 DEF Copy!vars, readerVars
<1>5. CASE WriteFails
  <2>1. /\ UNCHANGED <<readerVars, pending, copied, accepted, interrupts>>
        /\ pc = "write" /\ pc' = "done" /\ outcome' = Result("output", copied)
    BY <1>5 DEF WriteFails, Finish
  <2>2. outcome = Result("running", 0) /\ copied = Len(accepted) /\ copied \in 0 .. U64Max
    BY <2>1 DEF CopyInv, LoopInv, WriterGetsWhatWasRead, CopyTypeOK
  <2>3. CopyInv'
    BY <2>1, <2>2 DEF CopyInv, CopyTypeOK, ReaderTypeOK, ReadInv, NothingBeyondTheLimit,
         WriterGetsWhatWasRead, LoopInv, CompleteIsWhole, readerVars, Result
  <2>4. [Copy!Next]_(Copy!vars)
    BY <2>1, <2>2 DEF readerVars, Copy!Next, Copy!OutputFails, Copy!End, Copy!Running, Result
  <2> QED  BY <2>3, <2>4
<1>6. CASE UNCHANGED vars
  <2>1. CopyInv'
    BY <1>6 DEF vars, copyVars, CopyInv, CopyTypeOK, ReaderTypeOK, ReadInv, NothingBeyondTheLimit,
         WriterGetsWhatWasRead, LoopInv, CompleteIsWhole, readerVars
  <2> QED  BY <1>6, <2>1 DEF vars, copyVars, readerVars, Copy!vars
<1> QED  BY <1>1, <1>2, <1>3, <1>4, <1>5, <1>6 DEF Next

LEMMA CopyInvAlways == Spec => []CopyInv
<1>1. CopyInit => CopyInv
  BY CopyInvInit
<1>2. CopyInv /\ [Next]_vars => CopyInv'
  BY CopyStep
<1> QED  BY <1>1, <1>2, PTL DEF Spec

-----------------------------------------------------------------------------
(* The state of the copy and of its reader keeps its types: no count passes the
   width of its counter, whatever the width.                                    *)
THEOREM CopyTypeCorrect == Spec => []CopyTypeOK
<1>1. CopyInv => CopyTypeOK
  BY DEF CopyInv
<1> QED  BY <1>1, CopyInvAlways, PTL

(* The reader that copy_entry_to drives never exposes a byte beyond its budget. *)
THEOREM BudgetBoundsExposedBytes == Spec => []NothingBeyondTheLimit
<1>1. CopyInv => NothingBeyondTheLimit
  BY DEF CopyInv, ReadInv
<1> QED  BY <1>1, CopyInvAlways, PTL

(* write_all_counted loses, repeats and reorders nothing, and counts every byte. *)
THEOREM WriterGetsEveryByteOnce == Spec => []WriterGetsWhatWasRead
<1>1. CopyInv => WriterGetsWhatWasRead
  BY DEF CopyInv
<1> QED  BY <1>1, CopyInvAlways, PTL

(* copy_entry_to returns Ok only for the whole entry, within its budget. *)
THEOREM CompleteCopiesAreWhole == Spec => []CompleteIsWhole
<1>1. CopyInv => CompleteIsWhole
  BY DEF CopyInv
<1> QED  BY <1>1, CopyInvAlways, PTL

(* copy_entry_to implements EntryCopy, which ExtractionPlan is built on. *)
THEOREM CopyImplementsEntryCopy == Spec => ImplementsEntryCopy
<1>1. CopyInit => Copy!Init
  BY EmptySeq DEF CopyInit, Init, Copy!Init, Copy!Running, Result
<1>2. CopyInv /\ [Next]_vars => [Copy!Next]_(Copy!vars)
  BY CopyStep
<1> QED  BY <1>1, <1>2, CopyInvAlways, PTL DEF Spec, ImplementsEntryCopy, Copy!Spec

-----------------------------------------------------------------------------
(* The bounded reader alone, under a caller that reads with buffers of any length and
   goes on after every error.                                                         *)
AnyCaller == Init /\ [][\E n \in Nat : Read(n)]_readerVars

(* A refusal at the limit stays true; a decoder that failed has lost bytes, and only one
   out of step has made any.                                                              *)
CallerInv ==
  /\ ReaderTypeOK /\ ReadInv /\ EndIsNotTheLimit
  /\ ~lost => Len(exposed) <= pos
  /\ terminal = "limit" => Len(exposed) = limit /\ (lost \/ limit < size)

LEMMA CallerInvInit == Init => CallerInv
<1> SUFFICES ASSUME Init PROVE CallerInv
  OBVIOUS
<1>1. /\ size \in Sizes /\ limit \in Limits /\ pos = 0 /\ exposed = << >> /\ returned = 0
      /\ terminal = "none" /\ answer = "none" /\ faulted = FALSE /\ lost = FALSE
  BY DEF Init
<1>2. /\ exposed \in Seq(0 .. size) /\ Len(exposed) = 0
      /\ size \in Nat /\ U64Max \in Nat /\ (limit # Unlimited => limit \in Nat)
  BY <1>1, ReaderAssumption
<1>3. exposed = FirstBytes(pos)
  BY <1>1 DEF FirstBytes
<1>4. ReaderTypeOK
  <2>1. pos \in 0 .. size /\ returned \in 0 .. U64Max
    BY <1>1, <1>2
  <2> QED
    BY <1>1, <1>2, <2>1 DEF ReaderTypeOK
<1>5. ReadInv
  BY <1>1, <1>2, <1>3 DEF ReadInv, NothingBeyondTheLimit
<1>6. EndIsNotTheLimit
  BY <1>1 DEF EndIsNotTheLimit
<1> QED
  BY <1>1, <1>2, <1>4, <1>5, <1>6 DEF CallerInv

LEMMA ReadKeepsCallerInv ==
  ASSUME CallerInv, NEW n \in Nat, Read(n)
  PROVE  CallerInv'
<1> USE ReaderAssumption DEF ReaderTypeOK
<1>1. /\ size \in Nat /\ pos \in Nat /\ pos <= size /\ returned \in Nat /\ U64Max \in Nat
      /\ limit # Unlimited => limit \in 0 .. U64Max
      /\ exposed \in Seq(0 .. size) /\ returned = Len(exposed) /\ Len(exposed) \in Nat
      /\ lost \in BOOLEAN /\ (~lost => Len(exposed) <= pos) /\ (lost => faulted)
      /\ limit # Unlimited => Len(exposed) <= limit
  BY DEF CallerInv, ReadInv, NothingBeyondTheLimit
<1>2. CASE EmptyRead \/ RepeatError
  BY <1>2 DEF EmptyRead, RepeatError, CallerInv, ReadInv, NothingBeyondTheLimit, EndIsNotTheLimit
<1>3. CASE n > 0 /\ ReadBytes(n)
  <2>1. PICK k \in 1 .. Available(n) :
          /\ Advance(k)
          /\ IF Overflows(k)
             THEN /\ terminal' = "overflow" /\ answer' = "overflow"
                  /\ UNCHANGED <<returned, exposed>>
             ELSE /\ returned' = returned + k
                  /\ exposed' = exposed \o Given(k)
                  /\ answer' = "bytes"
                  /\ UNCHANGED terminal
    BY <1>3 DEF ReadBytes
  <2>2. /\ UNCHANGED <<size, lost, limit, faulted>> /\ terminal = "none"
        /\ limit # Unlimited => returned < limit
    BY <1>1, <1>3 DEF ReadBytes, AtLimit
  <2>3. /\ k \in Nat \ {0} /\ pos' \in Nat /\ pos' <= size
        /\ ~lost => pos' = pos + k /\ pos + k <= size
        /\ limit # Unlimited => returned + k <= limit
    BY <1>1, <1>3, <2>1, <2>2 DEF Available, Advance, Least, Requested
  <2>4. CASE Overflows(k)
    BY <1>1, <2>1, <2>2, <2>3, <2>4 DEF CallerInv, ReadInv, NothingBeyondTheLimit, EndIsNotTheLimit
  <2>5. CASE ~Overflows(k)
    <3> DEFINE run == Given(k)
    <3>1. exposed' = exposed \o run /\ run \in Seq(0 .. size) /\ Len(run) = k
      <4>1. exposed' = exposed \o run
        BY <2>1, <2>5
      <4>2. CASE lost
        <5>1. [i \in 1 .. k |-> 0] \in Seq(0 .. size) /\ Len([i \in 1 .. k |-> 0]) = k
          BY <1>1, <2>3
        <5> QED
          BY <4>1, <4>2, <5>1 DEF Given, Stray
      <4>3. CASE ~lost
        <5>1. [i \in 1 .. k |-> pos + i] \in Seq(0 .. size) /\ Len([i \in 1 .. k |-> pos + i]) = k
          BY <1>1, <2>3, <4>3
        <5> QED
          BY <4>1, <4>3, <5>1 DEF Given
      <4> QED
        BY <4>2, <4>3
    <3>2. ~lost => run = BytesAfter(pos, k)
      BY DEF Given, BytesAfter
    <3> HIDE DEF run
    <3>3. exposed' \in Seq(0 .. size) /\ Len(exposed') = Len(exposed) + k
      BY <1>1, <3>1, ConcatProperties
    <3>4. ~faulted => exposed' = FirstBytes(pos')
      <4> SUFFICES ASSUME ~faulted PROVE exposed' = FirstBytes(pos')
        OBVIOUS
      <4>1. ~lost /\ exposed = FirstBytes(pos) /\ pos' = pos + k
        BY <1>1, <2>2, <2>3 DEF CallerInv, ReadInv
      <4> QED
        BY <1>1, <2>3, <3>1, <3>2, <4>1, NextBytes
    <3> QED
      BY <1>1, <2>1, <2>2, <2>3, <2>5, <3>3, <3>4
         DEF Overflows, CallerInv, ReadInv, NothingBeyondTheLimit, EndIsNotTheLimit
  <2> QED
    BY <2>4, <2>5
<1>4. CASE RefuseByte
  BY <1>1, <1>4 DEF RefuseByte, Advance, AtLimit, Overflows, CallerInv, ReadInv, NothingBeyondTheLimit, EndIsNotTheLimit
<1>5. CASE ReadEnd
  BY <1>1, <1>5
     DEF ReadEnd, DecoderEnds, CallerInv, ReadInv, NothingBeyondTheLimit, EndIsNotTheLimit, FirstBytes
<1>6. CASE DecoderFails
  <2>1. /\ pos' \in pos .. size /\ faulted' = TRUE /\ answer' = "failed" /\ terminal = "none"
        /\ UNCHANGED <<size, limit, returned, terminal, exposed>>
    BY <1>6 DEF DecoderFails
  <2>2. lost' = lost \/ lost' = TRUE
    BY <1>6 DEF DecoderFails
  <2>3. lost' \in BOOLEAN /\ (lost => lost')
    BY <1>1, <2>2, Zenon
  <2> QED
    BY <1>1, <2>1, <2>3 DEF CallerInv, ReadInv, NothingBeyondTheLimit, EndIsNotTheLimit
<1> QED
  BY <1>2, <1>3, <1>4, <1>5, <1>6 DEF Read

(* Whatever the caller's buffers, an end is the end of the entry if the decoder has not
   failed, a refusal is for one byte too many, and a refusal is repeated.               *)
THEOREM LimitsAreNotEnds == AnyCaller => []EndIsNotTheLimit
<1>1. CallerInv /\ [\E n \in Nat : Read(n)]_readerVars => CallerInv'
  <2> SUFFICES ASSUME CallerInv, UNCHANGED readerVars PROVE CallerInv'
    BY ReadKeepsCallerInv
  <2> QED
    BY DEF readerVars, CallerInv, ReaderTypeOK, ReadInv, NothingBeyondTheLimit, EndIsNotTheLimit
<1>2. CallerInv => EndIsNotTheLimit
  BY DEF CallerInv
<1> QED
  BY <1>1, <1>2, CallerInvInit, PTL DEF AnyCaller
=============================================================================
