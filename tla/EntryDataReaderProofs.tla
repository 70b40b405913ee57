------------------------ MODULE EntryDataReaderProofs ------------------------
(***************************************************************************)
(* What an end means, for every entry, however the input is cut and the    *)
(* reads are sized: of an uncompressed entry that its bytes are all there, *)
(* of a zlib entry that its stream is whole and given in order, and of an  *)
(* LZ4 or Zstandard entry that its frame is whole and given in full.  And, *)
(* from the same invariants, that each is the decoder BoundedEntryReader   *)
(* assumes.                                                                *)
(***************************************************************************)
EXTENDS EntryDataReader, FiniteSetTheorems, SequenceTheorems, WellFoundedInduction, NaturalsInduction, TLAPS

(* The bytes given are positions of the decoded entry, in order, up to b. *)
Ascending(s, b) ==
  /\ s \in Seq(Nat)
  /\ \A k \in 1 .. Len(s) : s[k] <= b
  /\ \A k \in 2 .. Len(s) : s[k - 1] < s[k]

(* They are all of the first b. *)
Gapless(s, b) == Len(s) = b /\ \A k \in 1 .. Len(s) : s[k] = k

(* What a running read holds is made and not returned; only an error of the chunk
   reader drops it.                                                               *)
ZlibInv ==
  /\ entry \in ZlibEntries
  /\ made \in Nat /\ written \in Nat /\ written <= made /\ faults \in Nat
  /\ pc = "idle" => written = 0
  /\ Ascending(exposed, made - written)
  /\ faults = 0 => Gapless(exposed, made - written)
  /\ stream_end => pc = "idle" /\ entry.end = "whole" /\ made = Zlib!Size
  /\ answer = "end" => stream_end

-----------------------------------------------------------------------------
LEMMA ExposingKeepsOrder ==
  ASSUME NEW s, NEW b \in Nat, NEW n \in Nat, Ascending(s, b), NEW t,
         t = s \o [k \in 1 .. n |-> b + n - n + k]
  PROVE  /\ Ascending(t, b + n)
         /\ Gapless(s, b) => Gapless(t, b + n)
<1> DEFINE more == [k \in 1 .. n |-> b + n - n + k]
<1>1. more \in Seq(Nat) /\ Len(more) = n
  BY IsASeq
<1>2. s \in Seq(Nat) /\ Len(s) \in Nat
  BY DEF Ascending
<1>3. \A k \in 1 .. n : more[k] = b + k
  OBVIOUS
<1> HIDE DEF more
<1>4. /\ t \in Seq(Nat) /\ Len(t) = Len(s) + n
      /\ \A k \in 1 .. Len(s) : t[k] = s[k]
      /\ \A k \in Len(s) + 1 .. Len(s) + n : t[k] = b + (k - Len(s))
  <2>1. /\ t \in Seq(Nat) /\ Len(t) = Len(s) + Len(more)
        /\ \A k \in 1 .. Len(s) + Len(more) : t[k] = IF k <= Len(s) THEN s[k] ELSE more[k - Len(s)]
    BY <1>1, <1>2, ConcatProperties DEF more
  <2>2. \A k \in Len(s) + 1 .. Len(s) + n : k - Len(s) \in 1 .. n
    BY <1>2
  <2> QED
    BY <1>1, <1>2, <1>3, <2>1, <2>2
<1>5. \A k \in 1 .. Len(t) : t[k] <= b + n
  <2> SUFFICES ASSUME NEW k \in 1 .. Len(t) PROVE t[k] <= b + n
    OBVIOUS
  <2>1. CASE k <= Len(s)
    BY <1>2, <1>4, <2>1 DEF Ascending
  <2>2. CASE k > Len(s)
    BY <1>2, <1>4, <2>2
  <2> QED
    BY <1>2, <2>1, <2>2
<1>6. \A k \in 2 .. Len(t) : t[k - 1] < t[k]
  <2> SUFFICES ASSUME NEW k \in 2 .. Len(t) PROVE t[k - 1] < t[k]
    OBVIOUS
  <2>1. CASE k <= Len(s)
    BY <1>2, <1>4, <2>1 DEF Ascending
  <2>2. CASE k = Len(s) + 1
    <3>1. t[k - 1] <= b /\ t[k] = b + 1 /\ t[k - 1] \in Nat
      BY <1>2, <1>4, <2>2 DEF Ascending
    <3> QED
      BY <3>1
  <2>3. CASE k > Len(s) + 1
    BY <1>2, <1>4, <2>3
  <2>4. k <= Len(s) \/ k = Len(s) + 1 \/ k > Len(s) + 1
    BY <1>2
  <2> QED
    BY <2>1, <2>2, <2>3, <2>4
<1>7. Gapless(s, b) => Gapless(t, b + n)
  BY <1>2, <1>4 DEF Gapless
<1> QED
  BY <1>4, <1>5, <1>6, <1>7 DEF Ascending

(* A read that returns what it holds drops nothing. *)
LEMMA ZlibReturns ==
  ASSUME ZlibInv, backend = "gzip", NEW n \in Nat, made' = made - written + n,
         Zlib!ReturnBytes(n), UNCHANGED <<entry, faults>>,
         stream_end' => entry.end = "whole" /\ made' = Zlib!Size
  PROVE  ZlibInv'
<1> DEFINE b == made - written
<1>1. b \in Nat /\ made' = b + n
  <2>1. made \in Nat /\ written \in Nat /\ written <= made
    BY DEF ZlibInv
  <2> QED
    BY <2>1
<1>2. /\ pc' = "idle" /\ written' = 0 /\ answer' = "bytes"
      /\ exposed' = exposed \o [k \in 1 .. n |-> b + n - n + k]
  BY <1>1 DEF Zlib!ReturnBytes, Zlib!Return
<1>3. Ascending(exposed', b + n) /\ (Gapless(exposed, b) => Gapless(exposed', b + n))
  <2>1. Ascending(exposed, b)
    BY DEF ZlibInv
  <2> HIDE DEF b
  <2> QED
    BY <1>1, <1>2, <2>1, ExposingKeepsOrder
<1>4. made' - written' = b + n
  BY <1>1, <1>2
<1>5. Zlib!Size' = Zlib!Size
  BY DEF Zlib!Size, Zlib!Decodable
<1>6. entry \in ZlibEntries /\ faults \in Nat /\ (faults = 0 => Gapless(exposed, b))
  BY DEF ZlibInv
<1>7. /\ made' \in Nat /\ written' \in Nat /\ written' <= made'
      /\ Ascending(exposed', made' - written')
      /\ faults' = 0 => Gapless(exposed', made' - written')
  <2>1. faults' = 0 => Gapless(exposed, b)
    BY <1>6
  <2> HIDE DEF b
  <2> QED
    BY <1>1, <1>2, <1>3, <1>4, <2>1
<1>8. stream_end' => entry'.end = "whole" /\ made' = Zlib!Size'
  BY <1>5
<1> QED
  BY <1>2, <1>6, <1>7, <1>8 DEF ZlibInv

(* A read that returns without a byte. *)
LEMMA ZlibReturnsNothing ==
  ASSUME ZlibInv, NEW what, Zlib!Return(what), UNCHANGED <<entry, made, exposed, stream_end>>,
         faults' \in Nat, (faults' = faults /\ written = 0) \/ faults' # 0,
         what = "end" => stream_end
  PROVE  ZlibInv'
<1>1. pc' = "idle" /\ written' = 0 /\ answer' = what
  BY DEF Zlib!Return
<1>2. Ascending(exposed', made' - written')
  BY <1>1 DEF ZlibInv, Ascending
<1>3. faults' = 0 => Gapless(exposed', made' - written')
  BY <1>1 DEF ZlibInv, Gapless
<1>4. Zlib!Size' = Zlib!Size
  BY DEF Zlib!Size, Zlib!Decodable
<1> QED
  BY <1>1, <1>2, <1>3, <1>4 DEF ZlibInv

LEMMA ZlibInitInv == Zlib!Init => ZlibInv
<1> SUFFICES ASSUME Zlib!Init PROVE ZlibInv
  OBVIOUS
<1>1. /\ entry \in ZlibEntries /\ made = 0 /\ written = 0 /\ faults = 0 /\ pc = "idle"
      /\ exposed = << >> /\ ~stream_end /\ answer = "none"
  BY DEF Zlib!Init
<1>2. Ascending(<< >>, 0) /\ Gapless(<< >>, 0)
  BY DEF Ascending, Gapless
<1> QED
  BY <1>1, <1>2 DEF ZlibInv

(* What the codec does before a read returns. *)
LEMMA CodecOnlyAdds ==
  ASSUME ZlibInv, Zlib!CodecRuns
  PROVE  /\ made' \in Nat /\ Zlib!Produced \in Nat /\ made' = made + Zlib!Produced
         /\ written + Zlib!Produced \in Nat
         /\ made' = made - written + (written + Zlib!Produced)
<1>1. PICK k \in Zlib!Takes : \E p \in Zlib!Gives(k) : made' = made + p
  BY DEF Zlib!CodecRuns
<1>2. PICK p \in Zlib!Gives(k) : made' = made + p
  BY <1>1
<1>3. p \in Nat
  BY DEF Zlib!Gives
<1>4. made \in Nat /\ written \in Nat
  BY DEF ZlibInv
<1> QED
  BY <1>2, <1>3, <1>4 DEF Zlib!Produced

LEMMA ZlibStreamEnds == ZlibInv /\ backend = "gzip" /\ Zlib!StreamEnds => ZlibInv'
<1> SUFFICES ASSUME ZlibInv, backend = "gzip", Zlib!StreamEnds PROVE ZlibInv'
  OBVIOUS
<1> DEFINE n == written + Zlib!Produced
<1>1. /\ n \in Nat /\ Zlib!Produced \in Nat /\ made' = made - written + n
      /\ written \in Nat /\ made \in Nat
  BY CodecOnlyAdds DEF Zlib!StreamEnds, ZlibInv
<1>2. /\ stream_end' /\ entry.end = "whole" /\ made' = Zlib!Size /\ UNCHANGED <<entry, faults>>
      /\ IF n = 0 THEN Zlib!Return("end") /\ UNCHANGED exposed ELSE Zlib!ReturnBytes(n)
  BY DEF Zlib!StreamEnds, Zlib!Complete, Zlib!inputVars
<1>3. CASE n # 0
  <2> HIDE DEF n
  <2> QED
    BY <1>1, <1>2, <1>3, ZlibReturns
<1>4. CASE n = 0
  <2>1. written = 0 /\ made' = made
    BY <1>1, <1>4
  <2>2. Zlib!Size' = Zlib!Size
    BY <1>2 DEF Zlib!Size, Zlib!Decodable
  <2>3. pc' = "idle" /\ written' = 0 /\ UNCHANGED exposed
    BY <1>2, <1>4 DEF Zlib!Return
  <2> QED
    BY <1>2, <2>1, <2>2, <2>3 DEF ZlibInv
<1> QED
  BY <1>3, <1>4

LEMMA ZlibOutputFull == ZlibInv /\ backend = "gzip" /\ Zlib!OutputFull => ZlibInv'
<1> SUFFICES ASSUME ZlibInv, backend = "gzip", Zlib!OutputFull PROVE ZlibInv'
  OBVIOUS
<1>1. /\ room \in Nat /\ made' = made - written + room
  BY CodecOnlyAdds DEF Zlib!OutputFull
<1>2. /\ Zlib!ReturnBytes(room) /\ UNCHANGED <<entry, faults, stream_end>> /\ pc = "decode"
  BY DEF Zlib!OutputFull, Zlib!inputVars
<1>3. ~stream_end
  BY <1>2 DEF ZlibInv
<1> QED
  BY <1>1, <1>2, <1>3, ZlibReturns

LEMMA ZlibContinue == ZlibInv /\ Zlib!Continue => ZlibInv'
<1> SUFFICES ASSUME ZlibInv, Zlib!Continue PROVE ZlibInv'
  OBVIOUS
<1>1. /\ made \in Nat /\ written \in Nat /\ written <= made
      /\ Zlib!Produced \in Nat /\ made' = made + Zlib!Produced
  BY CodecOnlyAdds DEF Zlib!Continue, ZlibInv
<1>2. /\ written' = written + Zlib!Produced /\ pc = "decode" /\ pc' = "fill"
      /\ UNCHANGED <<entry, faults, stream_end, exposed, answer>>
  BY DEF Zlib!Continue, Zlib!inputVars
<1>3. made' \in Nat /\ written' \in Nat /\ written' <= made' /\ made' - written' = made - written
  BY <1>1, <1>2
<1> QED
  BY <1>2, <1>3 DEF ZlibInv

LEMMA ZlibFailOrDefer ==
  ASSUME ZlibInv, backend = "gzip", pc = "decode", Zlib!FailOrDefer,
         UNCHANGED <<entry, faults, made, stream_end>>
  PROVE  ZlibInv'
<1>1. ~stream_end /\ made \in Nat /\ written \in Nat /\ faults \in Nat
  BY DEF ZlibInv
<1>2. CASE written = 0
  BY <1>1, <1>2, ZlibReturnsNothing DEF Zlib!FailOrDefer
<1>3. CASE written # 0
  BY <1>1, <1>3, ZlibReturns DEF Zlib!FailOrDefer
<1> QED
  BY <1>2, <1>3

LEMMA ZlibKeeps ==
  ASSUME ZlibInv, backend = "gzip", Zlib!Next
  PROVE  ZlibInv'
<1>0. faults \in Nat /\ (stream_end => pc = "idle") /\ (pc = "idle" => written = 0)
  BY DEF ZlibInv
<1>1. CASE Zlib!ReadNothing
  <2>1. PICK what \in {"empty", "end"} : Zlib!Return(what) /\ (what = "end" => stream_end)
    BY <1>1 DEF Zlib!ReadNothing
  <2>2. pc = "idle" /\ UNCHANGED <<entry, made, exposed, stream_end, faults>>
    BY <1>1 DEF Zlib!ReadNothing, Zlib!inputVars, Zlib!codecVars
  <2> QED
    BY <1>0, <2>1, <2>2, ZlibReturnsNothing
<1>2. CASE Zlib!ReadDeferred
  BY <1>0, <1>2, ZlibReturnsNothing DEF Zlib!ReadDeferred, Zlib!inputVars, Zlib!codecVars
<1>3. CASE Zlib!SourceFails
  BY <1>0, <1>3, ZlibReturnsNothing DEF Zlib!SourceFails, Zlib!inputVars, Zlib!codecVars
<1>4. CASE Zlib!Read \/ Zlib!Fill
  <2>1. /\ UNCHANGED <<entry, made, written, exposed, faults, stream_end, answer>>
        /\ ~stream_end /\ pc' # "idle"
    BY <1>0, <1>4 DEF Zlib!Read, Zlib!Fill, Zlib!inputVars, Zlib!codecVars
  <2> QED
    BY <2>1 DEF ZlibInv
<1>5. CASE Zlib!StreamIsCut
  BY <1>5, ZlibFailOrDefer DEF Zlib!StreamIsCut, Zlib!inputVars, Zlib!codecVars
<1>6. CASE Zlib!CodecFails
  BY <1>6, ZlibFailOrDefer DEF Zlib!CodecFails, Zlib!inputVars
<1> QED
  BY <1>1, <1>2, <1>3, <1>4, <1>5, <1>6, ZlibStreamEnds, ZlibOutputFull, ZlibContinue
     DEF Zlib!Next, Zlib!Progress

(* The invariant is what the runs check of an end. *)
LEMMA ZlibEnds == ZlibInv => Zlib!EndIsTheStreams
<1> SUFFICES ASSUME ZlibInv PROVE Zlib!EndIsTheStreams
  OBVIOUS
<1>1. exposed \in Seq(Nat) /\ (answer = "end" => pc = "idle" /\ written = 0 /\ made \in Nat)
  BY DEF ZlibInv, Ascending
<1>2. faults = 0 => exposed = [k \in 1 .. Len(exposed) |-> k]
  BY <1>1 DEF ZlibInv, Gapless
<1>3. answer = "end" => entry.end = "whole" /\ (faults = 0 => Len(exposed) = Zlib!Size)
  BY <1>1 DEF ZlibInv, Gapless
<1>4. \A k \in 2 .. Len(exposed) : exposed[k - 1] < exposed[k]
  BY DEF ZlibInv, Ascending
<1> QED
  BY <1>2, <1>3, <1>4 DEF Zlib!EndIsTheStreams

-----------------------------------------------------------------------------
Byte == Chunks!Byte

Results == [bytes : Seq(Byte), end : {"cut", "malformed", "whole"}]

Header(s, p) == SubSeq(s, p + 1, p + 1 + IntBytes)

(* What begins after p bytes, if g says what the chunks behind it hold. *)
Turn(s, g, p) ==
  IF p + 1 + IntBytes > Len(s) THEN [bytes |-> << >>, end |-> "cut"]
  ELSE LET n    == Chunks!IntegerOf(Header(s, p))
           next == p + 1 + IntBytes
       IN  IF n < 0 \/ ~Chunks!InRange(n) THEN [bytes |-> << >>, end |-> "malformed"]
           ELSE IF n = 0 THEN [bytes |-> << >>, end |-> "whole"]
           ELSE IF next + n > Len(s)
                THEN [bytes |-> SubSeq(s, next + 1, Len(s)), end |-> "cut"]
                ELSE [g[next + n] EXCEPT !.bytes = SubSeq(s, next + 1, next + n) \o @]

LEMMA Induction ==
  ASSUME NEW S, 0 \in S, \A n \in Nat : n \in S => n + 1 \in S
  PROVE  Nat \subseteq S
<1> DEFINE Less == {p \in Nat \X Nat : p[1] < p[2]}
<1> DEFINE T == Nat \ S
<1>1. IsWellFoundedOn(Less, Nat)
  BY NatLessThanWellFounded DEF OpToRel
<1> SUFFICES ASSUME T # {} PROVE FALSE
  OBVIOUS
<1>2. PICK k \in T : \A j \in T : <<j, k>> \notin Less
  BY <1>1, WFMin
<1>3. k # 0 /\ k - 1 \in Nat /\ k - 1 \notin T
  <2>1. k # 0 /\ k \in Nat /\ k - 1 \in Nat
    OBVIOUS
  <2>2. <<k - 1, k>> \in Less
    BY <2>1
  <2> QED
    BY <1>2, <2>1, <2>2
<1>4. k - 1 + 1 \in S
  BY <1>3
<1> QED
  BY <1>4

LEMMA ConstantTypes ==
  /\ IntBytes \in Nat \ {0} /\ MaxInt \in Nat /\ Streams \subseteq Seq(Byte) /\ Requests \subseteq Nat
BY BackendAssumption DEF Chunks!ChunkConstants, Byte

(* A chunk's length is a positive number of bytes: what follows begins behind it. *)
LEMMA TurnLooksAhead ==
  ASSUME NEW s \in Seq(Byte), NEW p \in 0 .. Len(s), NEW g, NEW h,
         \A q \in p + 1 .. Len(s) : g[q] = h[q]
  PROVE  Turn(s, g, p) = Turn(s, h, p)
<1> DEFINE n == Chunks!IntegerOf(Header(s, p))
<1> DEFINE next == p + 1 + IntBytes
<1>1. CASE next > Len(s) \/ n < 0 \/ ~Chunks!InRange(n) \/ n = 0 \/ next + n > Len(s)
  BY <1>1 DEF Turn
<1>2. CASE ~(next > Len(s) \/ n < 0 \/ ~Chunks!InRange(n) \/ n = 0 \/ next + n > Len(s))
  <2>1. n \in Int
    BY <1>2, ConstantTypes DEF Chunks!InRange
  <2> HIDE DEF n
  <2>2. next + n \in p + 1 .. Len(s)
    BY <1>2, <2>1, ConstantTypes
  <2>3. g[next + n] = h[next + n]
    BY <2>2
  <2> QED
    BY <2>3 DEF Turn, n
<1> QED
  BY <1>1, <1>2

LEMMA ChunksUnfold ==
  ASSUME NEW s \in Seq(Byte)
  PROVE  Chunks!ChunksOf(s) = [p \in 0 .. Len(s) |-> Turn(s, Chunks!ChunksOf(s), p)]
<1> DEFINE L == Len(s)
<1> DEFINE From(k) == L + 1 - k .. L
<1> DEFINE S == {k \in Nat : k <= L + 1 => \E g : g = [p \in From(k) |-> Turn(s, g, p)]}
<1>1. L \in Nat
  OBVIOUS
<1>2. 0 \in S
  <2>1. From(0) = {}
    BY <1>1
  <2> DEFINE g == [p \in From(0) |-> 0]
  <2>2. g = [p \in From(0) |-> Turn(s, g, p)]
    BY <2>1
  <2> QED
    BY <2>2
<1>3. ASSUME NEW k \in Nat, k \in S PROVE k + 1 \in S
  <2> SUFFICES ASSUME k + 1 <= L + 1 PROVE \E g : g = [p \in From(k + 1) |-> Turn(s, g, p)]
    OBVIOUS
  <2>1. PICK g : g = [p \in From(k) |-> Turn(s, g, p)]
    BY <1>1, <1>3
  <2> DEFINE h == [p \in From(k + 1) |-> IF p = L - k THEN Turn(s, g, p) ELSE g[p]]
  <2>2. \A p \in From(k + 1) : p \in 0 .. L /\ (p = L - k \/ p \in From(k))
    BY <1>1
  <2>3. \A q \in L - k + 1 .. L : h[q] = g[q] /\ q \in From(k)
    BY <1>1
  <2>4. ASSUME NEW p \in From(k + 1) PROVE h[p] = Turn(s, h, p)
    <3>1. p \in 0 .. L /\ p >= L - k
      BY <1>1, <2>2
    <3>2. \A q \in p + 1 .. L : g[q] = h[q]
      BY <1>1, <2>3, <3>1
    <3> HIDE DEF h
    <3>3. Turn(s, g, p) = Turn(s, h, p)
      BY <3>1, <3>2, TurnLooksAhead
    <3>4. h[p] = Turn(s, g, p)
      BY <2>1, <2>2 DEF h
    <3> QED
      BY <3>3, <3>4
  <2>5. h = [p \in From(k + 1) |-> Turn(s, h, p)]
    <3>1. h = [p \in From(k + 1) |-> h[p]]
      OBVIOUS
    <3> HIDE DEF h
    <3> QED
      BY <2>4, <3>1
  <2> QED
    BY <2>5
<1>4. L + 1 \in S
  <2> HIDE DEF S
  <2>1. Nat \subseteq S
    BY <1>2, <1>3, Induction
  <2> QED
    BY <1>1, <2>1
<1>5. \E g : g = [p \in 0 .. L |-> Turn(s, g, p)]
  <2>1. From(L + 1) = 0 .. L
    BY <1>1
  <2> QED
    BY <1>1, <1>4, <2>1
<1>6. Chunks!ChunksOf(s) = CHOOSE g : g = [p \in 0 .. Len(s) |-> Turn(s, g, p)]
  BY DEF Chunks!ChunksOf, Turn, Header
<1> QED
  BY <1>5, <1>6

LEMMA TurnTyped ==
  ASSUME NEW s \in Seq(Byte), NEW p \in 0 .. Len(s), NEW g,
         \A q \in p + 1 .. Len(s) : g[q] \in Results
  PROVE  Turn(s, g, p) \in Results
<1> DEFINE n == Chunks!IntegerOf(Header(s, p))
<1> DEFINE next == p + 1 + IntBytes
<1>1. << >> \in Seq(Byte)
  OBVIOUS
<1>2. CASE next > Len(s) \/ n < 0 \/ ~Chunks!InRange(n) \/ n = 0
  BY <1>1, <1>2 DEF Turn, Results
<1>3. CASE ~(next > Len(s) \/ n < 0 \/ ~Chunks!InRange(n) \/ n = 0)
  <2>1. n \in Int
    BY <1>3, ConstantTypes DEF Chunks!InRange
  <2> HIDE DEF n
  <2>2. next \in 0 .. Len(s) /\ n \in Nat \ {0} /\ next > p
    BY <1>3, <2>1, ConstantTypes
  <2>3. CASE next + n > Len(s)
    <3>1. \A k \in next + 1 .. Len(s) : s[k] \in Byte
      BY <2>2
    <3>2. SubSeq(s, next + 1, Len(s)) \in Seq(Byte)
      BY <2>2, <3>1, SubSeqProperties
    <3>3. Turn(s, g, p) = [bytes |-> SubSeq(s, next + 1, Len(s)), end |-> "cut"]
      BY <1>3, <2>3 DEF Turn, n
    <3> QED
      BY <3>2, <3>3 DEF Results
  <2>4. CASE next + n <= Len(s)
    <3>1. \A k \in next + 1 .. next + n : s[k] \in Byte
      BY <2>2, <2>4
    <3>2. SubSeq(s, next + 1, next + n) \in Seq(Byte)
      BY <2>2, <3>1, SubSeqProperties
    <3>3. g[next + n] \in Results
      BY <2>2, <2>4
    <3>4. SubSeq(s, next + 1, next + n) \o g[next + n].bytes \in Seq(Byte)
      BY <3>2, <3>3, ConcatProperties DEF Results
    <3>5. Turn(s, g, p) = [g[next + n] EXCEPT !.bytes = SubSeq(s, next + 1, next + n) \o @]
      BY <1>3, <2>2, <2>4 DEF Turn, n
    <3> QED
      BY <3>3, <3>4, <3>5 DEF Results
  <2> QED
    BY <2>2, <2>3, <2>4
<1> QED
  BY <1>2, <1>3

LEMMA ChunksTyped ==
  ASSUME NEW s \in Seq(Byte), NEW p \in 0 .. Len(s)
  PROVE  /\ Chunks!ChunksOf(s)[p] \in Results
         /\ Chunks!ChunksOf(s)[p] = Turn(s, Chunks!ChunksOf(s), p)
<1> DEFINE C == Chunks!ChunksOf(s)
<1> DEFINE S == {k \in Nat : \A q \in 0 .. Len(s) : q > Len(s) - k => C[q] \in Results}
<1>1. \A q \in 0 .. Len(s) : C[q] = Turn(s, C, q)
  BY ChunksUnfold
<1> HIDE DEF C
<1>2. 0 \in S
  OBVIOUS
<1>3. ASSUME NEW k \in Nat, k \in S PROVE k + 1 \in S
  <2> SUFFICES ASSUME NEW q \in 0 .. Len(s), q > Len(s) - (k + 1) PROVE C[q] \in Results
    OBVIOUS
  <2>1. \A r \in q + 1 .. Len(s) : C[r] \in Results
    BY <1>3
  <2>2. Turn(s, C, q) \in Results
    BY <2>1, TurnTyped
  <2> QED
    BY <1>1, <2>2
<1>4. Len(s) + 1 \in S
  <2> HIDE DEF S
  <2> QED
    BY <1>2, <1>3, Induction
<1>5. C[p] \in Results
  BY <1>4
<1> QED
  BY <1>1, <1>5 DEF C

-----------------------------------------------------------------------------
(* What follows after o bytes, n bytes before the end of a chunk. *)
InChunk(s, o, n) ==
  IF o + n > Len(s) THEN [bytes |-> SubSeq(s, o + 1, Len(s)), end |-> "cut"]
  ELSE [Chunks!ChunksOf(s)[o + n] EXCEPT !.bytes = SubSeq(s, o + 1, o + n) \o @]

(* What the source holds of the entry that no read has returned yet. *)
Rest == IF remaining > 0 THEN InChunk(stream, offset, remaining)
                         ELSE Chunks!ChunksOf(stream)[offset - Len(length)]

NoBytes(end) == [bytes |-> << >>, end |-> end]

ChunkTypes ==
  /\ stream \in Streams /\ offset \in 0 .. Len(stream) /\ remaining \in Nat /\ request \in Nat
  /\ exposed \in Seq(Byte) /\ length \in Seq(Byte) /\ Len(length) <= IntBytes + 1
  /\ pc \in {"idle", "length", "data"}
  /\ pc = "length" => remaining = 0
  /\ pc = "data" => remaining > 0
  /\ remaining > 0 => length = << >>
  /\ pc # "idle" => ~done

(* What has been returned and what is to come are the entry ... *)
Content ==
  /\ Len(length) <= offset /\ length = SubSeq(stream, offset - Len(length) + 1, offset)
  /\ Chunks!Entry(stream).bytes = exposed \o Rest.bytes
  /\ Chunks!Entry(stream).end = Rest.end
  /\ done => Rest = NoBytes("whole")

(* ... and an answer that ends or refuses it leaves nothing to come. *)
Answers ==
  pc = "idle" =>
    /\ answer = "end" => done
    /\ answer \in {"TruncatedDataChunkLength", "TruncatedDataChunk"} => Rest = NoBytes("cut")
    /\ answer \in {"InvalidDataChunkLength", "ArchiveIntegerOutOfRange"} => Rest = NoBytes("malformed")

(* As long as no read began inside a chunk length. *)
ChunkInv == ChunkTypes /\ (aligned => Content /\ Answers)

LEMMA OtherBytes ==
  ASSUME NEW r \in Results, NEW x
  PROVE  [r EXCEPT !.bytes = x] = [bytes |-> x, end |-> r.end]
<1>1. r = [bytes |-> r.bytes, end |-> r.end]
  BY DEF Results
<1>2. DOMAIN [r EXCEPT !.bytes = x] = {"bytes", "end"}
  BY <1>1
<1> QED
  BY <1>1

LEMMA InChunkIs ==
  ASSUME NEW s \in Seq(Byte), NEW o \in 0 .. Len(s), NEW n \in Nat, NEW m, o + n = m, m <= Len(s)
  PROVE  /\ Chunks!ChunksOf(s)[m] \in Results
         /\ InChunk(s, o, n) = [bytes |-> SubSeq(s, o + 1, m) \o Chunks!ChunksOf(s)[m].bytes,
                                end |-> Chunks!ChunksOf(s)[m].end]
<1> DEFINE rest == Chunks!ChunksOf(s)[m]
<1>1. m \in 0 .. Len(s) /\ ~(o + n > Len(s))
  OBVIOUS
<1>2. rest \in Results
  BY <1>1, ChunksTyped
<1>3. InChunk(s, o, n) = [rest EXCEPT !.bytes = SubSeq(s, o + 1, m) \o @]
  BY <1>1 DEF InChunk
<1> HIDE DEF rest
<1>4. [rest EXCEPT !.bytes = SubSeq(s, o + 1, m) \o @]
        = [bytes |-> SubSeq(s, o + 1, m) \o rest.bytes, end |-> rest.end]
  BY <1>2, OtherBytes
<1> QED
  BY <1>2, <1>3, <1>4 DEF rest

LEMMA InChunkTyped ==
  ASSUME NEW s \in Seq(Byte), NEW o \in 0 .. Len(s), NEW n \in Nat
  PROVE  InChunk(s, o, n) \in Results
<1>1. CASE o + n > Len(s)
  <2>1. \A k \in o + 1 .. Len(s) : s[k] \in Byte
    OBVIOUS
  <2>2. SubSeq(s, o + 1, Len(s)) \in Seq(Byte)
    BY <2>1, SubSeqProperties
  <2> QED
    BY <1>1, <2>2 DEF InChunk, Results
<1>2. CASE o + n <= Len(s)
  <2> DEFINE rest == Chunks!ChunksOf(s)[o + n]
  <2>1. /\ rest \in Results
        /\ InChunk(s, o, n) = [bytes |-> SubSeq(s, o + 1, o + n) \o rest.bytes, end |-> rest.end]
    BY <1>2, InChunkIs
  <2>2. \A k \in o + 1 .. o + n : s[k] \in Byte
    BY <1>2
  <2>3. SubSeq(s, o + 1, o + n) \in Seq(Byte)
    BY <2>2, SubSeqProperties
  <2> HIDE DEF rest
  <2>4. SubSeq(s, o + 1, o + n) \o rest.bytes \in Seq(Byte)
    BY <2>1, <2>3, ConcatProperties DEF Results
  <2> QED
    BY <2>1, <2>4 DEF Results
<1> QED
  BY <1>1, <1>2

(* Reading on inside a chunk. *)
LEMMA InChunkGoesOn ==
  ASSUME NEW s \in Seq(Byte), NEW o \in 0 .. Len(s), NEW n \in Nat, NEW k \in 1 .. n, o + k <= Len(s)
  PROVE  /\ SubSeq(s, o + 1, o + k) \in Seq(Byte)
         /\ InChunk(s, o, n).bytes = SubSeq(s, o + 1, o + k) \o InChunk(s, o + k, n - k).bytes
         /\ InChunk(s, o, n).end = InChunk(s, o + k, n - k).end
<1>1. o + k + (n - k) = o + n /\ o + k \in 0 .. Len(s)
  OBVIOUS
<1>2. \A a, b \in 0 .. Len(s) : SubSeq(s, a + 1, b) \in Seq(Byte)
  <2> SUFFICES ASSUME NEW a \in 0 .. Len(s), NEW b \in 0 .. Len(s) PROVE SubSeq(s, a + 1, b) \in Seq(Byte)
    OBVIOUS
  <2>1. \A j \in a + 1 .. b : s[j] \in Byte
    OBVIOUS
  <2> QED
    BY <2>1, SubSeqProperties
<1>3. CASE o + n > Len(s)
  <2>1. SubSeq(s, o + 1, o + k) \o SubSeq(s, o + k + 1, Len(s)) = SubSeq(s, o + 1, Len(s))
    BY ConcatAdjacentSubSeq
  <2> QED
    BY <1>1, <1>2, <1>3, <2>1 DEF InChunk
<1>4. CASE o + n <= Len(s)
  <2> DEFINE rest == Chunks!ChunksOf(s)[o + n]
  <2>1. /\ rest \in Results
        /\ InChunk(s, o, n) = [bytes |-> SubSeq(s, o + 1, o + n) \o rest.bytes, end |-> rest.end]
    BY <1>4, InChunkIs
  <2>2. InChunk(s, o + k, n - k) = [bytes |-> SubSeq(s, o + k + 1, o + n) \o rest.bytes, end |-> rest.end]
    <3>1. o + k \in 0 .. Len(s) /\ n - k \in Nat /\ o + k + (n - k) = o + n
      OBVIOUS
    <3> QED
      BY <1>4, <3>1, InChunkIs
  <2>3. SubSeq(s, o + 1, o + k) \o SubSeq(s, o + k + 1, o + n) = SubSeq(s, o + 1, o + n)
    <3>1. o + 1 \in 1 .. Len(s) + 1 /\ o + k \in o + 1 - 1 .. Len(s) /\ o + n \in o + k .. Len(s)
      BY <1>4
    <3> QED
      BY <3>1, ConcatAdjacentSubSeq
  <2>4. SubSeq(s, o + 1, o + k) \in Seq(Byte) /\ SubSeq(s, o + k + 1, o + n) \in Seq(Byte)
    <3>1. o \in 0 .. Len(s) /\ o + k \in 0 .. Len(s) /\ o + n \in 0 .. Len(s)
      BY <1>4
    <3> QED
      BY <1>2, <3>1
  <2> DEFINE returned == SubSeq(s, o + 1, o + k)
  <2> DEFINE left == SubSeq(s, o + k + 1, o + n)
  <2> DEFINE later == rest.bytes
  <2> DEFINE whole == SubSeq(s, o + 1, o + n)
  <2>5. returned \o left = whole /\ returned \in Seq(Byte) /\ left \in Seq(Byte)
    BY <2>3, <2>4
  <2>6. later \in Seq(Byte)
    <3>1. rest \in Results
      BY <2>1
    <3> HIDE DEF rest
    <3> QED
      BY <3>1 DEF Results
  <2>7. InChunk(s, o, n) = [bytes |-> whole \o later, end |-> rest.end]
    BY <2>1
  <2>8. InChunk(s, o + k, n - k) = [bytes |-> left \o later, end |-> rest.end]
    BY <2>2
  <2> HIDE DEF rest, returned, left, later, whole
  <2>9. (returned \o left) \o later = returned \o (left \o later)
    <3>1. returned \in Seq(Byte) /\ left \in Seq(Byte)
      BY <2>5
    <3> QED
      BY <2>6, <3>1, ConcatAssociative
  <2>10. /\ InChunk(s, o, n).bytes = whole \o later /\ InChunk(s, o, n).end = rest.end
         /\ InChunk(s, o + k, n - k).bytes = left \o later /\ InChunk(s, o + k, n - k).end = rest.end
    BY <2>7, <2>8
  <2>11. /\ InChunk(s, o, n).bytes = returned \o InChunk(s, o + k, n - k).bytes
         /\ InChunk(s, o, n).end = InChunk(s, o + k, n - k).end
    BY <2>5, <2>9, <2>10
  <2> QED
    BY <2>5, <2>11 DEF returned
<1> QED
  BY <1>3, <1>4

(* At its end the chunk gives way to the next length. *)
LEMMA ChunkIsOver ==
  ASSUME NEW s \in Seq(Byte), NEW o \in 0 .. Len(s)
  PROVE  InChunk(s, o, 0) = Chunks!ChunksOf(s)[o]
<1> DEFINE rest == Chunks!ChunksOf(s)[o]
<1>1. rest \in Results /\ InChunk(s, o, 0) = [bytes |-> SubSeq(s, o + 1, o) \o rest.bytes, end |-> rest.end]
  BY InChunkIs
<1>2. SubSeq(s, o + 1, o) = << >>
  BY SubSeqEmpty
<1> HIDE DEF rest
<1>3. << >> \o rest.bytes = rest.bytes
  BY <1>1, ConcatEmptySeq DEF Results
<1>4. rest = [bytes |-> rest.bytes, end |-> rest.end]
  BY <1>1 DEF Results
<1> QED
  BY <1>1, <1>2, <1>3, <1>4 DEF rest

-----------------------------------------------------------------------------
LEMMA RestTyped ==
  ASSUME ChunkTypes, Len(length) <= offset
  PROVE  stream \in Seq(Byte) /\ Rest \in Results
<1>1. /\ stream \in Seq(Byte) /\ offset \in 0 .. Len(stream) /\ remaining \in Nat
      /\ Len(length) \in Nat
  BY ConstantTypes DEF ChunkTypes
<1>2. CASE remaining > 0
  BY <1>1, <1>2, InChunkTyped DEF Rest
<1>3. CASE ~(remaining > 0)
  <2>1. offset - Len(length) \in 0 .. Len(stream)
    BY <1>1
  <2> QED
    BY <1>1, <1>3, <2>1, ChunksTyped DEF Rest
<1> QED
  BY <1>1, <1>2, <1>3

LEMMA ChunkInitInv == Chunks!Init => ChunkInv
<1> SUFFICES ASSUME Chunks!Init PROVE ChunkInv
  OBVIOUS
<1>1. /\ stream \in Seq(Byte) /\ stream \in Streams /\ offset = 0 /\ remaining = 0 /\ ~done
      /\ pc = "idle" /\ length = << >> /\ request = 0 /\ exposed = << >> /\ answer = "none"
  BY ConstantTypes DEF Chunks!Init
<1>2. ChunkTypes
  BY <1>1, ConstantTypes DEF ChunkTypes
<1>3. Len(length) <= offset /\ length = SubSeq(stream, offset - Len(length) + 1, offset)
  BY <1>1, SubSeqEmpty
<1>4. Rest = Chunks!Entry(stream)
  <2>1. Rest = Chunks!ChunksOf(stream)[offset - Len(length)] /\ offset - Len(length) = 0
    <3>1. Len(length) = 0
      BY <1>1
    <3>2. Rest = Chunks!ChunksOf(stream)[offset - Len(length)]
      BY <1>1 DEF Rest
    <3>3. offset = 0
      BY <1>1
    <3>4. offset - Len(length) = 0
      BY <3>1, <3>3
    <3> QED
      BY <3>2, <3>4
  <2> QED
    BY <2>1 DEF Chunks!Entry
<1>5. Rest \in Results
  BY <1>2, <1>3, RestTyped
<1>6. << >> \o Rest.bytes = Rest.bytes
  BY <1>5, ConcatEmptySeq DEF Results
<1>7. Content
  BY <1>1, <1>3, <1>4, <1>6 DEF Content
<1>8. Answers
  BY <1>1 DEF Answers
<1> QED
  BY <1>2, <1>7, <1>8 DEF ChunkInv

LEMMA StreamDecides ==
  ASSUME UNCHANGED stream
  PROVE  Chunks!ChunksOf(stream)' = Chunks!ChunksOf(stream) /\ Chunks!Entry(stream)' = Chunks!Entry(stream)
OBVIOUS

LEMMA ContentStays ==
  ASSUME UNCHANGED <<stream, offset, remaining, length>>
  PROVE  /\ Rest' = Rest
         /\ Content /\ UNCHANGED <<exposed, done>> => Content'
<1>1. Rest' = Rest
  BY StreamDecides DEF Rest, InChunk
<1> QED
  BY <1>1, StreamDecides DEF Content, NoBytes

(* A read that returns and has taken nothing. *)
LEMMA ChunkReturns ==
  ASSUME ChunkInv, NEW what, Chunks!Return(what), request' \in Nat,
         UNCHANGED <<stream, offset, remaining, done, length, exposed, aligned>>,
         what = "end" => done,
         what \in {"TruncatedDataChunkLength", "TruncatedDataChunk"} /\ aligned => Rest = NoBytes("cut"),
         what \in {"InvalidDataChunkLength", "ArchiveIntegerOutOfRange"} /\ aligned => Rest = NoBytes("malformed")
  PROVE  ChunkInv'
<1>1. pc' = "idle" /\ answer' = what
  BY DEF Chunks!Return
<1>2. ChunkTypes'
  BY <1>1 DEF ChunkInv, ChunkTypes
<1>3. Rest' = Rest /\ (Content => Content')
  BY ContentStays
<1>4. aligned' => Answers'
  BY <1>1, <1>3 DEF Answers, NoBytes
<1> QED
  BY <1>2, <1>3, <1>4 DEF ChunkInv

LEMMA ChunkReadNothing == ChunkInv /\ Chunks!ReadNothing => ChunkInv'
<1> SUFFICES ASSUME ChunkInv, Chunks!ReadNothing PROVE ChunkInv'
  OBVIOUS
<1>1. PICK what \in {"end", "empty"} : Chunks!Return(what) /\ (what = "end" => done)
  BY DEF Chunks!ReadNothing
<1>2. request' \in Nat /\ UNCHANGED <<stream, offset, remaining, done, length, exposed, aligned>>
  BY ConstantTypes DEF Chunks!ReadNothing
<1> QED
  BY <1>1, <1>2, ChunkReturns

LEMMA ChunkSourceFails == ChunkInv /\ Chunks!SourceFails => ChunkInv'
<1> SUFFICES ASSUME ChunkInv, Chunks!SourceFails PROVE ChunkInv'
  OBVIOUS
<1>1. request' \in Nat /\ Chunks!Return("Io")
  BY DEF ChunkInv, ChunkTypes, Chunks!SourceFails
<1> QED
  BY <1>1, ChunkReturns DEF Chunks!SourceFails

LEMMA ChunkRead == ChunkInv /\ Chunks!Read => ChunkInv'
<1> SUFFICES ASSUME ChunkInv, Chunks!Read PROVE ChunkInv'
  OBVIOUS
<1>1. /\ UNCHANGED <<stream, offset, remaining, done, exposed>> /\ length' = << >> /\ request' \in Nat
      /\ pc' = IF remaining = 0 THEN "length" ELSE "data"
      /\ ~done /\ (aligned' <=> aligned /\ length = << >>)
  BY ConstantTypes DEF Chunks!Read
<1>2. ChunkTypes'
  <2>1. << >> \in Seq(Byte) /\ Len(<< >>) = 0 /\ IntBytes \in Nat
    BY ConstantTypes
  <2> QED
    BY <1>1, <2>1 DEF ChunkInv, ChunkTypes
<1>3. aligned' => Content'
  <2> SUFFICES ASSUME aligned' PROVE Content'
    OBVIOUS
  <2>1. aligned /\ length = << >>
    BY <1>1
  <2>2. Content /\ UNCHANGED length
    BY <1>1, <2>1 DEF ChunkInv
  <2> QED
    BY <1>1, <2>2, ContentStays
<1>4. Answers'
  BY <1>1 DEF Answers
<1> QED
  BY <1>2, <1>3, <1>4 DEF ChunkInv

LEMMA OneMoreByte ==
  ASSUME NEW s \in Seq(Byte), NEW a \in Nat, NEW b \in 0 .. Len(s) - 1, a <= b
  PROVE  SubSeq(s, a + 1, b + 1) = Append(SubSeq(s, a + 1, b), s[b + 1])
<1> DEFINE m == a + 1
<1> DEFINE n == b + 1
<1>1. m \in 1 .. Len(s) /\ n \in m .. Len(s) /\ n - 1 = b
  OBVIOUS
<1>2. SubSeq(s, m, b) \in Seq(Byte) /\ s[n] \in Byte
  <2>1. s[n] \in Byte
    BY <1>1
  <2>2. \A k \in m .. b : s[k] \in Byte
    BY <1>1
  <2> QED
    BY <2>1, <2>2, SubSeqProperties
<1> HIDE DEF m, n
<1>3. SubSeq(s, m, n) = SubSeq(s, m, n - 1) \o <<s[n]>>
  BY <1>1, SubSeqRecursiveSecond
<1>4. Append(SubSeq(s, m, b), s[n]) = SubSeq(s, m, b) \o <<s[n]>>
  BY <1>2, AppendIsConcat
<1>5. SubSeq(s, m, n) = Append(SubSeq(s, m, b), s[n])
  BY <1>1, <1>3, <1>4
<1> QED
  BY <1>5 DEF m, n

LEMMA ChunkReadLengthByte == ChunkInv /\ Chunks!ReadLengthByte => ChunkInv'
<1> SUFFICES ASSUME ChunkInv, Chunks!ReadLengthByte PROVE ChunkInv'
  OBVIOUS
<1> DEFINE p == offset - Len(length)
<1>1. /\ UNCHANGED <<stream, remaining, done, pc, request, exposed, aligned>>
      /\ pc = "length" /\ length' = Append(length, stream[offset + 1]) /\ offset' = offset + 1
      /\ Len(length) <= IntBytes /\ offset # Len(stream)
  BY DEF Chunks!ReadLengthByte, Chunks!AtEof
<1>2. /\ stream \in Seq(Byte) /\ offset \in 0 .. Len(stream) /\ offset + 1 \in 1 .. Len(stream)
      /\ length \in Seq(Byte) /\ Len(length) \in Nat /\ remaining = 0
  BY <1>1, ConstantTypes DEF ChunkInv, ChunkTypes
<1>3. length' \in Seq(Byte) /\ Len(length') = Len(length) + 1 /\ offset' - Len(length') = p
  <2>1. stream[offset + 1] \in Byte
    BY <1>2
  <2>2. length' \in Seq(Byte) /\ Len(length') = Len(length) + 1
    BY <1>1, <1>2, <2>1, AppendProperties
  <2> QED
    BY <1>1, <1>2, <2>2
<1>4. ChunkTypes'
  <2>1. Len(length') <= IntBytes + 1 /\ offset' \in 0 .. Len(stream')
    BY <1>1, <1>2, <1>3, ConstantTypes
  <2> QED
    BY <1>1, <1>2, <1>3, <2>1 DEF ChunkInv, ChunkTypes
<1>5. Rest' = Rest
  BY <1>1, <1>2, <1>3, StreamDecides DEF Rest
<1>6. ASSUME Content PROVE Content'
  <2>1. Len(length) <= offset /\ length = SubSeq(stream, p + 1, offset)
    BY <1>6 DEF Content
  <2>2. length' = SubSeq(stream, p + 1, offset + 1)
    <3>1. p \in Nat /\ p <= offset
      BY <1>2, <2>1
    <3> HIDE DEF p
    <3> QED
      BY <1>1, <1>2, <2>1, <3>1, OneMoreByte
  <2>3. Len(length') <= offset' /\ length' = SubSeq(stream', offset' - Len(length') + 1, offset')
    BY <1>1, <1>2, <1>3, <2>1, <2>2
  <2> HIDE DEF p
  <2> QED
    BY <1>1, <1>5, <1>6, <2>3, StreamDecides DEF Content, NoBytes
<1>7. Answers'
  BY <1>1 DEF Answers
<1> QED
  BY <1>1, <1>4, <1>6, <1>7 DEF ChunkInv

(* Where a chunk length begins, what is to come is what that length says. *)
LEMMA RestIsTurn ==
  ASSUME ChunkInv, aligned, remaining = 0
  PROVE  LET p == offset - Len(length)
         IN  /\ p \in 0 .. Len(stream) /\ p + Len(length) = offset /\ length = SubSeq(stream, p + 1, offset)
             /\ Rest = Turn(stream, Chunks!ChunksOf(stream), p)
<1> DEFINE p == offset - Len(length)
<1>1. /\ stream \in Seq(Byte) /\ offset \in 0 .. Len(stream) /\ Len(length) \in Nat
      /\ Len(length) <= offset /\ length = SubSeq(stream, p + 1, offset)
  BY ConstantTypes DEF ChunkInv, ChunkTypes, Content
<1>2. p \in 0 .. Len(stream) /\ p + Len(length) = offset
  BY <1>1
<1>3. Rest = Chunks!ChunksOf(stream)[p]
  BY DEF Rest
<1> HIDE DEF p
<1>4. Rest = Turn(stream, Chunks!ChunksOf(stream), p)
  BY <1>1, <1>2, <1>3, ChunksTyped
<1> QED
  BY <1>1, <1>2, <1>4 DEF p

LEMMA ChunkLengthIsCut == ChunkInv /\ Chunks!LengthIsCut => ChunkInv'
<1> SUFFICES ASSUME ChunkInv, Chunks!LengthIsCut PROVE ChunkInv'
  OBVIOUS
<1>1. /\ UNCHANGED <<stream, offset, remaining, done, length, request, exposed, aligned>>
      /\ pc = "length" /\ Len(length) <= IntBytes /\ offset = Len(stream)
      /\ Chunks!Return("TruncatedDataChunkLength")
  BY DEF Chunks!LengthIsCut, Chunks!AtEof
<1>2. request' \in Nat /\ remaining = 0 /\ stream \in Seq(Byte) /\ length \in Seq(Byte)
  BY <1>1, ConstantTypes DEF ChunkInv, ChunkTypes
<1>3. ASSUME aligned PROVE Rest = NoBytes("cut")
  <2> DEFINE p == offset - Len(length)
  <2>1. /\ p \in 0 .. Len(stream) /\ p + Len(length) = offset
        /\ Rest = Turn(stream, Chunks!ChunksOf(stream), p)
    BY <1>2, <1>3, RestIsTurn
  <2> HIDE DEF p
  <2>2. p + 1 + IntBytes > Len(stream)
    BY <1>1, <1>2, <2>1, ConstantTypes
  <2> QED
    BY <2>1, <2>2 DEF Turn, NoBytes
<1> QED
  BY <1>1, <1>2, <1>3, ChunkReturns

LEMMA ChunkDataIsCut == ChunkInv /\ Chunks!DataIsCut => ChunkInv'
<1> SUFFICES ASSUME ChunkInv, Chunks!DataIsCut PROVE ChunkInv'
  OBVIOUS
<1>1. /\ UNCHANGED <<stream, offset, remaining, done, length, request, exposed, aligned>>
      /\ pc = "data" /\ offset = Len(stream)
      /\ Chunks!Return("TruncatedDataChunk")
  BY DEF Chunks!DataIsCut, Chunks!AtEof
<1>2. request' \in Nat /\ remaining \in Nat /\ remaining > 0 /\ stream \in Seq(Byte) /\ Len(stream) \in Nat
  BY <1>1, ConstantTypes DEF ChunkInv, ChunkTypes
<1>3. Rest = NoBytes("cut")
  <2>1. Rest = InChunk(stream, offset, remaining) /\ offset + remaining > Len(stream)
    BY <1>1, <1>2 DEF Rest
  <2>2. SubSeq(stream, offset + 1, Len(stream)) = << >>
    BY <1>1, <1>2, SubSeqEmpty
  <2> QED
    BY <2>1, <2>2 DEF InChunk, NoBytes
<1> QED
  BY <1>1, <1>2, <1>3, ChunkReturns

LEMMA NoByteBetween ==
  ASSUME NEW s, NEW b \in Nat
  PROVE  SubSeq(s, b + 1, b) = << >>
BY SubSeqEmpty

LEMMA ChunkReadData == ChunkInv /\ Chunks!ReadData => ChunkInv'
<1> SUFFICES ASSUME ChunkInv, Chunks!ReadData PROVE ChunkInv'
  OBVIOUS
<1>1. PICK k \in 1 .. Chunks!Wanted :
        /\ offset + k <= Len(stream)
        /\ offset' = offset + k
        /\ exposed' = exposed \o SubSeq(stream, offset + 1, offset + k)
        /\ remaining' = IF k <= remaining THEN remaining - k ELSE 0
  BY DEF Chunks!ReadData
<1>2. /\ UNCHANGED <<stream, done, length, request, aligned>>
      /\ pc = "data" /\ pc' = "idle" /\ answer' = "bytes"
  BY DEF Chunks!ReadData, Chunks!Return
<1>3. /\ stream \in Seq(Byte) /\ offset \in 0 .. Len(stream) /\ remaining \in Nat /\ remaining > 0
      /\ request \in Nat /\ length = << >> /\ exposed \in Seq(Byte)
  BY <1>2, ConstantTypes DEF ChunkInv, ChunkTypes
<1>4. k \in 1 .. remaining /\ remaining' = remaining - k /\ offset' \in 0 .. Len(stream)
  BY <1>1, <1>3 DEF Chunks!Wanted
<1> DEFINE given == SubSeq(stream, offset + 1, offset + k)
<1> DEFINE rest == InChunk(stream, offset + k, remaining - k)
<1>5. /\ given \in Seq(Byte)
      /\ Rest.bytes = given \o rest.bytes /\ Rest.end = rest.end
  <2>1. Rest = InChunk(stream, offset, remaining)
    BY <1>3 DEF Rest
  <2> QED
    BY <1>1, <1>3, <1>4, <2>1, InChunkGoesOn
<1>6. rest \in Results
  BY <1>1, <1>3, <1>4, InChunkTyped
<1>7. ChunkTypes'
  <2>1. exposed' \in Seq(Byte)
    BY <1>1, <1>3, <1>5, ConcatProperties
  <2> QED
    BY <1>1, <1>2, <1>3, <1>4, <2>1 DEF ChunkInv, ChunkTypes
<1>8. Rest' = rest
  <2>1. Chunks!ChunksOf(stream)' = Chunks!ChunksOf(stream)
    BY <1>2, StreamDecides
  <2>2. CASE remaining - k > 0
    <3>1. Rest' = InChunk(stream, offset', remaining')
      BY <1>2, <1>4, <2>1, <2>2 DEF Rest, InChunk
    <3> QED
      BY <1>1, <1>4, <3>1
  <2>3. CASE remaining - k = 0
    <3>1. rest = Chunks!ChunksOf(stream)[offset + k]
      BY <1>1, <1>3, <1>4, <2>3, ChunkIsOver
    <3>2. Rest' = Chunks!ChunksOf(stream)[offset' - Len(length')]
      BY <1>4, <2>1, <2>3 DEF Rest
    <3>3. offset' - Len(length') = offset + k
      <4>1. Len(length') = 0
        BY <1>2, <1>3
      <4> QED
        BY <1>1, <1>3, <4>1
    <3> QED
      BY <3>1, <3>2, <3>3
  <2> QED
    BY <1>3, <1>4, <2>2, <2>3
<1>9. ASSUME Content, ~done PROVE Content'
  <2> DEFINE later == rest.bytes
  <2>1. later \in Seq(Byte)
    <3> HIDE DEF rest
    <3> QED
      BY <1>6 DEF Results
  <2>2. exposed' = exposed \o given
    BY <1>1
  <2>3. Rest.bytes = given \o later /\ Rest'.bytes = later
    BY <1>5, <1>8
  <2> HIDE DEF rest, given, later
  <2>4. (exposed \o given) \o later = exposed \o (given \o later)
    BY <1>3, <1>5, <2>1, ConcatAssociative
  <2>5. Chunks!Entry(stream).bytes = exposed' \o Rest'.bytes
    <3>1. Chunks!Entry(stream).bytes = exposed \o (given \o later)
      BY <1>9, <2>3 DEF Content
    <3> QED
      BY <2>2, <2>3, <2>4, <3>1
  <2>6. Chunks!Entry(stream).end = Rest'.end
    BY <1>5, <1>8, <1>9 DEF Content
  <2>7. Chunks!Entry(stream)' = Chunks!Entry(stream)
    BY <1>2, StreamDecides
  <2>8. Len(length') <= offset' /\ length' = SubSeq(stream', offset' - Len(length') + 1, offset')
    <3>1. length' = << >> /\ Len(length') = 0 /\ offset' \in Nat
      BY <1>2, <1>3, <1>4
    <3>2. offset' - Len(length') + 1 = offset' + 1 /\ Len(length') <= offset'
      BY <3>1
    <3>3. SubSeq(stream', offset' + 1, offset') = << >>
      BY <3>1, NoByteBetween
    <3> QED
      BY <3>1, <3>2, <3>3
  <2> QED
    BY <1>2, <1>9, <2>5, <2>6, <2>7, <2>8 DEF Content
<1>10. Answers'
  BY <1>2 DEF Answers
<1>11. ~done
  BY <1>2 DEF ChunkInv, ChunkTypes
<1> QED
  BY <1>2, <1>7, <1>9, <1>10, <1>11 DEF ChunkInv

LEMMA ChunkBeginChunk == ChunkInv /\ Chunks!BeginChunk => ChunkInv'
<1> SUFFICES ASSUME ChunkInv, Chunks!BeginChunk PROVE ChunkInv'
  OBVIOUS
<1> DEFINE n == Chunks!IntegerOf(length)
<1> DEFINE p == offset - Len(length)
<1>1. /\ UNCHANGED <<stream, offset, request, exposed, aligned>>
      /\ pc = "length" /\ Len(length) = IntBytes + 1
      /\ \/ /\ ~Chunks!InRange(n)
            /\ Chunks!Return("ArchiveIntegerOutOfRange")
            /\ UNCHANGED <<remaining, done, length>>
         \/ /\ Chunks!InRange(n) /\ n < 0
            /\ Chunks!Return("InvalidDataChunkLength")
            /\ UNCHANGED <<remaining, done, length>>
         \/ /\ n = 0
            /\ done' = TRUE
            /\ Chunks!Return("end")
            /\ UNCHANGED <<remaining, length>>
         \/ /\ Chunks!InRange(n) /\ n > 0
            /\ remaining' = n
            /\ pc' = "data"
            /\ length' = << >>
            /\ UNCHANGED <<done, answer>>
  BY DEF Chunks!BeginChunk
<1>2. /\ stream \in Seq(Byte) /\ offset \in 0 .. Len(stream) /\ remaining = 0 /\ request' \in Nat
      /\ length \in Seq(Byte) /\ ~done
  BY <1>1, ConstantTypes DEF ChunkInv, ChunkTypes
<1>3. ASSUME aligned
      PROVE  /\ p \in 0 .. Len(stream) /\ p + 1 + IntBytes = offset /\ length = Header(stream, p)
             /\ Rest = Turn(stream, Chunks!ChunksOf(stream), p)
  <2>1. /\ p \in 0 .. Len(stream) /\ p + Len(length) = offset /\ length = SubSeq(stream, p + 1, offset)
        /\ Rest = Turn(stream, Chunks!ChunksOf(stream), p)
    BY <1>2, <1>3, RestIsTurn
  <2> HIDE DEF p
  <2>2. p + 1 + IntBytes = offset
    BY <1>1, <2>1, ConstantTypes
  <2> QED
    BY <2>1, <2>2 DEF Header
<1>4. ASSUME aligned, n < 0 \/ ~Chunks!InRange(n) PROVE Rest = NoBytes("malformed")
  <2> HIDE DEF p
  <2> QED
    BY <1>2, <1>3, <1>4 DEF Turn, NoBytes
<1>5. ASSUME aligned, n = 0 PROVE Rest = NoBytes("whole")
  <2>1. Chunks!InRange(n)
    BY <1>5, ConstantTypes DEF Chunks!InRange
  <2> HIDE DEF p
  <2> QED
    BY <1>2, <1>3, <1>5, <2>1 DEF Turn, NoBytes
<1>6. ASSUME aligned, Chunks!InRange(n), n > 0 PROVE Rest = InChunk(stream, offset, n)
  <2>1. n \in Int
    BY <1>6, ConstantTypes DEF Chunks!InRange
  <2> DEFINE C == Chunks!ChunksOf(stream)
  <2>2. /\ p + 1 + IntBytes = offset /\ Chunks!IntegerOf(Header(stream, p)) = n
        /\ Rest = Turn(stream, C, p) /\ InChunk(stream, offset, n)
              = IF offset + n > Len(stream) THEN [bytes |-> SubSeq(stream, offset + 1, Len(stream)), end |-> "cut"]
                ELSE [C[offset + n] EXCEPT !.bytes = SubSeq(stream, offset + 1, offset + n) \o @]
    BY <1>3, <1>6 DEF InChunk
  <2> HIDE DEF p, n, C
  <2>3. ~(offset > Len(stream)) /\ ~(n < 0) /\ n # 0
    BY <1>2, <1>6, <2>1
  <2> QED
    BY <1>6, <2>2, <2>3 DEF Turn
<1> HIDE DEF n, p
<1>7. CASE ~Chunks!InRange(n) /\ Chunks!Return("ArchiveIntegerOutOfRange") /\ UNCHANGED <<remaining, done, length>>
  BY <1>1, <1>2, <1>4, <1>7, ChunkReturns
<1>8. CASE n < 0 /\ Chunks!Return("InvalidDataChunkLength") /\ UNCHANGED <<remaining, done, length>>
  BY <1>1, <1>2, <1>4, <1>8, ChunkReturns
<1>9. CASE n = 0 /\ done' = TRUE /\ Chunks!Return("end") /\ UNCHANGED <<remaining, length>>
  <2>1. pc' = "idle" /\ answer' = "end"
    BY <1>9 DEF Chunks!Return
  <2>2. ChunkTypes'
    BY <1>1, <1>2, <1>9, <2>1 DEF ChunkInv, ChunkTypes
  <2>3. Rest' = Rest
    BY <1>1, <1>9, ContentStays
  <2>4. Answers'
    BY <1>9, <2>1 DEF Answers
  <2>5. ASSUME aligned PROVE Content'
    <3>1. Content /\ Rest' = NoBytes("whole")
      BY <1>5, <1>9, <2>3, <2>5 DEF ChunkInv
    <3> QED
      BY <1>1, <1>9, <2>3, <3>1, StreamDecides DEF Content, NoBytes
  <2> QED
    BY <1>1, <2>2, <2>4, <2>5 DEF ChunkInv
<1>10. CASE /\ Chunks!InRange(n) /\ n > 0 /\ remaining' = n /\ pc' = "data"
            /\ length' = << >> /\ UNCHANGED <<done, answer>>
  <2>1. n \in Nat /\ << >> \in Seq(Byte) /\ Len(<< >>) = 0
    BY <1>10, ConstantTypes DEF Chunks!InRange
  <2>2. ChunkTypes'
    BY <1>1, <1>2, <1>10, <2>1, ConstantTypes DEF ChunkInv, ChunkTypes
  <2>3. Answers'
    BY <1>10 DEF Answers
  <2>4. ASSUME aligned PROVE Content'
    <3>1. Rest' = InChunk(stream, offset, n)
      BY <1>1, <1>10, StreamDecides DEF Rest, InChunk
    <3>2. Rest' = Rest /\ Content
      BY <1>6, <1>10, <2>4, <3>1 DEF ChunkInv
    <3>3. SubSeq(stream, offset + 1, offset) = << >>
      BY <1>2, NoByteBetween
    <3>4. Len(length') <= offset' /\ length' = SubSeq(stream', offset' - Len(length') + 1, offset')
      <4>1. Len(length') = 0 /\ offset' = offset /\ offset \in Nat
        BY <1>1, <1>2, <1>10
      <4>2. offset' - Len(length') + 1 = offset + 1 /\ Len(length') <= offset'
        BY <4>1
      <4> QED
        BY <1>1, <1>10, <3>3, <4>1, <4>2
    <3> QED
      BY <1>1, <1>2, <1>10, <3>2, <3>4, StreamDecides DEF Content, NoBytes
  <2> QED
    BY <1>1, <2>2, <2>3, <2>4 DEF ChunkInv
<1> QED
  BY <1>1, <1>7, <1>8, <1>9, <1>10

LEMMA ChunkKeeps == ChunkInv /\ Chunks!Next => ChunkInv'
BY ChunkReadNothing, ChunkRead, ChunkReadLengthByte, ChunkLengthIsCut, ChunkBeginChunk,
   ChunkReadData, ChunkDataIsCut, ChunkSourceFails
   DEF Chunks!Next, Chunks!Progress

LEMMA PrefixOfConcat ==
  ASSUME NEW a \in Seq(Byte), NEW b \in Seq(Byte)
  PROVE  Chunks!IsPrefix(a, a \o b) /\ a \o << >> = a
BY DEF Chunks!IsPrefix

(* The invariant is what the runs check of an end. *)
LEMMA ChunkEnds == ChunkInv => Chunks!EndMeansWhole
<1> SUFFICES ASSUME ChunkInv, aligned PROVE Chunks!EndMeansWhole
  BY DEF Chunks!EndMeansWhole
<1> DEFINE entire == Chunks!Entry(stream)
<1> DEFINE later == Rest.bytes
<1>1. Content /\ Answers /\ ChunkTypes /\ exposed \in Seq(Byte)
  BY DEF ChunkInv, ChunkTypes
<1>2. Rest \in Results
  BY <1>1, RestTyped DEF Content
<1>3. entire \in Results
  <2>1. stream \in Seq(Byte)
    BY <1>1, RestTyped DEF Content
  <2>2. 0 \in 0 .. Len(stream)
    BY <2>1
  <2> QED
    BY <2>1, <2>2, ChunksTyped DEF Chunks!Entry
<1>4. later \in Seq(Byte) /\ entire.bytes = exposed \o later /\ entire.end = Rest.end
  BY <1>1, <1>2 DEF Content, Results
<1>5. entire = [bytes |-> entire.bytes, end |-> entire.end]
  BY <1>3 DEF Results
<1> HIDE DEF entire, later
<1>6. Chunks!IsPrefix(exposed, entire.bytes)
  BY <1>1, <1>4, PrefixOfConcat
<1>7. ASSUME NEW what, Rest = NoBytes(what) PROVE entire = [bytes |-> exposed, end |-> what]
  <2>1. later = << >> /\ Rest.end = what
    BY <1>7 DEF NoBytes, later
  <2>2. exposed \o << >> = exposed
    BY <1>1, <1>4, PrefixOfConcat
  <2> QED
    BY <1>4, <1>5, <2>1, <2>2
<1>8. pc = "idle" =>
        /\ answer = "end" => Rest = NoBytes("whole")
        /\ answer \in {"TruncatedDataChunkLength", "TruncatedDataChunk"} => Rest = NoBytes("cut")
        /\ answer \in {"InvalidDataChunkLength", "ArchiveIntegerOutOfRange"} => Rest = NoBytes("malformed")
  BY <1>1 DEF Answers, Content
<1> QED
  BY <1>6, <1>7, <1>8 DEF Chunks!EndMeansWhole, entire

-----------------------------------------------------------------------------
(* LZ4's frame tracker: one turn of its loop, as the recursion of Observed makes it. *)
Byte8 == 0 .. 255
Take(t, s) == IF t.need < Len(s) THEN t.need ELSE Len(s)
Collected(t, s) == [t EXCEPT !.need = @ - Take(t, s), !.held = @ \o SubSeq(s, 1, Take(t, s))]
After(t, s) == IF Collected(t, s).need = 0 THEN Frame!NextPhase(Collected(t, s)) ELSE Collected(t, s)
Left(t, s) == SubSeq(s, Take(t, s) + 1, Len(s))
Watches == Frame!Trackers \X Seq(Byte8)
Watched(f, x) ==
  IF x[2] = << >> \/ x[1].phase = "finished" THEN x[1] ELSE f[<<After(x[1], x[2]), Left(x[1], x[2])>>]

(* Turns that may still follow. *)
Turns(t, s) == IF t.phase = "finished" THEN 0 ELSE 2 * Len(s) + (IF t.need = 0 THEN 1 ELSE 0)

Phases == {"header", "block_header", "payload", "block_checksum", "content_checksum", "finished"}
AnyTracker == [phase : Phases, need : Nat, held : Seq(Byte8), block_checksum : BOOLEAN, content_checksum : BOOLEAN]

LEMMA TrackersAre ==
  ASSUME NEW t
  PROVE  t \in Frame!Trackers <=>
           /\ t \in AnyTracker
           /\ t.phase = "header" => t.need > 0 /\ Len(t.held) + t.need >= 6
           /\ t.phase = "block_header" => t.need > 0 /\ Len(t.held) + t.need = 4
BY DEF Frame!Trackers, AnyTracker, Phases, Byte8

LEMMA Collecting ==
  ASSUME NEW held \in Seq(Byte8), NEW s \in Seq(Byte8), NEW n \in 0 .. Len(s)
  PROVE  /\ held \o SubSeq(s, 1, n) \in Seq(Byte8)
         /\ Len(held \o SubSeq(s, 1, n)) = Len(held) + n
         /\ SubSeq(s, n + 1, Len(s)) \in Seq(Byte8)
         /\ Len(SubSeq(s, n + 1, Len(s))) = Len(s) - n
<1>1. SubSeq(s, 1, n) \in Seq(Byte8) /\ Len(SubSeq(s, 1, n)) = n
  BY SubSeqProperties
<1>2. SubSeq(s, n + 1, Len(s)) \in Seq(Byte8) /\ Len(SubSeq(s, n + 1, Len(s))) = Len(s) - n
  BY SubSeqProperties
<1> QED
  BY <1>1, <1>2, ConcatProperties

LEMMA CollectedIs ==
  ASSUME NEW t \in AnyTracker, NEW s \in Seq(Byte8)
  PROVE  /\ Take(t, s) \in 0 .. Len(s) /\ Take(t, s) <= t.need
         /\ Collected(t, s) \in AnyTracker
         /\ Collected(t, s).phase = t.phase
         /\ Collected(t, s).need = t.need - Take(t, s)
         /\ Collected(t, s).held = t.held \o SubSeq(s, 1, Take(t, s))
         /\ Len(Collected(t, s).held) = Len(t.held) + Take(t, s)
         /\ Collected(t, s).block_checksum = t.block_checksum
         /\ Collected(t, s).content_checksum = t.content_checksum
         /\ Left(t, s) \in Seq(Byte8) /\ Len(Left(t, s)) = Len(s) - Take(t, s)
<1> DEFINE n == Take(t, s)
<1> DEFINE held == t.held
<1> DEFINE more == held \o SubSeq(s, 1, n)
<1>1. /\ t.need \in Nat /\ held \in Seq(Byte8) /\ t.phase \in Phases
      /\ t.block_checksum \in BOOLEAN /\ t.content_checksum \in BOOLEAN
  BY DEF AnyTracker
<1>2. n \in 0 .. Len(s) /\ n <= t.need /\ t.need - n \in Nat
  BY <1>1 DEF Take
<1>3. Collected(t, s) = [t EXCEPT !.need = t.need - n, !.held = more]
  BY DEF Collected
<1>4. Left(t, s) = SubSeq(s, n + 1, Len(s))
  BY DEF Left
<1> HIDE DEF held, n
<1>5. more \in Seq(Byte8) /\ Len(more) = Len(held) + n
  BY <1>1, <1>2, Collecting
<1>6. Left(t, s) \in Seq(Byte8) /\ Len(Left(t, s)) = Len(s) - n
  BY <1>1, <1>2, <1>4, Collecting
<1> HIDE DEF more
<1>7. /\ Collected(t, s) \in AnyTracker
      /\ Collected(t, s).phase = t.phase
      /\ Collected(t, s).need = t.need - n
      /\ Collected(t, s).held = more
      /\ Collected(t, s).block_checksum = t.block_checksum
      /\ Collected(t, s).content_checksum = t.content_checksum
  BY <1>1, <1>2, <1>3, <1>5 DEF AnyTracker
<1> QED
  BY <1>2, <1>5, <1>6, <1>7 DEF n, held, more

LEMMA BlockLengthTyped ==
  ASSUME NEW w \in Seq(Byte8), Len(w) = 4
  PROVE  Frame!BlockLength(w) \in Nat
<1>1. w[1] \in Nat /\ w[2] \in Nat /\ w[3] \in Nat /\ w[4] \in 0 .. 255
  <2>1. \A i \in 1 .. 4 : w[i] \in Byte8
    BY ElementOfSeq
  <2>2. w[1] \in Byte8 /\ w[2] \in Byte8 /\ w[3] \in Byte8 /\ w[4] \in Byte8
    BY <2>1
  <2>3. \A b \in Byte8 : b \in Nat /\ b \in 0 .. 255
    BY DEF Byte8
  <2> QED
    BY <2>2, <2>3
<1> DEFINE a == w[1]
<1> DEFINE b == w[2]
<1> DEFINE c == w[3]
<1> DEFINE d == w[4]
<1>2. Frame!BlockLength(w) = a + 256 * b + 65536 * c + 16777216 * (d % 128)
  BY DEF Frame!BlockLength
<1>3. a \in Nat /\ b \in Nat /\ c \in Nat /\ d \in 0 .. 255
  BY <1>1
<1> HIDE DEF a, b, c, d
<1>4. d % 128 \in Nat
  BY <1>3
<1> DEFINE e == d % 128
<1> HIDE DEF e
<1> QED
  BY <1>2, <1>3, <1>4 DEF e

LEMMA OptionalTyped ==
  ASSUME NEW flg
  PROVE  Frame!Optional(flg) \in Nat \ {0}
BY DEF Frame!Optional

(* The phase after one that is complete; only an empty block has nothing to come. *)
LEMMA NextTyped ==
  ASSUME NEW t \in AnyTracker, t.need = 0, t.phase # "finished",
         t.phase = "header" => Len(t.held) >= 6,
         t.phase = "block_header" => Len(t.held) = 4
  PROVE  /\ Frame!NextPhase(t) \in Frame!Trackers
         /\ Frame!NextPhase(t).phase # "payload" /\ Frame!NextPhase(t).phase # "finished" => Frame!NextPhase(t).need > 0
         /\ Frame!NextPhase(t).phase = "payload" => t.phase = "block_header"
<1>1. /\ t.phase \in Phases /\ t.held \in Seq(Byte8)
      /\ t.block_checksum \in BOOLEAN /\ t.content_checksum \in BOOLEAN
      /\ << >> \in Seq(Byte8) /\ Len(<< >>) = 0
  BY DEF AnyTracker
<1>2. ASSUME NEW phase \in Phases, NEW need \in Nat, phase = "block_header" => need = 4, phase # "header"
      PROVE  /\ Frame!Phase(t, phase, need) \in Frame!Trackers
             /\ Frame!Phase(t, phase, need).phase = phase /\ Frame!Phase(t, phase, need).need = need
  <2> DEFINE u == Frame!Phase(t, phase, need)
  <2>1. u \in AnyTracker /\ u.phase = phase /\ u.need = need /\ u.held = << >>
    BY <1>1, <1>2 DEF Frame!Phase, AnyTracker
  <2> HIDE DEF u
  <2>2. u \in Frame!Trackers
    BY <1>1, <1>2, <2>1, TrackersAre
  <2> QED
    BY <2>1, <2>2 DEF u
<1>3. CASE t.phase = "header" /\ Len(t.held) = 6
  <2> DEFINE flg == t.held[5]
  <2> DEFINE need == Frame!Optional(flg)
  <2> DEFINE bc == Frame!Bit(flg, 16)
  <2> DEFINE cc == Frame!Bit(flg, 4)
  <2> DEFINE u == Frame!NextPhase(t)
  <2>1. u = [t EXCEPT !.need = need, !.block_checksum = bc, !.content_checksum = cc]
    BY <1>3 DEF Frame!NextPhase
  <2>2. need \in Nat \ {0} /\ bc \in BOOLEAN /\ cc \in BOOLEAN
    BY OptionalTyped DEF Frame!Bit
  <2>3. Len(t.held) = 6 /\ t.phase = "header"
    BY <1>3
  <2> HIDE DEF u, need, bc, cc, flg
  <2>4. u \in AnyTracker
    BY <1>1, <2>1, <2>2 DEF AnyTracker
  <2>5. u.phase = "header" /\ u.need = need /\ u.held = t.held
    BY <1>3, <2>1 DEF AnyTracker
  <2>6. u.need > 0 /\ Len(u.held) + u.need >= 6 /\ u.phase # "block_header"
    <3>1. u.need > 0 /\ u.need \in Nat /\ u.phase # "block_header"
      BY <2>2, <2>5
    <3>2. Len(u.held) = 6
      BY <2>3, <2>5
    <3> QED
      BY <3>1, <3>2
  <2>7. u \in Frame!Trackers
    BY <2>4, <2>6, TrackersAre
  <2> QED
    BY <2>2, <2>5, <2>7 DEF u
<1>4. CASE t.phase = "block_checksum" \/ (t.phase = "header" /\ Len(t.held) # 6)
  <2>1. Frame!NextPhase(t) = Frame!Phase(t, "block_header", 4)
    BY <1>4 DEF Frame!NextPhase
  <2> QED
    BY <1>2, <2>1 DEF Phases
<1>5. CASE t.phase = "block_header"
  <2>1. Frame!BlockLength(t.held) \in Nat
    BY <1>1, <1>5, BlockLengthTyped
  <2>2. \/ Frame!NextPhase(t) = Frame!Phase(t, "payload", Frame!BlockLength(t.held))
        \/ Frame!NextPhase(t) = Frame!Phase(t, "content_checksum", 4)
        \/ Frame!NextPhase(t) = Frame!Phase(t, "finished", 0)
    BY <1>5 DEF Frame!NextPhase
  <2> QED
    BY <1>2, <1>5, <2>1, <2>2 DEF Phases
<1>6. CASE t.phase = "payload"
  <2>1. \/ Frame!NextPhase(t) = Frame!Phase(t, "block_checksum", 4)
        \/ Frame!NextPhase(t) = Frame!Phase(t, "block_header", 4)
    BY <1>6 DEF Frame!NextPhase
  <2> QED
    BY <1>2, <2>1 DEF Phases
<1>7. CASE t.phase = "content_checksum"
  <2>1. Frame!NextPhase(t) = Frame!Phase(t, "finished", 0)
    BY <1>7 DEF Frame!NextPhase
  <2> QED
    BY <1>2, <2>1 DEF Phases
<1> QED
  BY <1>1, <1>3, <1>4, <1>5, <1>6, <1>7 DEF Phases

(* A turn takes a byte, or leaves an empty block. *)
LEMMA TurnsDecrease ==
  ASSUME NEW t \in Frame!Trackers, NEW s \in Seq(Byte8), s # << >>, t.phase # "finished"
  PROVE  /\ After(t, s) \in Frame!Trackers /\ Left(t, s) \in Seq(Byte8)
         /\ Turns(t, s) \in Nat /\ Turns(After(t, s), Left(t, s)) \in Nat
         /\ Turns(After(t, s), Left(t, s)) < Turns(t, s)
<1> DEFINE c == Collected(t, s)
<1> DEFINE u == After(t, s)
<1>1. /\ t \in AnyTracker
      /\ t.phase = "header" => t.need > 0 /\ Len(t.held) + t.need >= 6
      /\ t.phase = "block_header" => t.need > 0 /\ Len(t.held) + t.need = 4
  BY TrackersAre
<1>2. t.need \in Nat /\ Len(t.held) \in Nat /\ Len(s) \in Nat \ {0}
  BY <1>1, EmptySeq DEF AnyTracker
<1>3. /\ Take(t, s) \in 0 .. Len(s) /\ Take(t, s) <= t.need
      /\ c \in AnyTracker /\ c.phase = t.phase /\ c.need = t.need - Take(t, s)
      /\ Len(c.held) = Len(t.held) + Take(t, s)
      /\ Left(t, s) \in Seq(Byte8) /\ Len(Left(t, s)) = Len(s) - Take(t, s)
  BY <1>1, CollectedIs
<1>4. u = IF c.need = 0 THEN Frame!NextPhase(c) ELSE c
  BY DEF After
<1>5. t.need > 0 => Take(t, s) > 0
  BY <1>2 DEF Take
<1> DEFINE take == Take(t, s)
<1> DEFINE left == Left(t, s)
<1>8. take \in Nat /\ take <= Len(s) /\ left \in Seq(Byte8) /\ Len(left) = Len(s) - take
  BY <1>2, <1>3
<1> HIDE DEF c, u, take, left
(* It is enough that the next phase is the last, waits for a byte or has cost one. *)
<1>9. ASSUME u \in Frame!Trackers, u.need \in Nat, u.phase = "finished" \/ u.need > 0 \/ take > 0
      PROVE  /\ u \in Frame!Trackers /\ Left(t, s) \in Seq(Byte8)
             /\ Turns(t, s) \in Nat /\ Turns(After(t, s), Left(t, s)) \in Nat
             /\ Turns(After(t, s), Left(t, s)) < Turns(t, s)
             /\ After(t, s) \in Frame!Trackers
  <2> DEFINE n == Len(s)
  <2> DEFINE k == Len(left)
  <2>1. n \in Nat \ {0} /\ k \in Nat /\ k = n - take /\ take \in Nat
    BY <1>2, <1>8
  <2>2. Turns(t, s) = 2 * n + (IF t.need = 0 THEN 1 ELSE 0)
    BY DEF Turns
  <2>3. Turns(u, left) = IF u.phase = "finished" THEN 0 ELSE 2 * k + (IF u.need = 0 THEN 1 ELSE 0)
    BY DEF Turns
  <2>4. t.need > 0 => take > 0
    BY <1>5 DEF take
  <2> HIDE DEF n, k
  <2>5. Turns(t, s) \in Nat /\ Turns(t, s) >= 2 * n /\ (t.need = 0 => Turns(t, s) = 2 * n + 1)
    BY <2>1, <2>2
  <2>6. /\ Turns(u, left) \in Nat /\ Turns(u, left) <= 2 * k + 1
        /\ u.phase = "finished" => Turns(u, left) = 0
        /\ u.need > 0 => Turns(u, left) <= 2 * k
    BY <1>9, <2>1, <2>3
  <2>7. Turns(u, left) < Turns(t, s)
    <3>1. CASE take > 0
      BY <2>1, <2>5, <2>6, <3>1
    <3>2. CASE take = 0
      <4>1. t.need = 0
        BY <1>2, <2>4, <3>2
      <4> QED
        BY <1>9, <2>1, <2>5, <2>6, <3>2, <4>1
    <3> QED
      BY <2>1, <3>1, <3>2
  <2> QED
    BY <1>8, <1>9, <2>5, <2>6, <2>7 DEF u, left
<1>6. CASE c.need = 0
  <2>1. /\ u \in Frame!Trackers
        /\ u.phase # "payload" /\ u.phase # "finished" => u.need > 0
        /\ u.phase = "payload" => t.phase = "block_header"
    <3>1. c.phase = "header" => Len(c.held) >= 6
      BY <1>1, <1>2, <1>3, <1>6
    <3>2. c.phase = "block_header" => Len(c.held) = 4
      BY <1>1, <1>2, <1>3, <1>6
    <3> QED
      BY <1>3, <1>4, <1>6, <3>1, <3>2, NextTyped
  <2>2. u.need \in Nat
    BY <2>1, TrackersAre DEF AnyTracker
  <2>3. u.phase = "finished" \/ u.need > 0 \/ take > 0
    <3>1. u.phase = "payload" => take > 0
      BY <1>1, <1>5, <2>1 DEF take
    <3> QED
      BY <2>1, <3>1
  <2> QED
    BY <1>9, <2>1, <2>2, <2>3
<1>7. CASE c.need # 0
  <2>1. c \in Frame!Trackers
    <3>1. c.need > 0 /\ Len(c.held) + c.need = Len(t.held) + t.need
      BY <1>2, <1>3, <1>7
    <3> QED
      BY <1>1, <1>3, <3>1, TrackersAre
  <2>2. u \in Frame!Trackers /\ u.need \in Nat /\ u.need > 0
    BY <1>2, <1>3, <1>4, <1>7, <2>1
  <2> QED
    BY <1>9, <2>2
<1> QED
  BY <1>6, <1>7

(* Watched depends on what it is given for fewer turns only. *)
LEMMA WatchedLooksAhead ==
  ASSUME NEW t \in Frame!Trackers, NEW s \in Seq(Byte8), NEW g, NEW h,
         \A u \in Frame!Trackers, r \in Seq(Byte8) :
           Turns(u, r) < Turns(t, s) => g[<<u, r>>] = h[<<u, r>>]
  PROVE  Watched(g, <<t, s>>) = Watched(h, <<t, s>>)
<1>1. CASE s = << >> \/ t.phase = "finished"
  BY <1>1 DEF Watched
<1>2. CASE ~(s = << >> \/ t.phase = "finished")
  <2>1. g[<<After(t, s), Left(t, s)>>] = h[<<After(t, s), Left(t, s)>>]
    BY <1>2, TurnsDecrease
  <2> QED
    BY <1>2, <2>1 DEF Watched
<1> QED
  BY <1>1, <1>2

(* g follows the recursion for watches of fewer than k turns. *)
Follows(g, k) ==
  \A t \in Frame!Trackers, s \in Seq(Byte8) : Turns(t, s) < k => g[<<t, s>>] = Watched(g, <<t, s>>)

LEMMA TurnsTyped ==
  ASSUME NEW t \in Frame!Trackers, NEW s \in Seq(Byte8)
  PROVE  Turns(t, s) \in Nat
BY DEF Turns

LEMMA FollowersAgree ==
  ASSUME NEW g, NEW h, NEW k \in Nat, Follows(g, k), Follows(h, k)
  PROVE  \A t \in Frame!Trackers, s \in Seq(Byte8) : Turns(t, s) < k => g[<<t, s>>] = h[<<t, s>>]
<1> DEFINE Agree(j) == \A t \in Frame!Trackers, s \in Seq(Byte8) : Turns(t, s) < j => g[<<t, s>>] = h[<<t, s>>]
<1> DEFINE S == {j \in Nat : j <= k => Agree(j)}
<1>1. 0 \in S
  BY TurnsTyped
<1>2. ASSUME NEW j \in Nat, j \in S PROVE j + 1 \in S
  <2> SUFFICES ASSUME j + 1 <= k, NEW t \in Frame!Trackers, NEW s \in Seq(Byte8), Turns(t, s) < j + 1
               PROVE  g[<<t, s>>] = h[<<t, s>>]
    OBVIOUS
  <2>1. Agree(j)
    BY <1>2
  <2>2. \A u \in Frame!Trackers, r \in Seq(Byte8) : Turns(u, r) < Turns(t, s) => g[<<u, r>>] = h[<<u, r>>]
    BY <2>1, TurnsTyped
  <2>3. Watched(g, <<t, s>>) = Watched(h, <<t, s>>)
    BY <2>2, WatchedLooksAhead
  <2>4. Turns(t, s) < k
    BY TurnsTyped
  <2> QED
    BY <2>3, <2>4 DEF Follows
<1>3. k \in S
  <2> HIDE DEF S
  <2> QED
    BY <1>1, <1>2, Induction
<1> QED
  BY <1>3

LEMMA FollowerExists == \A k \in Nat : \E g : Follows(g, k)
<1> DEFINE S == {k \in Nat : \E g : Follows(g, k)}
<1>1. 0 \in S
  BY TurnsTyped DEF Follows
<1>2. ASSUME NEW k \in Nat, k \in S PROVE k + 1 \in S
  <2>1. PICK g : Follows(g, k)
    BY <1>2
  <2> DEFINE h == [x \in Watches |-> IF Turns(x[1], x[2]) < k THEN g[x] ELSE Watched(g, x)]
  <2>2. \A t \in Frame!Trackers, s \in Seq(Byte8) :
          h[<<t, s>>] = IF Turns(t, s) < k THEN g[<<t, s>>] ELSE Watched(g, <<t, s>>)
    BY DEF Watches
  <2> HIDE DEF h
  <2>3. ASSUME NEW t \in Frame!Trackers, NEW s \in Seq(Byte8), Turns(t, s) < k + 1
        PROVE  h[<<t, s>>] = Watched(h, <<t, s>>)
    <3>1. h[<<t, s>>] = Watched(g, <<t, s>>)
      BY <2>1, <2>2 DEF Follows
    <3>2. \A u \in Frame!Trackers, r \in Seq(Byte8) : Turns(u, r) < Turns(t, s) => g[<<u, r>>] = h[<<u, r>>]
      BY <2>2, <2>3, TurnsTyped
    <3>3. Watched(g, <<t, s>>) = Watched(h, <<t, s>>)
      BY <3>2, WatchedLooksAhead
    <3> QED
      BY <3>1, <3>3
  <2>4. Follows(h, k + 1)
    BY <2>3 DEF Follows
  <2> QED
    BY <2>4
<1>3. Nat \subseteq S
  <2> HIDE DEF S
  <2> QED
    BY <1>1, <1>2, Induction
<1> QED
  BY <1>3

LEMMA ObservedIs ==
  \A t \in Frame!Trackers, s \in Seq(Byte8) :
    Frame!Observed[<<t, s>>] = Watched(Frame!Observed, <<t, s>>)
<1> DEFINE G(k) == CHOOSE g : Follows(g, k)
<1>1. \A k \in Nat : Follows(G(k), k)
  BY FollowerExists
<1> HIDE DEF G
<1> DEFINE f == [x \in Watches |-> G(Turns(x[1], x[2]) + 1)[x]]
<1>2. \A t \in Frame!Trackers, s \in Seq(Byte8) : f[<<t, s>>] = G(Turns(t, s) + 1)[<<t, s>>]
  BY DEF Watches
<1>3. f = [x \in Watches |-> f[x]]
  OBVIOUS
<1> HIDE DEF f
<1>4. ASSUME NEW t \in Frame!Trackers, NEW s \in Seq(Byte8)
      PROVE  f[<<t, s>>] = Watched(f, <<t, s>>)
  <2> DEFINE k == Turns(t, s)
  <2> DEFINE g == G(k + 1)
  <2>1. k \in Nat /\ Follows(g, k + 1)
    BY <1>1, TurnsTyped
  <2>2. f[<<t, s>>] = g[<<t, s>>]
    BY <1>2
  <2> HIDE DEF g
  <2>3. g[<<t, s>>] = Watched(g, <<t, s>>)
    BY <2>1 DEF Follows
  <2>4. ASSUME NEW u \in Frame!Trackers, NEW r \in Seq(Byte8), Turns(u, r) < k
        PROVE  g[<<u, r>>] = f[<<u, r>>]
    <3> DEFINE j == Turns(u, r) + 1
    <3> DEFINE h == G(j)
    <3>1. j \in Nat /\ j < k + 1 /\ Turns(u, r) < j
      BY <2>1, <2>4, TurnsTyped
    <3>2. Follows(h, j)
      BY <1>1, <3>1
    <3>3. f[<<u, r>>] = h[<<u, r>>]
      BY <1>2
    <3> HIDE DEF h, j, k
    <3>4. Follows(g, j)
      BY <2>1, <3>1, TurnsTyped DEF Follows
    <3> QED
      BY <3>1, <3>2, <3>3, <3>4, FollowersAgree
  <2>5. Watched(g, <<t, s>>) = Watched(f, <<t, s>>)
    BY <2>4, WatchedLooksAhead
  <2> QED
    BY <2>2, <2>3, <2>5
<1>5. f = [x \in Watches |-> Watched(f, x)]
  <2>1. \A x \in Watches : f[x] = Watched(f, x)
    <3> TAKE x \in Watches
    <3>1. PICK t \in Frame!Trackers, s \in Seq(Byte8) : x = <<t, s>>
      BY DEF Watches
    <3> QED
      BY <1>4, <3>1
  <2> QED
    BY <1>3, <2>1
<1>6. Frame!Observed = CHOOSE g : g = [x \in Watches |-> Watched(g, x)]
  BY DEF Frame!Observed, Watched, After, Left, Collected, Take, Watches, Byte8
<1>7. Frame!Observed = [x \in Watches |-> Watched(Frame!Observed, x)]
  BY <1>5, <1>6
<1> DEFINE o == Frame!Observed
<1>8. o = [x \in Watches |-> Watched(o, x)]
  BY <1>7
<1> HIDE DEF o
<1>9. ASSUME NEW t \in Frame!Trackers, NEW s \in Seq(Byte8) PROVE o[<<t, s>>] = Watched(o, <<t, s>>)
  BY <1>8 DEF Watches
<1> QED
  BY <1>9 DEF o

LEMMA ObserveIs ==
  ASSUME NEW t \in Frame!Trackers, NEW s \in Seq(Byte8)
  PROVE  /\ s = << >> \/ t.phase = "finished" => Frame!Observe(t, s) = t
         /\ ~(s = << >> \/ t.phase = "finished") =>
               Frame!Observe(t, s) = Frame!Observe(After(t, s), Left(t, s))
<1>1. Frame!Observe(t, s) = Watched(Frame!Observed, <<t, s>>)
  BY ObservedIs DEF Frame!Observe
<1> QED
  BY <1>1 DEF Watched, Frame!Observe

LEMMA ObserveTyped ==
  \A t \in Frame!Trackers, s \in Seq(Byte8) : Frame!Observe(t, s) \in Frame!Trackers
<1> DEFINE P(t, s) == Frame!Observe(t, s) \in Frame!Trackers
<1> DEFINE S == {k \in Nat : \A t \in Frame!Trackers, s \in Seq(Byte8) : Turns(t, s) < k => P(t, s)}
<1>1. 0 \in S
  BY TurnsTyped
<1>2. ASSUME NEW k \in Nat, k \in S PROVE k + 1 \in S
  <2> SUFFICES ASSUME NEW t \in Frame!Trackers, NEW s \in Seq(Byte8), Turns(t, s) < k + 1 PROVE P(t, s)
    OBVIOUS
  <2>1. CASE s = << >> \/ t.phase = "finished"
    BY <2>1, ObserveIs
  <2>2. CASE ~(s = << >> \/ t.phase = "finished")
    <3>1. P(After(t, s), Left(t, s))
      BY <1>2, <2>2, TurnsDecrease
    <3> QED
      BY <2>2, <3>1, ObserveIs
  <2> QED
    BY <2>1, <2>2
<1>3. Nat \subseteq S
  <2> HIDE DEF S
  <2> QED
    BY <1>1, <1>2, Induction
<1> HIDE DEF P
<1>4. ASSUME NEW t \in Frame!Trackers, NEW s \in Seq(Byte8) PROVE P(t, s)
  <2>1. Turns(t, s) + 1 \in S
    BY <1>3, TurnsTyped
  <2> QED
    BY <2>1, TurnsTyped
<1> QED
  BY <1>4 DEF P

LEMMA SplitEarly ==
  ASSUME NEW a \in Seq(Byte8), NEW b \in Seq(Byte8), NEW n \in 0 .. Len(a)
  PROVE  /\ SubSeq(a \o b, 1, n) = SubSeq(a, 1, n)
         /\ SubSeq(a \o b, n + 1, Len(a \o b)) = SubSeq(a, n + 1, Len(a)) \o b
<1> DEFINE ab == a \o b
<1>1. /\ ab \in Seq(Byte8) /\ Len(ab) = Len(a) + Len(b)
      /\ \A i \in 1 .. Len(a) + Len(b) : ab[i] = IF i <= Len(a) THEN a[i] ELSE b[i - Len(a)]
  BY ConcatProperties
<1> HIDE DEF ab
<1>2. SubSeq(ab, 1, n) = SubSeq(a, 1, n)
  <2>1. \A i \in 1 .. n : ab[i] = a[i]
    BY <1>1
  <2>2. SubSeq(ab, 1, n) = [i \in 1 .. n |-> ab[i]] /\ SubSeq(a, 1, n) = [i \in 1 .. n |-> a[i]]
    BY <1>1
  <2> QED
    BY <2>1, <2>2
<1>3. SubSeq(ab, n + 1, Len(ab)) = SubSeq(a, n + 1, Len(a)) \o b
  <2> DEFINE x == SubSeq(ab, n + 1, Len(ab))
  <2> DEFINE z == SubSeq(a, n + 1, Len(a))
  <2>1. /\ x \in Seq(Byte8) /\ Len(x) = Len(a) + Len(b) - n
        /\ \A i \in 1 .. Len(a) + Len(b) - n : x[i] = ab[n + i]
    BY <1>1, SubSeqProperties
  <2>2. /\ z \in Seq(Byte8) /\ Len(z) = Len(a) - n
        /\ \A i \in 1 .. Len(a) - n : z[i] = a[n + i]
    BY SubSeqProperties
  <2> HIDE DEF x, z
  <2>3. /\ z \o b \in Seq(Byte8) /\ Len(z \o b) = Len(z) + Len(b)
        /\ \A i \in 1 .. Len(z) + Len(b) : (z \o b)[i] = IF i <= Len(z) THEN z[i] ELSE b[i - Len(z)]
    BY <2>2, ConcatProperties
  <2> DEFINE y == z \o b
  <2> HIDE DEF y
  <2>4. ASSUME NEW i \in 1 .. Len(x) PROVE x[i] = y[i]
    <3>1. x[i] = ab[n + i] /\ n + i \in 1 .. Len(a) + Len(b) /\ Len(a) \in Nat /\ Len(b) \in Nat
      BY <2>1
    <3>2. CASE i <= Len(a) - n
      <4>1. ab[n + i] = a[n + i] /\ y[i] = z[i] /\ z[i] = a[n + i]
        BY <1>1, <2>2, <2>3, <3>1, <3>2 DEF y
      <4> QED
        BY <3>1, <4>1
    <3>3. CASE i > Len(a) - n
      <4>1. ab[n + i] = b[n + i - Len(a)]
        BY <1>1, <3>1, <3>3
      <4>2. y[i] = b[i - (Len(a) - n)]
        BY <2>1, <2>2, <2>3, <3>3 DEF y
      <4>3. n + i - Len(a) = i - (Len(a) - n)
        BY <3>1
      <4> QED
        BY <3>1, <4>1, <4>2, <4>3
    <3> QED
      BY <3>1, <3>2, <3>3
  <2>5. Len(x) = Len(y) /\ x \in Seq(Byte8) /\ y \in Seq(Byte8)
    BY <2>1, <2>2, <2>3 DEF y
  <2>6. x = y
    BY <2>4, <2>5, SeqEqual
  <2> QED
    BY <2>6 DEF x, y, z
<1> QED
  BY <1>2, <1>3 DEF ab

LEMMA SplitLate ==
  ASSUME NEW a \in Seq(Byte8), NEW b \in Seq(Byte8), NEW m \in 0 .. Len(b)
  PROVE  /\ SubSeq(a \o b, 1, Len(a) + m) = a \o SubSeq(b, 1, m)
         /\ SubSeq(a \o b, Len(a) + m + 1, Len(a \o b)) = SubSeq(b, m + 1, Len(b))
<1> DEFINE ab == a \o b
<1>1. /\ ab \in Seq(Byte8) /\ Len(ab) = Len(a) + Len(b)
      /\ \A i \in 1 .. Len(a) + Len(b) : ab[i] = IF i <= Len(a) THEN a[i] ELSE b[i - Len(a)]
  BY ConcatProperties
<1> HIDE DEF ab
<1>2. SubSeq(ab, 1, Len(a) + m) = a \o SubSeq(b, 1, m)
  <2> DEFINE x == SubSeq(ab, 1, Len(a) + m)
  <2> DEFINE z == SubSeq(b, 1, m)
  <2>1. /\ x \in Seq(Byte8) /\ Len(x) = Len(a) + m
        /\ \A i \in 1 .. Len(a) + m : x[i] = ab[i]
    BY <1>1, SubSeqProperties
  <2>2. /\ z \in Seq(Byte8) /\ Len(z) = m /\ \A i \in 1 .. m : z[i] = b[i]
    BY SubSeqProperties
  <2> HIDE DEF x, z
  <2> DEFINE y == a \o z
  <2>3. /\ y \in Seq(Byte8) /\ Len(y) = Len(a) + m
        /\ \A i \in 1 .. Len(a) + m : y[i] = IF i <= Len(a) THEN a[i] ELSE z[i - Len(a)]
    BY <2>2, ConcatProperties
  <2> HIDE DEF y
  <2>4. ASSUME NEW i \in 1 .. Len(x) PROVE x[i] = y[i]
    <3>1. x[i] = ab[i] /\ i \in 1 .. Len(a) + m /\ Len(a) \in Nat /\ Len(b) \in Nat /\ m <= Len(b)
      BY <2>1
    <3>2. CASE i <= Len(a)
      <4>1. ab[i] = a[i] /\ y[i] = a[i]
        BY <1>1, <2>3, <3>1, <3>2
      <4> QED
        BY <3>1, <4>1
    <3>3. CASE i > Len(a)
      <4>1. i - Len(a) \in 1 .. m /\ i \in 1 .. Len(a) + Len(b)
        BY <3>1, <3>3
      <4>2. ab[i] = b[i - Len(a)] /\ y[i] = z[i - Len(a)]
        BY <1>1, <2>3, <3>1, <3>3, <4>1
      <4>3. z[i - Len(a)] = b[i - Len(a)]
        BY <2>2, <4>1
      <4> QED
        BY <3>1, <4>2, <4>3
    <3> QED
      BY <3>1, <3>2, <3>3
  <2>6. x = y
    BY <2>1, <2>3, <2>4, SeqEqual
  <2> QED
    BY <2>6 DEF x, y, z
<1>3. SubSeq(ab, Len(a) + m + 1, Len(ab)) = SubSeq(b, m + 1, Len(b))
  <2> DEFINE x == SubSeq(ab, Len(a) + m + 1, Len(ab))
  <2> DEFINE z == SubSeq(b, m + 1, Len(b))
  <2> DEFINE n == Len(ab)
  <2> DEFINE p == Len(a) + m + 1
  <2>a. p \in 1 .. n + 1 /\ n \in Nat /\ n - p + 1 = Len(b) - m /\ \A i \in 1 .. Len(b) - m : p + i - 1 = Len(a) + m + i
    BY <1>1
  <2>b. \A i \in p .. n : ab[i] \in Byte8
    BY <1>1
  <2> HIDE DEF n, p
  <2>c. /\ SubSeq(ab, p, n) \in Seq(Byte8) /\ Len(SubSeq(ab, p, n)) = n - p + 1
        /\ \A i \in 1 .. n - p + 1 : SubSeq(ab, p, n)[i] = ab[p + i - 1]
    BY <2>a, <2>b, SubSeqProperties
  <2>1. /\ x \in Seq(Byte8) /\ Len(x) = Len(b) - m
        /\ \A i \in 1 .. Len(b) - m : x[i] = ab[Len(a) + m + i]
    BY <2>a, <2>c DEF n, p
  <2>2. /\ z \in Seq(Byte8) /\ Len(z) = Len(b) - m /\ \A i \in 1 .. Len(b) - m : z[i] = b[m + i]
    BY SubSeqProperties
  <2> HIDE DEF x, z
  <2>3. ASSUME NEW i \in 1 .. Len(x) PROVE x[i] = z[i]
    <3>1. /\ i \in 1 .. Len(b) - m /\ x[i] = ab[Len(a) + m + i] /\ z[i] = b[m + i]
          /\ Len(a) \in Nat /\ Len(b) \in Nat /\ m \in Nat
      BY <2>1, <2>2
    <3>2. Len(a) + m + i \in 1 .. Len(a) + Len(b) /\ Len(a) + m + i > Len(a)
      BY <3>1
    <3>3. ab[Len(a) + m + i] = b[Len(a) + m + i - Len(a)]
      BY <1>1, <3>2
    <3>4. Len(a) + m + i - Len(a) = m + i
      BY <3>1
    <3> QED
      BY <3>1, <3>3, <3>4
  <2>4. x = z
    BY <2>1, <2>2, <2>3, SeqEqual
  <2> QED
    BY <2>4 DEF x, z
<1> QED
  BY <1>2, <1>3 DEF ab

LEMMA SameTracker ==
  ASSUME NEW t \in AnyTracker, NEW u \in AnyTracker, t.phase = u.phase, t.need = u.need, t.held = u.held,
         t.block_checksum = u.block_checksum, t.content_checksum = u.content_checksum
  PROVE  t = u
BY DEF AnyTracker

(* A slice that ends inside a phase: the next one goes on where it ended. *)
LEMMA PhaseGoesOn ==
  ASSUME NEW t \in Frame!Trackers, NEW a \in Seq(Byte8), NEW b \in Seq(Byte8), b # << >>,
         t.phase # "finished", a # << >>, t.need > Len(a)
  PROVE  /\ After(t, a) = Collected(t, a) /\ Left(t, a) = << >>
         /\ Collected(t, a) \in Frame!Trackers /\ Collected(t, a).phase = t.phase
         /\ After(Collected(t, a), b) = After(t, a \o b)
         /\ Left(Collected(t, a), b) = Left(t, a \o b)
<1> DEFINE c == Collected(t, a)
<1> DEFINE ab == a \o b
<1> DEFINE m == Take(c, b)
<1>1. /\ t \in AnyTracker /\ t.need \in Nat /\ Len(a) \in Nat /\ Len(b) \in Nat
      /\ Len(t.held) \in Nat /\ t.held \in Seq(Byte8)
      /\ t.phase = "header" => t.need > 0 /\ Len(t.held) + t.need >= 6
      /\ t.phase = "block_header" => t.need > 0 /\ Len(t.held) + t.need = 4
  BY TrackersAre DEF AnyTracker
<1>2. /\ Take(t, a) = Len(a)
      /\ c \in AnyTracker /\ c.phase = t.phase /\ c.need = t.need - Len(a)
      /\ c.held = t.held \o SubSeq(a, 1, Len(a))
      /\ Len(c.held) = Len(t.held) + Len(a)
      /\ c.block_checksum = t.block_checksum /\ c.content_checksum = t.content_checksum
      /\ Left(t, a) \in Seq(Byte8) /\ Len(Left(t, a)) = 0
  <2> DEFINE k == Take(t, a)
  <2>1. k = Len(a)
    BY <1>1 DEF Take
  <2>2. /\ c \in AnyTracker /\ c.phase = t.phase /\ c.need = t.need - k
        /\ c.held = t.held \o SubSeq(a, 1, k) /\ Len(c.held) = Len(t.held) + k
        /\ c.block_checksum = t.block_checksum /\ c.content_checksum = t.content_checksum
        /\ Left(t, a) \in Seq(Byte8) /\ Len(Left(t, a)) = Len(a) - k
    BY <1>1, CollectedIs
  <2> HIDE DEF k, c
  <2>3. Len(a) - k = 0
    BY <1>1, <2>1
  <2> QED
    BY <2>1, <2>2, <2>3 DEF k
<1>3. SubSeq(a, 1, Len(a)) = a
  BY SubSeqFull
<1>4. ab \in Seq(Byte8) /\ Len(ab) = Len(a) + Len(b)
  BY ConcatProperties
<1> HIDE DEF c, ab
<1>5. c.need > 0 /\ c.need \in Nat
  BY <1>1, <1>2
<1>6. After(t, a) = c
  BY <1>5 DEF After, c
<1>7. Left(t, a) = << >>
  BY <1>2, EmptySeq
<1>8. c \in Frame!Trackers
  <2> DEFINE x == Len(t.held)
  <2> DEFINE y == t.need
  <2> DEFINE z == Len(a)
  <2>1. x \in Nat /\ y \in Nat /\ z \in Nat /\ Len(c.held) = x + z /\ c.need = y - z
    BY <1>1, <1>2
  <2> HIDE DEF x, y, z
  <2>2. Len(c.held) + c.need = x + y
    BY <2>1
  <2> QED
    BY <1>1, <1>2, <1>5, <2>2, TrackersAre DEF x, y
<1>9. m \in 0 .. Len(b) /\ Take(t, ab) = Len(a) + m
  <2> DEFINE x == Len(a)
  <2> DEFINE y == Len(b)
  <2> DEFINE z == t.need
  <2>1. m = (IF c.need < y THEN c.need ELSE y) /\ c.need = z - x
    BY <1>2 DEF Take
  <2>2. Take(t, ab) = IF z < x + y THEN z ELSE x + y
    BY <1>4 DEF Take
  <2>3. x \in Nat /\ y \in Nat /\ z \in Nat /\ z > x
    BY <1>1
  <2> HIDE DEF x, y, z, m
  <2>4. m = IF z - x < y THEN z - x ELSE y
    BY <2>1
  <2>5. m \in 0 .. y /\ Take(t, ab) = x + m
    BY <2>2, <2>3, <2>4
  <2> QED
    BY <2>5 DEF x, y
<1> HIDE DEF m
<1>10. /\ SubSeq(ab, 1, Len(a) + m) = a \o SubSeq(b, 1, m)
       /\ SubSeq(ab, Len(a) + m + 1, Len(ab)) = SubSeq(b, m + 1, Len(b))
  BY <1>9, SplitLate DEF ab
<1>11. Left(c, b) = Left(t, ab)
  BY <1>9, <1>10 DEF Left, m
<1> DEFINE d == Collected(c, b)
<1> DEFINE e == Collected(t, ab)
<1>12. /\ d \in AnyTracker /\ d.phase = c.phase /\ d.need = c.need - m
       /\ d.held = c.held \o SubSeq(b, 1, m)
       /\ d.block_checksum = c.block_checksum /\ d.content_checksum = c.content_checksum
  BY <1>2, CollectedIs DEF m
<1>13. /\ e \in AnyTracker /\ e.phase = t.phase /\ e.need = t.need - (Len(a) + m)
       /\ e.held = t.held \o SubSeq(ab, 1, Len(a) + m)
       /\ e.block_checksum = t.block_checksum /\ e.content_checksum = t.content_checksum
  <2> DEFINE k == Take(t, ab)
  <2>1. /\ e \in AnyTracker /\ e.phase = t.phase /\ e.need = t.need - k
        /\ e.held = t.held \o SubSeq(ab, 1, k)
        /\ e.block_checksum = t.block_checksum /\ e.content_checksum = t.content_checksum
    BY <1>1, <1>4, CollectedIs
  <2>2. k = Len(a) + m
    BY <1>9
  <2> HIDE DEF k, e
  <2> QED
    BY <2>1, <2>2
<1> HIDE DEF d, e
<1>14. d.held = e.held
  <2> DEFINE held == t.held
  <2> DEFINE more == SubSeq(b, 1, m)
  <2>1. held \in Seq(Byte8) /\ more \in Seq(Byte8)
    BY <1>1, <1>9, SubSeqProperties
  <2>2. d.held = (held \o a) \o more /\ e.held = held \o (a \o more)
    BY <1>2, <1>3, <1>10, <1>12, <1>13
  <2> HIDE DEF held, more
  <2>3. (held \o a) \o more = held \o (a \o more)
    BY <2>1, ConcatAssociative
  <2> QED
    BY <2>2, <2>3
<1>15. d.need = e.need
  <2> DEFINE x == Len(a)
  <2> DEFINE z == t.need
  <2>1. d.need = c.need - m /\ c.need = z - x /\ e.need = z - (x + m)
    BY <1>2, <1>12, <1>13
  <2>2. x \in Nat /\ z \in Nat /\ m \in Int
    BY <1>1, <1>9
  <2> HIDE DEF x, z
  <2> QED
    BY <2>1, <2>2
<1>16. d = e
  BY <1>2, <1>12, <1>13, <1>14, <1>15, SameTracker
<1>17. After(c, b) = After(t, ab)
  BY <1>16 DEF After, d, e
<1> QED
  BY <1>2, <1>6, <1>7, <1>8, <1>11, <1>17 DEF c, ab

(* A phase that the first slice completes does not see the second. *)
LEMMA PhaseCompletes ==
  ASSUME NEW t \in Frame!Trackers, NEW a \in Seq(Byte8), NEW b \in Seq(Byte8),
         t.phase # "finished", t.need <= Len(a)
  PROVE  /\ After(t, a \o b) = After(t, a)
         /\ Left(t, a \o b) = Left(t, a) \o b
<1> DEFINE ab == a \o b
<1>1. ab \in Seq(Byte8) /\ Len(ab) = Len(a) + Len(b) /\ Len(a) \in Nat /\ Len(b) \in Nat /\ t.need \in Nat
  BY ConcatProperties, TrackersAre DEF AnyTracker
<1> DEFINE n == t.need
<1>2. n \in 0 .. Len(a)
  BY <1>1
<1> HIDE DEF ab
<1>3. Take(t, a) = n /\ Take(t, ab) = n
  BY <1>1 DEF Take
<1> HIDE DEF n
<1>4. /\ SubSeq(ab, 1, n) = SubSeq(a, 1, n)
      /\ SubSeq(ab, n + 1, Len(ab)) = SubSeq(a, n + 1, Len(a)) \o b
  BY <1>2, SplitEarly DEF ab
<1>5. Collected(t, ab) = Collected(t, a)
  BY <1>3, <1>4 DEF Collected
<1> QED
  BY <1>3, <1>4, <1>5 DEF After, Left, ab

(* The tracker sees the same frame however its bytes are sliced: what it knows after
   two slices is what it knows after the two in one; Lz4FrameTracker::observe.       *)
LEMMA SlicesDoNotMatter ==
  \A t \in Frame!Trackers, a \in Seq(Byte8), b \in Seq(Byte8) :
    Frame!Observe(Frame!Observe(t, a), b) = Frame!Observe(t, a \o b)
<1> DEFINE P(t, a) == \A b \in Seq(Byte8) : Frame!Observe(Frame!Observe(t, a), b) = Frame!Observe(t, a \o b)
<1> DEFINE S == {k \in Nat : \A t \in Frame!Trackers, a \in Seq(Byte8) : Turns(t, a) < k => P(t, a)}
<1>1. 0 \in S
  BY TurnsTyped
<1>2. ASSUME NEW k \in Nat, k \in S PROVE k + 1 \in S
  <2> SUFFICES ASSUME NEW t \in Frame!Trackers, NEW a \in Seq(Byte8), Turns(t, a) < k + 1, NEW b \in Seq(Byte8)
               PROVE  Frame!Observe(Frame!Observe(t, a), b) = Frame!Observe(t, a \o b)
    OBVIOUS
  <2>0. a \o b \in Seq(Byte8) /\ Len(a \o b) = Len(a) + Len(b) /\ Len(a) \in Nat /\ Len(b) \in Nat
    BY ConcatProperties
  <2>1. CASE a = << >>
    <3>1. a \o b = b
      BY <2>1, ConcatEmptySeq
    <3> QED
      BY <2>1, <3>1, ObserveIs
  <2>2. CASE t.phase = "finished"
    BY <2>0, <2>2, ObserveIs
  <2>3. CASE b = << >>
    <3>1. a \o b = a
      BY <2>3, ConcatEmptySeq
    <3> DEFINE u == Frame!Observe(t, a)
    <3>2. u \in Frame!Trackers
      BY ObserveTyped
    <3> HIDE DEF u
    <3>3. Frame!Observe(u, << >>) = u
      BY <3>2, EmptySeq, ObserveIs
    <3> QED
      BY <2>3, <3>1, <3>3 DEF u
  <2>4. CASE a # << >> /\ t.phase # "finished" /\ b # << >> /\ t.need <= Len(a)
    <3>1. a \o b # << >>
      BY <2>0, <2>4, EmptySeq
    <3>2. /\ After(t, a \o b) = After(t, a) /\ Left(t, a \o b) = Left(t, a) \o b
      BY <2>4, PhaseCompletes
    <3>3. /\ After(t, a) \in Frame!Trackers /\ Left(t, a) \in Seq(Byte8)
          /\ Turns(After(t, a), Left(t, a)) < k
      BY <2>4, TurnsDecrease
    <3>4. Frame!Observe(Frame!Observe(After(t, a), Left(t, a)), b) = Frame!Observe(After(t, a), Left(t, a) \o b)
      BY <1>2, <3>3
    <3>5. Frame!Observe(t, a) = Frame!Observe(After(t, a), Left(t, a))
      BY <2>4, ObserveIs
    <3>6. Frame!Observe(t, a \o b) = Frame!Observe(After(t, a \o b), Left(t, a \o b))
      BY <2>0, <2>4, <3>1, ObserveIs
    <3> QED
      BY <3>2, <3>4, <3>5, <3>6
  <2>5. CASE a # << >> /\ t.phase # "finished" /\ b # << >> /\ ~(t.need <= Len(a))
    <3> DEFINE c == Collected(t, a)
    <3>1. t.need > Len(a)
      BY <2>0, <2>5, TrackersAre DEF AnyTracker
    <3>2. /\ After(t, a) = c /\ Left(t, a) = << >>
          /\ c \in Frame!Trackers /\ c.phase = t.phase
          /\ After(c, b) = After(t, a \o b) /\ Left(c, b) = Left(t, a \o b)
      BY <2>5, <3>1, PhaseGoesOn
    <3> HIDE DEF c
    <3>3. Frame!Observe(t, a) = Frame!Observe(c, << >>)
      BY <2>5, <3>2, ObserveIs
    <3>4. Frame!Observe(c, << >>) = c
      BY <3>2, EmptySeq, ObserveIs
    <3>5. a \o b # << >>
      BY <2>0, <2>5, EmptySeq
    <3>6. Frame!Observe(c, b) = Frame!Observe(After(c, b), Left(c, b))
      BY <2>5, <3>2, ObserveIs
    <3>7. Frame!Observe(t, a \o b) = Frame!Observe(After(t, a \o b), Left(t, a \o b))
      BY <2>0, <2>5, <3>5, ObserveIs
    <3> QED
      BY <3>2, <3>3, <3>4, <3>6, <3>7
  <2> QED
    BY <2>1, <2>2, <2>3, <2>4, <2>5
<1>3. Nat \subseteq S
  <2> HIDE DEF S
  <2> QED
    BY <1>1, <1>2, Induction
<1> HIDE DEF P
<1>4. ASSUME NEW t \in Frame!Trackers, NEW a \in Seq(Byte8) PROVE P(t, a)
  <2>1. Turns(t, a) + 1 \in S
    BY <1>3, TurnsTyped
  <2> QED
    BY <2>1, TurnsTyped
<1> QED
  BY <1>4 DEF P

-----------------------------------------------------------------------------
(* What the tracker knows after the first p bytes of a frame. *)
Saw(f, p) == Frame!Observe(Frame!NewTracker, SubSeq(f, 1, p))

(* Having seen p bytes it is as good as t, and it was not finished before. *)
Reaches(f, p, t) ==
  /\ t \in Frame!Trackers /\ p \in 0 .. Len(f)
  /\ \A q \in 0 .. p - 1 : Saw(f, q).phase # "finished"
  /\ Saw(f, p).phase = "finished" <=> t.phase = "finished"
  /\ \A q \in p + 1 .. Len(f) : Saw(f, q) = Frame!Observe(t, SubSeq(f, p + 1, q))

(* A phase with all its bytes. *)
Full(f, p, t) == [t EXCEPT !.need = 0, !.held = @ \o SubSeq(f, p + 1, p + t.need)]

LEMMA NewTrackerTyped == Frame!NewTracker \in Frame!Trackers
<1> DEFINE t == Frame!NewTracker
<1>1. t \in AnyTracker /\ t.phase = "header" /\ t.need = 6 /\ t.held = << >>
  BY EmptySeq DEF Frame!NewTracker, AnyTracker, Phases
<1>2. Len(t.held) = 0
  BY <1>1, EmptySeq
<1> HIDE DEF t
<1>3. t \in Frame!Trackers
  BY <1>1, <1>2, TrackersAre
<1> QED
  BY <1>3 DEF t

LEMMA ReachesStart == ASSUME NEW f \in Seq(Byte8) PROVE Reaches(f, 0, Frame!NewTracker)
<1>1. SubSeq(f, 1, 0) = << >> /\ << >> \in Seq(Byte8)
  BY SubSeqEmpty, EmptySeq
<1>2. Saw(f, 0) = Frame!NewTracker
  BY <1>1, NewTrackerTyped, ObserveIs DEF Saw
<1>3. \A q \in 1 .. Len(f) : Saw(f, q) = Frame!Observe(Frame!NewTracker, SubSeq(f, 0 + 1, q))
  BY DEF Saw
<1> QED
  BY <1>2, <1>3, NewTrackerTyped DEF Reaches

(* Two slices of a sequence, one behind the other. *)
LEMMA TwoSlices ==
  ASSUME NEW f \in Seq(Byte8), NEW p \in Nat, NEW m \in Nat, NEW q \in Nat,
         p <= m, m <= q, q <= Len(f)
  PROVE  /\ SubSeq(f, p + 1, m) \in Seq(Byte8) /\ Len(SubSeq(f, p + 1, m)) = m - p
         /\ SubSeq(f, p + 1, q) \in Seq(Byte8) /\ Len(SubSeq(f, p + 1, q)) = q - p
         /\ SubSeq(SubSeq(f, p + 1, q), 1, m - p) = SubSeq(f, p + 1, m)
         /\ SubSeq(SubSeq(f, p + 1, q), m - p + 1, Len(SubSeq(f, p + 1, q))) = SubSeq(f, m + 1, q)
<1> DEFINE a == SubSeq(f, p + 1, m)
<1> DEFINE s == SubSeq(f, p + 1, q)
<1> DEFINE b == SubSeq(f, m + 1, q)
<1>1. a \in Seq(Byte8) /\ Len(a) = m - p /\ \A i \in 1 .. m - p : a[i] = f[p + i]
  BY SubSeqProperties
<1>2. s \in Seq(Byte8) /\ Len(s) = q - p /\ \A i \in 1 .. q - p : s[i] = f[p + i]
  BY SubSeqProperties
<1>3. b \in Seq(Byte8) /\ Len(b) = q - m /\ \A i \in 1 .. q - m : b[i] = f[m + i]
  BY SubSeqProperties
<1> HIDE DEF a, s, b
<1>4. SubSeq(s, 1, m - p) = a
  <2> DEFINE x == SubSeq(s, 1, m - p)
  <2>1. x \in Seq(Byte8) /\ Len(x) = m - p /\ \A i \in 1 .. m - p : x[i] = s[i]
    BY <1>2, SubSeqProperties
  <2> HIDE DEF x
  <2>2. \A i \in 1 .. Len(x) : x[i] = a[i]
    <3> TAKE i \in 1 .. Len(x)
    <3>1. i \in 1 .. m - p /\ i \in 1 .. q - p
      BY <2>1
    <3> QED
      BY <1>1, <1>2, <2>1, <3>1
  <2>3. x = a
    BY <1>1, <2>1, <2>2, SeqEqual
  <2> QED
    BY <2>3 DEF x
<1>5. SubSeq(s, m - p + 1, Len(s)) = b
  <2> DEFINE x == SubSeq(s, m - p + 1, Len(s))
  <2> DEFINE n == m - p
  <2>1. n \in Nat /\ n <= Len(s) /\ Len(s) = q - p
    BY <1>2
  <2>2. x \in Seq(Byte8) /\ Len(x) = Len(s) - n /\ \A i \in 1 .. Len(s) - n : x[i] = s[n + i]
    BY <1>2, <2>1, SubSeqProperties
  <2> HIDE DEF x
  <2>3. \A i \in 1 .. Len(x) : x[i] = b[i]
    <3> TAKE i \in 1 .. Len(x)
    <3>1. i \in 1 .. q - m /\ n + i \in 1 .. q - p /\ p + (n + i) = m + i
      BY <2>1, <2>2
    <3>2. x[i] = s[n + i] /\ s[n + i] = f[p + (n + i)] /\ b[i] = f[m + i]
      BY <1>2, <1>3, <2>2, <3>1
    <3> QED
      BY <3>1, <3>2
  <2>4. Len(x) = Len(b)
    BY <1>3, <2>1, <2>2
  <2>5. x = b
    BY <1>3, <2>2, <2>3, <2>4, SeqEqual
  <2> QED
    BY <2>5 DEF x
<1> QED
  BY <1>1, <1>2, <1>4, <1>5 DEF a, s, b

LEMMA FullTyped ==
  ASSUME NEW f \in Seq(Byte8), NEW p \in Nat, NEW t \in Frame!Trackers, t.phase # "finished", p + t.need <= Len(f)
  PROVE  /\ Frame!NextPhase(Full(f, p, t)) \in Frame!Trackers
         /\ t.need \in Nat
<1> DEFINE n == t.need
<1> DEFINE held == t.held
<1> DEFINE more == SubSeq(f, p + 1, p + n)
<1> DEFINE u == Full(f, p, t)
<1>1. /\ t \in AnyTracker /\ n \in Nat /\ held \in Seq(Byte8)
      /\ t.phase = "header" => n > 0 /\ Len(held) + n >= 6
      /\ t.phase = "block_header" => n > 0 /\ Len(held) + n = 4
  BY TrackersAre DEF AnyTracker
<1>2. u = [t EXCEPT !.need = 0, !.held = held \o more]
  BY DEF Full
<1>3. p + n \in Nat /\ p + n <= Len(f) /\ (p + n) - p = n
  BY <1>1
<1> HIDE DEF n, held
<1>4. more \in Seq(Byte8) /\ Len(more) = n
  BY <1>1, <1>3, TwoSlices
<1> HIDE DEF more
<1>5. held \o more \in Seq(Byte8) /\ Len(held \o more) = Len(held) + n
  BY <1>1, <1>4, ConcatProperties
<1> DEFINE all == held \o more
<1>a. all \in Seq(Byte8) /\ u = [t EXCEPT !.need = 0, !.held = all]
  BY <1>2, <1>5
<1> HIDE DEF all, u
<1>6. u \in AnyTracker /\ u.need = 0 /\ u.phase = t.phase /\ u.held = all
  BY <1>1, <1>a DEF AnyTracker
<1>7. Len(u.held) = Len(held) + n
  BY <1>5, <1>6 DEF all
<1>8. Frame!NextPhase(u) \in Frame!Trackers
  BY <1>1, <1>6, <1>7, NextTyped
<1> QED
  BY <1>1, <1>8 DEF u, n

(* The tracker reaches the end of a phase. *)
LEMMA Stage ==
  ASSUME NEW f \in Seq(Byte8), NEW p, NEW t, Reaches(f, p, t), t.phase # "finished", p + t.need <= Len(f),
         NEW u, u = Frame!NextPhase(Full(f, p, t)), t.need = 0 => u.phase # "finished"
  PROVE  Reaches(f, p + t.need, u)
<1> DEFINE n == t.need
<1>1. /\ t \in Frame!Trackers /\ p \in 0 .. Len(f) /\ Len(f) \in Nat
      /\ \A q \in 0 .. p - 1 : Saw(f, q).phase # "finished"
      /\ Saw(f, p).phase # "finished"
      /\ \A q \in p + 1 .. Len(f) : Saw(f, q) = Frame!Observe(t, SubSeq(f, p + 1, q))
  BY DEF Reaches
<1>2. n \in Nat /\ u \in Frame!Trackers /\ t \in AnyTracker
  BY <1>1, FullTyped, TrackersAre
<1>3. p + n \in 0 .. Len(f) /\ p \in Nat
  BY <1>1, <1>2
<1> DEFINE s(q) == SubSeq(f, p + 1, q)
<1>4. ASSUME NEW q \in p + 1 .. Len(f)
      PROVE  /\ s(q) \in Seq(Byte8) /\ Len(s(q)) = q - p /\ s(q) # << >>
             /\ Saw(f, q) = Frame!Observe(After(t, s(q)), Left(t, s(q)))
             /\ After(t, s(q)) \in Frame!Trackers
             /\ Take(t, s(q)) = IF n < q - p THEN n ELSE q - p
             /\ Collected(t, s(q)).need = n - Take(t, s(q)) /\ Collected(t, s(q)).phase = t.phase
             /\ Left(t, s(q)) \in Seq(Byte8) /\ Len(Left(t, s(q))) = q - p - Take(t, s(q))
  <2>1. q \in Nat /\ p <= q /\ q <= Len(f) /\ q - p \in Nat /\ q - p # 0
    BY <1>1
  <2>2. s(q) \in Seq(Byte8) /\ Len(s(q)) = q - p
    BY <1>3, <2>1, TwoSlices
  <2> DEFINE sq == s(q)
  <2> HIDE DEF sq
  <2>3. sq # << >>
    BY <2>1, <2>2, EmptySeq DEF sq
  <2>4. Saw(f, q) = Frame!Observe(t, sq)
    BY <1>1 DEF sq
  <2>5. Frame!Observe(t, sq) = Frame!Observe(After(t, sq), Left(t, sq)) /\ After(t, sq) \in Frame!Trackers
    BY <1>1, <2>2, <2>3, ObserveIs, TurnsDecrease DEF sq
  <2>6. Take(t, sq) = IF n < q - p THEN n ELSE q - p
    BY <2>2 DEF Take, sq
  <2>7. /\ Collected(t, sq).need = n - Take(t, sq) /\ Collected(t, sq).phase = t.phase
        /\ Left(t, sq) \in Seq(Byte8) /\ Len(Left(t, sq)) = Len(sq) - Take(t, sq)
    BY <1>2, <2>2, CollectedIs DEF sq
  <2> QED
    BY <2>2, <2>3, <2>4, <2>5, <2>6, <2>7 DEF sq
<1> HIDE DEF s, n
<1>5. ASSUME NEW q \in p + 1 .. Len(f), q < p + n PROVE Saw(f, q).phase # "finished"
  <2> DEFINE c == Collected(t, s(q))
  <2>1. Take(t, s(q)) = q - p /\ n - (q - p) > 0
    BY <1>1, <1>2, <1>4, <1>5
  <2>2. After(t, s(q)) = c
    <3>1. c.need # 0
      BY <1>4, <2>1
    <3> QED
      BY <3>1 DEF After
  <2>3. Left(t, s(q)) = << >>
    <3>1. Len(Left(t, s(q))) = 0
      BY <1>1, <1>4, <2>1
    <3> QED
      BY <1>4, <3>1, EmptySeq
  <2> HIDE DEF c
  <2>4. Frame!Observe(c, << >>) = c
    BY <1>4, <2>2, EmptySeq, ObserveIs
  <2> QED
    BY <1>1, <1>4, <2>2, <2>3, <2>4 DEF c
<1>6. ASSUME NEW q \in p + 1 .. Len(f), q >= p + n
      PROVE  Saw(f, q) = Frame!Observe(u, SubSeq(f, p + n + 1, q))
  <2>1. Take(t, s(q)) = n
    <3>1. n <= q - p /\ q - p \in Nat
      BY <1>1, <1>2, <1>6
    <3> QED
      BY <1>2, <1>4, <3>1
  <2>2. /\ SubSeq(s(q), 1, n) = SubSeq(f, p + 1, p + n)
        /\ SubSeq(s(q), n + 1, Len(s(q))) = SubSeq(f, p + n + 1, q)
    <3> DEFINE m == p + n
    <3>1. m \in Nat /\ p <= m /\ m <= q /\ q \in Nat /\ q <= Len(f) /\ m - p = n
      BY <1>1, <1>2, <1>6
    <3> HIDE DEF m
    <3>2. /\ SubSeq(s(q), 1, m - p) = SubSeq(f, p + 1, m)
          /\ SubSeq(s(q), m - p + 1, Len(s(q))) = SubSeq(f, m + 1, q)
      BY <1>3, <3>1, TwoSlices DEF s
    <3> QED
      BY <3>1, <3>2 DEF m
  <2>3. Collected(t, s(q)) = Full(f, p, t)
    <3>1. n - n = 0
      BY <1>2
    <3> QED
      BY <2>1, <2>2, <3>1 DEF Collected, Full, n
  <2>4. Left(t, s(q)) = SubSeq(f, p + n + 1, q)
    BY <2>1, <2>2 DEF Left
  <2>5. Collected(t, s(q)).need = 0
    BY <1>2, <1>4, <2>1
  <2>6. After(t, s(q)) = u
    BY <2>3, <2>5 DEF After
  <2> QED
    BY <1>4, <2>4, <2>6
<1>7. \A q \in 0 .. p + n - 1 : Saw(f, q).phase # "finished"
  <2> TAKE q \in 0 .. p + n - 1
  <2>1. q \in 0 .. p - 1 \/ q = p \/ (q \in p + 1 .. Len(f) /\ q < p + n)
    BY <1>1, <1>2, <1>3
  <2> QED
    BY <1>1, <1>5, <2>1
<1>8. \A q \in p + n + 1 .. Len(f) : Saw(f, q) = Frame!Observe(u, SubSeq(f, p + n + 1, q))
  <2> TAKE q \in p + n + 1 .. Len(f)
  <2>1. q \in p + 1 .. Len(f) /\ q >= p + n
    BY <1>1, <1>2
  <2> QED
    BY <1>6, <2>1
<1>9. Saw(f, p + n).phase = "finished" <=> u.phase = "finished"
  <2>1. CASE n = 0
    <3>1. p + n = p
      BY <1>3, <2>1
    <3> QED
      BY <1>1, <2>1, <3>1 DEF n
  <2>2. CASE n # 0
    <3> DEFINE q == p + n
    <3>1. q \in p + 1 .. Len(f) /\ q >= p + n /\ q < p + n + 1 /\ p + n + 1 \in Int /\ q \in Int
      BY <1>1, <1>2, <1>3, <2>2
    <3>2. Saw(f, q) = Frame!Observe(u, SubSeq(f, p + n + 1, q))
      BY <1>6, <3>1
    <3>3. SubSeq(f, p + n + 1, q) = << >>
      BY <3>1, SubSeqEmpty
    <3>4. Frame!Observe(u, << >>) = u
      BY <1>2, EmptySeq, ObserveIs
    <3> QED
      BY <3>2, <3>3, <3>4
  <2> QED
    BY <2>1, <2>2
<1>10. Reaches(f, p + n, u)
  BY <1>2, <1>3, <1>7, <1>8, <1>9 DEF Reaches
<1> QED
  BY <1>10 DEF n

LEMMA PhaseIs ==
  ASSUME NEW t \in AnyTracker, NEW phase \in Phases, NEW need \in Nat
  PROVE  LET u == Frame!Phase(t, phase, need) IN
           /\ u \in AnyTracker /\ u.phase = phase /\ u.need = need /\ u.held = << >>
           /\ u.block_checksum = t.block_checksum /\ u.content_checksum = t.content_checksum
BY EmptySeq DEF Frame!Phase, AnyTracker

(* The tracker is at p, in a phase behind the header with all its bytes to come. *)
Arrives(f, p, phase, need, bc, cc) ==
  \E t : /\ Reaches(f, p, t)
         /\ t.phase = phase /\ t.need = need /\ t.held = << >>
         /\ t.block_checksum = bc /\ t.content_checksum = cc

(* How the tracker goes from one phase to the next. *)
LEMMA PhaseStage ==
  ASSUME NEW f \in Seq(Byte8), NEW p, NEW a, NEW n, NEW bc \in BOOLEAN, NEW cc \in BOOLEAN,
         Arrives(f, p, a, n, bc, cc), p + n <= Len(f),
         NEW w, w = SubSeq(f, p + 1, p + n),
         NEW b \in Phases, NEW m \in Nat, b = "finished" => n # 0,
         \/ a = "block_header" /\ ~Frame!IsEndMark(w) /\ b = "payload" /\ m = Frame!BlockLength(w)
         \/ a = "block_header" /\ Frame!IsEndMark(w) /\ cc /\ b = "content_checksum" /\ m = 4
         \/ a = "block_header" /\ Frame!IsEndMark(w) /\ ~cc /\ b = "finished" /\ m = 0
         \/ a = "payload" /\ bc /\ b = "block_checksum" /\ m = 4
         \/ a = "payload" /\ ~bc /\ b = "block_header" /\ m = 4
         \/ a = "block_checksum" /\ b = "block_header" /\ m = 4
         \/ a = "content_checksum" /\ b = "finished" /\ m = 0
  PROVE  Arrives(f, p + n, b, m, bc, cc)
<1>1. PICK t : /\ Reaches(f, p, t)
               /\ t.phase = a /\ t.need = n /\ t.held = << >>
               /\ t.block_checksum = bc /\ t.content_checksum = cc
  BY DEF Arrives
<1>2. p \in Nat /\ t \in AnyTracker /\ n \in Nat
  BY <1>1, TrackersAre DEF Reaches, AnyTracker
<1>3. w \in Seq(Byte8) /\ << >> \o w = w
  <2>1. p <= p + n /\ p + n \in Nat
    BY <1>2
  <2>2. w \in Seq(Byte8)
    BY <1>2, <2>1, TwoSlices
  <2> QED
    BY <2>2, ConcatEmptySeq
<1> DEFINE u == Full(f, p, t)
<1>4. /\ u \in AnyTracker /\ u.phase = a /\ u.held = w
      /\ u.block_checksum = bc /\ u.content_checksum = cc
  <2>1. u = [t EXCEPT !.need = 0, !.held = << >> \o w]
    BY <1>1 DEF Full
  <2>2. u = [t EXCEPT !.need = 0, !.held = w]
    BY <1>3, <2>1
  <2> HIDE DEF u
  <2> QED
    BY <1>1, <1>2, <1>3, <2>2 DEF AnyTracker
<1> HIDE DEF u
<1>5. Frame!NextPhase(u) = Frame!Phase(u, b, m)
  BY <1>4 DEF Frame!NextPhase
<1> DEFINE v == Frame!Phase(u, b, m)
<1>6. /\ v.phase = b /\ v.need = m /\ v.held = << >>
      /\ v.block_checksum = bc /\ v.content_checksum = cc
  BY <1>4, PhaseIs
<1>7. v = Frame!NextPhase(Full(f, p, t))
  BY <1>5 DEF u
<1> HIDE DEF v
<1>8. t.phase # "finished" /\ p + t.need <= Len(f) /\ (t.need = 0 => v.phase # "finished")
  BY <1>1, <1>6
<1>9. Reaches(f, p + t.need, v)
  BY <1>1, <1>7, <1>8, Stage
<1> QED
  BY <1>1, <1>6, <1>9 DEF Arrives

(* The header is read in two turns: its length is known after the first. *)
LEMMA HeaderStages ==
  ASSUME NEW f \in Seq(Byte8), NEW bc, NEW cc, bc = Frame!Bit(f[5], 16), cc = Frame!Bit(f[5], 4),
         NEW opt, opt = Frame!Optional(f[5]), 6 + opt <= Len(f)
  PROVE  Arrives(f, 6 + opt, "block_header", 4, bc, cc)
<1> DEFINE t == Frame!NewTracker
<1> DEFINE w == SubSeq(f, 1, 6)
<1>1. opt \in Nat \ {0} /\ bc \in BOOLEAN /\ cc \in BOOLEAN /\ Len(f) \in Nat
  BY OptionalTyped DEF Frame!Bit
<1>2. w \in Seq(Byte8) /\ Len(w) = 6 /\ w[5] = f[5]
  <2>1. 6 <= Len(f)
    BY <1>1
  <2> QED
    BY <2>1, SubSeqProperties
<1>3. t.phase = "header" /\ t.need = 6 /\ t.held = << >> /\ t \in AnyTracker
  BY NewTrackerTyped, TrackersAre DEF Frame!NewTracker
<1> HIDE DEF t
<1> DEFINE u == Full(f, 0, t)
<1>4. u \in AnyTracker /\ u.phase = "header" /\ u.held = w
  <2>1. u = [t EXCEPT !.need = 0, !.held = << >> \o w]
    BY <1>3 DEF Full
  <2>2. u = [t EXCEPT !.need = 0, !.held = w]
    BY <1>2, <2>1, ConcatEmptySeq
  <2> HIDE DEF u, w
  <2> QED
    BY <1>2, <1>3, <2>2 DEF AnyTracker
<1> HIDE DEF u, w
<1> DEFINE v == Frame!NextPhase(u)
<1>5. Len(u.held) = 6 /\ u.held[5] = f[5]
  BY <1>2, <1>4
<1>6. v = [u EXCEPT !.need = opt, !.block_checksum = bc, !.content_checksum = cc]
  BY <1>4, <1>5 DEF Frame!NextPhase
<1>7. /\ v \in AnyTracker /\ v.phase = "header" /\ v.need = opt /\ v.held = w
      /\ v.block_checksum = bc /\ v.content_checksum = cc
  <2> HIDE DEF v
  <2> QED
    BY <1>1, <1>4, <1>6 DEF AnyTracker
<1>8. Reaches(f, 6, v)
  <2>1. 0 + t.need <= Len(f) /\ t.need # 0 /\ t.phase # "finished" /\ 0 + t.need = 6
    BY <1>1, <1>3
  <2>2. Reaches(f, 0, t)
    BY ReachesStart DEF t
  <2>3. v = Frame!NextPhase(Full(f, 0, t))
    BY DEF u
  <2> HIDE DEF v
  <2>4. Reaches(f, 0 + t.need, v)
    BY <2>1, <2>2, <2>3, Stage
  <2> QED
    BY <2>1, <2>4
<1> HIDE DEF v
<1> DEFINE rest == SubSeq(f, 6 + 1, 6 + opt)
<1> DEFINE all == w \o rest
<1>9. rest \in Seq(Byte8) /\ Len(rest) = opt
  <2>1. 6 \in Nat /\ 6 + opt \in Nat /\ 6 <= 6 + opt /\ (6 + opt) - 6 = opt
    BY <1>1
  <2> QED
    BY <2>1, TwoSlices
<1>10. 6 + v.need <= Len(f) /\ rest = SubSeq(f, 6 + 1, 6 + v.need) /\ 6 \in Nat
  BY <1>7
<1> HIDE DEF rest
<1>11. all \in Seq(Byte8) /\ Len(all) = 6 + opt
  <2>1. w \in Seq(Byte8) /\ Len(w) = 6
    BY <1>2 DEF w
  <2>2. Len(all) = Len(w) + Len(rest) /\ all \in Seq(Byte8)
    BY <1>9, <2>1, ConcatProperties
  <2> QED
    BY <1>9, <2>1, <2>2
<1>12. Len(all) # 6 /\ all = w \o rest
  BY <1>1, <1>11
<1> HIDE DEF all
<1> DEFINE x == Full(f, 6, v)
<1>13. /\ x \in AnyTracker /\ x.phase = "header" /\ x.held = all
       /\ x.block_checksum = bc /\ x.content_checksum = cc
  <2>1. x = [v EXCEPT !.need = 0, !.held = w \o rest]
    BY <1>7, <1>10 DEF Full
  <2>2. x = [v EXCEPT !.need = 0, !.held = all]
    BY <1>12, <2>1
  <2> HIDE DEF x
  <2> QED
    BY <1>7, <1>11, <2>2 DEF AnyTracker
<1> HIDE DEF x
<1>14. Len(x.held) # 6
  BY <1>12, <1>13
<1> DEFINE y == Frame!Phase(x, "block_header", 4)
<1>15. Frame!NextPhase(x) = y
  BY <1>13, <1>14 DEF Frame!NextPhase
<1>16. /\ y.phase = "block_header" /\ y.need = 4 /\ y.held = << >>
       /\ y.block_checksum = bc /\ y.content_checksum = cc
  BY <1>13, PhaseIs DEF Phases
<1>17. y = Frame!NextPhase(Full(f, 6, v))
  BY <1>15 DEF x
<1> HIDE DEF y
<1>18. Reaches(f, 6 + v.need, y)
  BY <1>1, <1>7, <1>8, <1>10, <1>17, Stage
<1> QED
  BY <1>7, <1>16, <1>18 DEF Arrives

(* From one block to the next. *)
LEMMA BlockStages ==
  ASSUME NEW f \in Seq(Byte8), NEW p \in Nat, NEW bc \in BOOLEAN, NEW cc \in BOOLEAN,
         Arrives(f, p, "block_header", 4, bc, cc), p + 4 <= Len(f),
         NEW w, w = SubSeq(f, p + 1, p + 4), ~Frame!IsEndMark(w),
         NEW q \in Nat, q = p + 4 + Frame!BlockLength(w) + (IF bc THEN 4 ELSE 0), q <= Len(f)
  PROVE  Arrives(f, q, "block_header", 4, bc, cc)
<1> DEFINE m == Frame!BlockLength(w)
<1>1. /\ Len(f) \in Nat
      /\ "block_header" \in Phases /\ "payload" \in Phases /\ "block_checksum" \in Phases
  BY DEF Phases
<1>2. m \in Nat
  <2>1. p + 4 \in Nat /\ p <= p + 4 /\ (p + 4) - p = 4
    OBVIOUS
  <2>2. w \in Seq(Byte8) /\ Len(w) = 4
    BY <2>1, TwoSlices
  <2> QED
    BY <2>2, BlockLengthTyped
<1>3. m = Frame!BlockLength(w) /\ q = p + 4 + m + (IF bc THEN 4 ELSE 0)
  OBVIOUS
<1> HIDE DEF m
<1>4. Arrives(f, p + 4, "payload", m, bc, cc)
  BY <1>1, <1>2, <1>3, PhaseStage
<1> DEFINE r == p + 4 + m
<1>5. r \in Nat /\ r <= Len(f)
  BY <1>1, <1>2, <1>3
<1>6. CASE ~bc
  <2>1. Arrives(f, (p + 4) + m, "block_header", 4, bc, cc)
    BY <1>1, <1>4, <1>5, <1>6, PhaseStage
  <2>2. (p + 4) + m = q
    BY <1>2, <1>3, <1>6
  <2> QED
    BY <2>1, <2>2
<1>7. CASE bc
  <2>1. Arrives(f, (p + 4) + m, "block_checksum", 4, bc, cc)
    BY <1>1, <1>4, <1>5, <1>7, PhaseStage
  <2>2. r = (p + 4) + m /\ q = r + 4
    BY <1>2, <1>3, <1>7
  <2> DEFINE v == SubSeq(f, r + 1, r + 4)
  <2> HIDE DEF r
  <2>3. /\ v = SubSeq(f, r + 1, r + 4) /\ r + 4 <= Len(f)
        /\ Arrives(f, r, "block_checksum", 4, bc, cc) /\ 4 \in Nat
    BY <2>1, <2>2
  <2> HIDE DEF v
  <2>4. Arrives(f, r + 4, "block_header", 4, bc, cc)
    BY <1>1, <2>3, PhaseStage
  <2> QED
    BY <2>2, <2>4
<1> QED
  BY <1>6, <1>7

(* The end mark, and the frame's checksum. *)
LEMMA EndStages ==
  ASSUME NEW f \in Seq(Byte8), NEW p \in Nat, NEW bc \in BOOLEAN, NEW cc \in BOOLEAN,
         Arrives(f, p, "block_header", 4, bc, cc),
         NEW w, w = SubSeq(f, p + 1, p + 4), Frame!IsEndMark(w),
         Len(f) = p + 4 + (IF cc THEN 4 ELSE 0)
  PROVE  Arrives(f, Len(f), "finished", 0, bc, cc)
<1>1. "finished" \in Phases /\ "content_checksum" \in Phases /\ p + 4 <= Len(f)
  BY DEF Phases
<1>2. CASE ~cc
  <2>1. 0 \in Nat /\ ("finished" = "finished" => 4 # 0)
    OBVIOUS
  <2>2. Arrives(f, p + 4, "finished", 0, bc, cc)
    BY <1>1, <1>2, <2>1, PhaseStage
  <2>3. p + 4 = Len(f)
    BY <1>2
  <2> QED
    BY <2>2, <2>3
<1>3. CASE cc
  <2>1. Arrives(f, p + 4, "content_checksum", 4, bc, cc)
    BY <1>1, <1>3, PhaseStage
  <2> DEFINE r == p + 4
  <2> DEFINE v == SubSeq(f, r + 1, r + 4)
  <2>2. r + 4 = Len(f) /\ r + 4 <= Len(f) /\ v = SubSeq(f, r + 1, r + 4) /\ 0 \in Nat /\ 4 # 0
    BY <1>3
  <2>3. Arrives(f, r, "content_checksum", 4, bc, cc)
    BY <2>1
  <2> HIDE DEF r, v
  <2>4. Arrives(f, r + 4, "finished", 0, bc, cc)
    BY <1>1, <2>2, <2>3, PhaseStage
  <2> QED
    BY <2>2, <2>4
<1> QED
  BY <1>2, <1>3

(* The tracker has finished with the last byte of the frame and with none before it. *)
LEMMA FrameEnds ==
  ASSUME NEW f \in Seq(Byte8), NEW blocks, Frame!IsLz4Frame(f, blocks)
  PROVE  \A q \in 0 .. Len(f) : Saw(f, q).phase = "finished" <=> q = Len(f)
<1> DEFINE last == Len(blocks)
<1> DEFINE bc == Frame!Bit(f[5], 16)
<1> DEFINE cc == Frame!Bit(f[5], 4)
<1> DEFINE opt == Frame!Optional(f[5])
<1> DEFINE word(k) == SubSeq(f, blocks[k] + 1, blocks[k] + 4)
<1>1. /\ last > 0 /\ blocks \in Seq(0 .. Len(f) - 4)
      /\ blocks[1] = 6 + opt
      /\ \A k \in 1 .. last - 1 :
           /\ ~Frame!IsEndMark(word(k))
           /\ blocks[k + 1] = blocks[k] + 4 + Frame!BlockLength(word(k)) + (IF bc THEN 4 ELSE 0)
      /\ Frame!IsEndMark(word(last))
      /\ Len(f) = blocks[last] + 4 + (IF cc THEN 4 ELSE 0)
  BY DEF Frame!IsLz4Frame
<1>2. bc \in BOOLEAN /\ cc \in BOOLEAN /\ Len(f) \in Nat /\ last \in Nat \ {0}
  BY <1>1 DEF Frame!Bit
<1>3. bc = Frame!Bit(f[5], 16) /\ cc = Frame!Bit(f[5], 4) /\ opt = Frame!Optional(f[5])
  OBVIOUS
<1>4. \A k \in 1 .. last : blocks[k] \in Nat /\ blocks[k] + 4 <= Len(f)
  <2> TAKE k \in 1 .. last
  <2>1. blocks[k] \in 0 .. Len(f) - 4
    BY <1>1, ElementOfSeq
  <2> QED
    BY <1>2, <2>1
<1> HIDE DEF bc, cc, opt
<1> DEFINE S == {k \in Nat : k + 1 <= last => Arrives(f, blocks[k + 1], "block_header", 4, bc, cc)}
<1>5. 0 \in S
  <2>1. 6 + opt <= Len(f) /\ 0 + 1 = 1
    BY <1>1, <1>2, <1>4
  <2>2. Arrives(f, 6 + opt, "block_header", 4, bc, cc)
    BY <1>3, <2>1, HeaderStages
  <2> QED
    BY <1>1, <2>1, <2>2
<1>6. ASSUME NEW k \in Nat, k \in S PROVE k + 1 \in S
  <2> SUFFICES ASSUME (k + 1) + 1 <= last PROVE Arrives(f, blocks[(k + 1) + 1], "block_header", 4, bc, cc)
    OBVIOUS
  <2> DEFINE i == k + 1
  <2>1. i \in 1 .. last - 1 /\ i \in 1 .. last /\ i + 1 \in 1 .. last /\ i + 1 = (k + 1) + 1
    BY <1>2
  <2>2. Arrives(f, blocks[i], "block_header", 4, bc, cc)
    BY <1>2, <1>6
  <2> HIDE DEF i
  <2> DEFINE p == blocks[i]
  <2> DEFINE q == blocks[i + 1]
  <2> DEFINE w == word(i)
  <2>3. /\ p \in Nat /\ p + 4 <= Len(f) /\ q \in Nat /\ q <= Len(f)
        /\ w = SubSeq(f, p + 1, p + 4) /\ ~Frame!IsEndMark(w)
        /\ q = p + 4 + Frame!BlockLength(w) + (IF bc THEN 4 ELSE 0)
    BY <1>1, <1>2, <1>4, <2>1
  <2>4. Arrives(f, p, "block_header", 4, bc, cc)
    BY <2>2
  <2> HIDE DEF p, q, w, word
  <2>5. Arrives(f, q, "block_header", 4, bc, cc)
    BY <1>2, <2>3, <2>4, BlockStages
  <2> QED
    BY <2>1, <2>5 DEF q
<1> HIDE DEF S
<1>7. Nat \subseteq S
  BY <1>5, <1>6, Induction
<1>8. Arrives(f, blocks[last], "block_header", 4, bc, cc)
  <2>1. last - 1 \in S /\ (last - 1) + 1 = last
    BY <1>2, <1>7
  <2> QED
    BY <2>1 DEF S
<1>9. Arrives(f, Len(f), "finished", 0, bc, cc)
  <2> DEFINE p == blocks[last]
  <2> DEFINE w == word(last)
  <2>1. /\ p \in Nat /\ w = SubSeq(f, p + 1, p + 4) /\ Frame!IsEndMark(w)
        /\ Len(f) = p + 4 + (IF cc THEN 4 ELSE 0) /\ Arrives(f, p, "block_header", 4, bc, cc)
    BY <1>1, <1>2, <1>4, <1>8
  <2> HIDE DEF p, w
  <2> QED
    BY <1>2, <2>1, EndStages
<1>10. PICK t : Reaches(f, Len(f), t) /\ t.phase = "finished"
  BY <1>9 DEF Arrives
<1>11. /\ \A q \in 0 .. Len(f) - 1 : Saw(f, q).phase # "finished"
       /\ Saw(f, Len(f)).phase = "finished"
  BY <1>10 DEF Reaches
<1> QED
  BY <1>2, <1>11

(* The first n bytes of the source: those of the frame, then some of what follows it. *)
Padded(f, n) == [i \in 1 .. n |-> IF i <= Len(f) THEN f[i] ELSE 0]

FrameTypes ==
  /\ entry \in FrameEntries
  /\ taken \in 0 .. entry.length
  /\ faults \in Nat
  /\ stream_end \in BOOLEAN /\ broken \in BOOLEAN /\ faulted \in BOOLEAN
  /\ failing \in BOOLEAN /\ source_error \in BOOLEAN
  /\ pc \in {"idle", "initialize", "decode", "finish"}

(* However the input was cut, the tracker is what all of it at once makes of it. *)
TrackerKnows ==
  entry.algorithm = "lz4" => tracker = Frame!Observe(Frame!NewTracker, Padded(entry.frame, taken))

Refused == ~Frame!Whole \/ Frame!Followed
Complete == Frame!Whole /\ ~Frame!Followed /\ Len(exposed) = Len(entry.at)

(* What the codec has done when it says Ok(0) without having failed. *)
Stopped ==
  /\ Len(exposed) = Frame!Decodable
  /\ \/ taken = Len(entry.frame) /\ ~entry.corrupt
     \/ Frame!AtEnd /\ taken < Len(entry.frame)

(* A codec fails only in a read that fails, or where the entry is no good; the cell
   holds an error exactly while a read is running in which the source failed.       *)
FrameInv ==
  /\ FrameTypes /\ TrackerKnows
  /\ ~broken => taken <= Len(entry.frame)
  /\ broken => faulted \/ (failing /\ pc # "idle")
  /\ (broken \/ state = "failed" \/ answer = "failed") /\ faults = 0 => Refused
  /\ failing => faults > 0 /\ (pc # "idle" => broken)
  /\ pc # "idle" => source_error = failing /\ ~stream_end
  /\ pc = "finish" => /\ entry.algorithm = "lz4"
                      /\ failing => Frame!IsFinished
                      /\ ~broken => Stopped
  /\ pc = "idle" => /\ ~source_error
                    /\ answer \in {"io", "failed"} => (answer = "io") = failing
  /\ (stream_end \/ answer = "end") /\ ~faulted => Complete


LEMMA FrameEntryTypes ==
  ASSUME NEW e \in FrameEntries
  PROVE  /\ e.frame \in Seq(Byte8) /\ Len(e.frame) \in Nat \ {0} /\ e.length \in Nat /\ e.corrupt \in BOOLEAN
         /\ e.algorithm = "lz4" => Frame!IsLz4Frame(e.frame, e.blocks)
         /\ e.at \in Seq(1 .. Len(e.frame))
BY BackendAssumption DEF Frame!FrameConstants, Byte8

(* k bytes of the source, behind the first n. *)
Following(f, n, k) == [i \in 1 .. k |-> IF n + i <= Len(f) THEN f[n + i] ELSE 0]

LEMMA PaddedTyped ==
  ASSUME NEW f \in Seq(Byte8), NEW n \in Nat, NEW k \in Nat
  PROVE  /\ Padded(f, n) \in Seq(Byte8) /\ Len(Padded(f, n)) = n
         /\ Following(f, n, k) \in Seq(Byte8) /\ Len(Following(f, n, k)) = k
<1>1. 0 \in Byte8 /\ Len(f) \in Nat /\ \A i \in 1 .. Len(f) : f[i] \in Byte8
  BY ElementOfSeq DEF Byte8
<1>2. \A i \in 1 .. n : (IF i <= Len(f) THEN f[i] ELSE 0) \in Byte8
  BY <1>1
<1>3. \A i \in 1 .. k : (IF n + i <= Len(f) THEN f[n + i] ELSE 0) \in Byte8
  <2> TAKE i \in 1 .. k
  <2>1. n + i <= Len(f) => n + i \in 1 .. Len(f)
    BY <1>1
  <2> QED
    BY <1>1, <2>1
<1>4. Padded(f, n) \in Seq(Byte8) /\ Len(Padded(f, n)) = n
  BY <1>2, IsASeq DEF Padded
<1>5. Following(f, n, k) \in Seq(Byte8) /\ Len(Following(f, n, k)) = k
  BY <1>3, IsASeq DEF Following
<1> QED
  BY <1>4, <1>5

LEMMA PaddedGrows ==
  ASSUME NEW f \in Seq(Byte8), NEW n \in Nat, NEW k \in Nat
  PROVE  Padded(f, n + k) = Padded(f, n) \o Following(f, n, k)
<1> DEFINE a == Padded(f, n)
<1> DEFINE all == Padded(f, n + k)
<1> DEFINE more == Following(f, n, k)
<1>1. Len(f) \in Nat /\ n + k \in Nat
  OBVIOUS
<1>3. more \in Seq(Byte8) /\ Len(more) = k
  BY PaddedTyped
<1>4. a \in Seq(Byte8) /\ Len(a) = n /\ all \in Seq(Byte8) /\ Len(all) = n + k
  BY <1>1, PaddedTyped
<1>5. /\ \A i \in 1 .. n : a[i] = IF i <= Len(f) THEN f[i] ELSE 0
      /\ \A i \in 1 .. n + k : all[i] = IF i <= Len(f) THEN f[i] ELSE 0
      /\ \A i \in 1 .. k : more[i] = IF n + i <= Len(f) THEN f[n + i] ELSE 0
  BY DEF Padded, Following
<1> HIDE DEF a, all, more
<1>6. /\ a \o more \in Seq(Byte8) /\ Len(a \o more) = n + k
      /\ \A i \in 1 .. n + k : (a \o more)[i] = IF i <= n THEN a[i] ELSE more[i - n]
  BY <1>3, <1>4, ConcatProperties
<1> DEFINE b == a \o more
<1>7. \A i \in 1 .. n + k : b[i] = all[i]
  <2> SUFFICES ASSUME NEW i \in 1 .. n + k PROVE b[i] = all[i]
    OBVIOUS
  <2>1. CASE i <= n
    <3>1. i \in 1 .. n /\ b[i] = a[i]
      BY <1>6, <2>1
    <3> HIDE DEF b
    <3> QED
      BY <1>5, <3>1
  <2>2. CASE i > n
    <3>1. i - n \in 1 .. k /\ n + (i - n) = i
      BY <2>2
    <3>2. more[i - n] = IF n + (i - n) <= Len(f) THEN f[n + (i - n)] ELSE 0
      BY <1>5, <3>1
    <3>3. b[i] = more[i - n]
      BY <1>6, <2>2
    <3> HIDE DEF b
    <3> QED
      BY <1>5, <3>1, <3>2, <3>3
  <2>3. i <= n \/ i > n
    OBVIOUS
  <2> HIDE DEF b
  <2> QED
    BY <2>1, <2>2, <2>3
<1> HIDE DEF b
<1>8. b = all
  BY <1>4, <1>6, <1>7, SeqEqual DEF b
<1> QED
  BY <1>8 DEF a, b, all, more

LEMMA PaddedIsPrefix ==
  ASSUME NEW f \in Seq(Byte8), NEW n \in 0 .. Len(f)
  PROVE  Padded(f, n) = SubSeq(f, 1, n)
<1> DEFINE a == Padded(f, n)
<1> DEFINE b == SubSeq(f, 1, n)
<1>1. a \in Seq(Byte8) /\ Len(a) = n
  BY PaddedTyped
<1>2. b \in Seq(Byte8) /\ Len(b) = n /\ \A i \in 1 .. n : b[i] = f[i]
  BY SubSeqProperties
<1>3. \A i \in 1 .. n : a[i] = f[i]
  BY DEF Padded
<1> HIDE DEF a, b
<1>4. a = b
  BY <1>1, <1>2, <1>3, SeqEqual
<1> QED
  BY <1>4 DEF a, b

(* The tracker knows the frame's end exactly, whatever the slices. *)
LEMMA TrackerIsExact ==
  ASSUME NEW f \in Seq(Byte8), NEW blocks, Frame!IsLz4Frame(f, blocks), NEW n \in Nat
  PROVE  Frame!Observe(Frame!NewTracker, Padded(f, n)).phase = "finished" <=> n >= Len(f)
<1>1. Len(f) \in Nat
  OBVIOUS
<1>2. CASE n <= Len(f)
  <2>1. n \in 0 .. Len(f)
    BY <1>1, <1>2
  <2>2. Saw(f, n) = Frame!Observe(Frame!NewTracker, Padded(f, n))
    BY <2>1, PaddedIsPrefix DEF Saw
  <2> QED
    BY <1>2, <2>1, <2>2, FrameEnds
<1>3. CASE n > Len(f)
  <2> DEFINE k == n - Len(f)
  <2> DEFINE m == Len(f)
  <2> DEFINE more == Following(f, m, k)
  <2>1. k \in Nat /\ m \in Nat /\ m + k = n /\ m \in 0 .. Len(f)
    BY <1>3
  <2>3. m = Len(f)
    OBVIOUS
  <2> HIDE DEF k, m
  <2>4. more \in Seq(Byte8) /\ Padded(f, m + k) = Padded(f, m) \o more
    BY <2>1, PaddedGrows, PaddedTyped
  <2> HIDE DEF more
  <2> DEFINE t == Frame!Observe(Frame!NewTracker, Padded(f, m))
  <2>5. Padded(f, m) \in Seq(Byte8)
    BY <2>1, PaddedTyped
  <2>6. t \in Frame!Trackers
    BY <2>5, NewTrackerTyped, ObserveTyped
  <2>7. t.phase = "finished"
    <3>1. Saw(f, m) = t
      BY <2>1, PaddedIsPrefix DEF Saw
    <3> QED
      BY <2>1, <2>3, <3>1, FrameEnds
  <2>8. Frame!Observe(Frame!NewTracker, Padded(f, m) \o more) = Frame!Observe(t, more)
    BY <2>4, <2>5, NewTrackerTyped, SlicesDoNotMatter
  <2> HIDE DEF t
  <2>9. Frame!Observe(t, more) = t
    BY <2>4, <2>6, <2>7, ObserveIs
  <2>10. Frame!Observe(Frame!NewTracker, Padded(f, n)) = t
    BY <2>1, <2>4, <2>8, <2>9
  <2> QED
    BY <1>1, <1>3, <2>7, <2>10
<1> QED
  BY <1>1, <1>2, <1>3

LEMMA FinishedIsWhole ==
  ASSUME FrameInv, entry.algorithm = "lz4"
  PROVE  /\ Frame!IsFinished = (taken >= Len(entry.frame))
         /\ Frame!IsFinished <=> taken >= Len(entry.frame)
<1>1. /\ entry.frame \in Seq(Byte8) /\ Frame!IsLz4Frame(entry.frame, entry.blocks) /\ taken \in Nat
      /\ tracker = Frame!Observe(Frame!NewTracker, Padded(entry.frame, taken))
  BY FrameEntryTypes DEF FrameInv, FrameTypes, TrackerKnows
<1> DEFINE f == entry.frame
<1> DEFINE blocks == entry.blocks
<1>2. /\ f \in Seq(Byte8) /\ Frame!IsLz4Frame(f, blocks)
      /\ tracker = Frame!Observe(Frame!NewTracker, Padded(f, taken))
  BY <1>1
<1> HIDE DEF f, blocks
<1>3. tracker.phase = "finished" <=> taken >= Len(f)
  BY <1>1, <1>2, TrackerIsExact
<1> QED
  BY <1>3 DEF Frame!IsFinished, f

(* Reading on keeps what the tracker knows. *)
LEMMA TrackerLearns ==
  ASSUME FrameInv, entry.algorithm = "lz4", NEW n \in Nat
  PROVE  Frame!Observe(tracker, Frame!Supplied(n)) = Frame!Observe(Frame!NewTracker, Padded(entry.frame, taken + n))
<1> DEFINE f == entry.frame
<1> DEFINE more == Frame!Supplied(n)
<1>1. /\ f \in Seq(Byte8) /\ taken \in Nat
      /\ tracker = Frame!Observe(Frame!NewTracker, Padded(f, taken))
  BY FrameEntryTypes DEF FrameInv, FrameTypes, TrackerKnows
<1>2. more = Following(f, taken, n)
  BY DEF Frame!Supplied, Following
<1> HIDE DEF f, more
<1>3. more \in Seq(Byte8) /\ Padded(f, taken + n) = Padded(f, taken) \o more
  BY <1>1, <1>2, PaddedGrows, PaddedTyped
<1>4. Padded(f, taken) \in Seq(Byte8)
  BY <1>1, PaddedTyped
<1>5. Frame!Observe(tracker, more) = Frame!Observe(Frame!NewTracker, Padded(f, taken) \o more)
  BY <1>1, <1>3, <1>4, NewTrackerTyped, SlicesDoNotMatter
<1> QED
  BY <1>3, <1>5 DEF f, more

LEMMA SameCount == ASSUME NEW S PROVE Frame!Cardinality(S) = Cardinality(S)
BY DEF Frame!Cardinality, Cardinality

LEMMA DecodableAll ==
  ASSUME FrameInv, taken >= Len(entry.frame)
  PROVE  Frame!Decodable = Len(entry.at)
<1> DEFINE n == Len(entry.at)
<1>1. entry.at \in Seq(1 .. Len(entry.frame)) /\ Len(entry.frame) \in Nat /\ taken \in Nat
  BY FrameEntryTypes DEF FrameInv, FrameTypes
<1>2. n \in Nat /\ DOMAIN entry.at = 1 .. n
  BY <1>1
<1>3. \A i \in 1 .. n : entry.at[i] <= taken
  <2> TAKE i \in 1 .. n
  <2>1. entry.at[i] \in 1 .. Len(entry.frame)
    BY <1>1, <1>2
  <2> QED
    BY <1>1, <2>1
<1>4. {i \in DOMAIN entry.at : entry.at[i] <= taken} = 1 .. n
  BY <1>2, <1>3
<1> HIDE DEF n
<1>5. Cardinality(1 .. n) = n
  <2>1. 1 \in Int /\ n \in Int /\ (1 > n => n = 0)
    BY <1>2
  <2>2. Cardinality(1 .. n) = IF 1 > n THEN 0 ELSE n - 1 + 1
    BY <2>1, FS_Interval
  <2> QED
    BY <1>2, <2>1, <2>2
<1> DEFINE S == {i \in DOMAIN entry.at : entry.at[i] <= taken}
<1>6. Frame!Decodable = Cardinality(S)
  BY SameCount DEF Frame!Decodable
<1>7. S = 1 .. n
  BY <1>4
<1> HIDE DEF S
<1> QED
  BY <1>5, <1>6, <1>7 DEF n

(* What the actions tell apart of an entry. *)
LEMMA FrameFacts ==
  ASSUME FrameInv
  PROVE  /\ entry \in FrameEntries
         /\ taken \in Nat /\ taken <= entry.length /\ entry.length \in Nat /\ Len(entry.frame) \in Nat \ {0}
         /\ entry.corrupt \in BOOLEAN /\ faults \in Nat
         /\ stream_end \in BOOLEAN /\ broken \in BOOLEAN /\ faulted \in BOOLEAN
         /\ failing \in BOOLEAN /\ source_error \in BOOLEAN
         /\ pc \in {"idle", "initialize", "decode", "finish"}
         /\ Refused <=> entry.length < Len(entry.frame) \/ entry.corrupt
                          \/ (entry.algorithm = "lz4" /\ entry.length > Len(entry.frame))
         /\ Complete <=> ~Refused /\ Len(exposed) = Len(entry.at)
  BY FrameEntryTypes DEF FrameInv, FrameTypes, Refused, Complete, Frame!Whole, Frame!Followed

LEMMA FrameStays ==
  ASSUME entry' = entry
  PROVE  /\ Refused' = Refused
         /\ exposed' = exposed => Complete' = Complete
         /\ taken' = taken /\ tracker' = tracker => (TrackerKnows' <=> TrackerKnows)
         /\ taken' = taken /\ exposed' = exposed => Stopped' = Stopped
         /\ tracker' = tracker => Frame!IsFinished' = Frame!IsFinished
  BY DEF Refused, Complete, TrackerKnows, Stopped, Frame!Whole, Frame!Followed, Frame!Decodable,
         Frame!AtEnd, Frame!IsFinished

(* A read that returns without reading. *)
LEMMA FrameReturns ==
  ASSUME FrameInv, Frame!Return(answer'),
         UNCHANGED <<entry, taken, tracker, stream_end, exposed, faults>>,
         source_error' = FALSE, failing' \in BOOLEAN, failing' => failing, broken' \in BOOLEAN,
         broken => broken', broken' => faulted \/ answer' \in {"io", "failed"},
         (broken' \/ state' = "failed" \/ answer' = "failed") /\ faults = 0 => Refused,
         answer' \in {"io", "failed"} => (answer' = "io") = failing',
         answer' = "end" /\ ~faulted => Complete
  PROVE  FrameInv'
<1>1. /\ pc' = "idle" /\ faulted' = (faulted \/ answer' \in {"io", "failed"})
  BY DEF Frame!Return
<1>a. faulted' \in BOOLEAN
  BY <1>1
<1>2. FrameTypes'
  BY <1>1, <1>a DEF FrameInv, FrameTypes
<1>3. TrackerKnows' /\ Refused' = Refused /\ Complete' = Complete
  BY FrameStays DEF FrameInv
<1>4. ~broken' => taken' <= Len(entry'.frame)
  BY DEF FrameInv
<1>5. broken' => faulted'
  BY <1>1 DEF FrameInv
<1>6. failing' => faults' > 0
  BY DEF FrameInv
<1>7. (stream_end' \/ answer' = "end") /\ ~faulted' => Complete'
  BY <1>1, <1>3 DEF FrameInv
<1> QED
  BY <1>1, <1>2, <1>3, <1>4, <1>5, <1>6, <1>7 DEF FrameInv

LEMMA FrameReads == FrameInv /\ (Frame!ReadNothing \/ Frame!ReadUnavailable) => FrameInv'
<1> SUFFICES ASSUME FrameInv, Frame!ReadNothing \/ Frame!ReadUnavailable PROVE FrameInv'
  OBVIOUS
<1>1. /\ pc = "idle" /\ failing' = FALSE
      /\ UNCHANGED <<entry, taken, tracker, source_error, state, stream_end, broken, exposed, faults>>
      /\ \/ Frame!Return("empty") \/ (stream_end /\ Frame!Return("end"))
         \/ state = "failed" /\ Frame!Return("failed")
  BY DEF Frame!ReadNothing, Frame!ReadUnavailable
<1>2. /\ Frame!Return(answer')
      /\ \/ answer' = "empty" \/ (stream_end /\ answer' = "end")
         \/ state = "failed" /\ answer' = "failed"
  BY <1>1 DEF Frame!Return
<1>3. /\ source_error = FALSE /\ source_error \in BOOLEAN /\ (broken => faulted)
      /\ (broken \/ state = "failed") /\ faults = 0 => Refused
      /\ stream_end /\ ~faulted => Complete
  BY <1>1, FrameFacts DEF FrameInv
<1> QED
  BY <1>1, <1>2, <1>3, FrameFacts, FrameReturns

LEMMA FrameRead == FrameInv /\ Frame!Read => FrameInv'
<1> SUFFICES ASSUME FrameInv, Frame!Read PROVE FrameInv'
  OBVIOUS
<1>1. /\ pc = "idle" /\ ~stream_end /\ pc' \in {"initialize", "decode"} /\ failing' = FALSE
      /\ UNCHANGED <<entry, taken, tracker, source_error, state, stream_end, broken, exposed, answer, faulted, faults>>
  BY DEF Frame!Read
<1>2. FrameTypes'
  BY <1>1 DEF FrameInv, FrameTypes
<1> QED
  BY <1>1, <1>2, FrameStays, FrameFacts DEF FrameInv

LEMMA FrameSourceGives == FrameInv /\ Frame!SourceGives => FrameInv'
<1> SUFFICES ASSUME FrameInv, Frame!SourceGives PROVE FrameInv'
  OBVIOUS
<1>1. PICK n \in Slices :
        /\ taken + n <= Frame!Wanted /\ taken' = taken + n
        /\ tracker' = IF entry.algorithm = "lz4" THEN Frame!Observe(tracker, Frame!Supplied(n)) ELSE tracker
  BY DEF Frame!SourceGives
<1>2. /\ pc \in {"initialize", "decode"}
      /\ UNCHANGED <<entry, state, stream_end, exposed, answer, faulted, failing, source_error, broken, pc, faults>>
  BY DEF Frame!SourceGives, Frame!callVars
<1>3. n \in Nat
  BY BackendAssumption DEF Frame!FrameConstants
<1>4. /\ taken' \in Nat /\ taken' <= entry.length
      /\ ~broken => taken' <= Len(entry.frame)
  BY <1>1, <1>3, FrameFacts DEF Frame!Wanted
<1>5. FrameTypes'
  <2>1. taken' \in 0 .. entry'.length
    BY <1>2, <1>4, FrameFacts
  <2> QED
    BY <1>2, <2>1 DEF FrameInv, FrameTypes
<1>6. TrackerKnows'
  BY <1>1, <1>2, <1>3, TrackerLearns DEF TrackerKnows
<1>7. Refused' = Refused /\ Complete' = Complete
  BY <1>2, FrameStays
<1> QED
  BY <1>2, <1>4, <1>5, <1>6, <1>7 DEF FrameInv

LEMMA FrameSourceFails == FrameInv /\ Frame!SourceFails => FrameInv'
<1> SUFFICES ASSUME FrameInv, Frame!SourceFails PROVE FrameInv'
  OBVIOUS
<1>1. /\ pc \in {"initialize", "decode"} \/ (pc = "finish" /\ Frame!IsFinished)
      /\ faults' = faults + 1 /\ source_error' = TRUE /\ broken' = TRUE /\ failing' = TRUE
      /\ UNCHANGED <<entry, taken, tracker, state, stream_end, pc, exposed, answer, faulted>>
  BY DEF Frame!SourceFails
<1>2. faults' \in Nat /\ faults' > 0
  BY <1>1, FrameFacts
<1>3. FrameTypes'
  BY <1>1, <1>2 DEF FrameInv, FrameTypes
<1>4. /\ TrackerKnows' /\ Complete' = Complete /\ Frame!IsFinished' = Frame!IsFinished
  BY <1>1, FrameStays DEF FrameInv
<1> QED
  BY <1>1, <1>2, <1>3, <1>4 DEF FrameInv

LEMMA FrameInitialize == FrameInv /\ Frame!Initialize => FrameInv'
<1> SUFFICES ASSUME FrameInv, Frame!Initialize PROVE FrameInv'
  OBVIOUS
<1>1. /\ pc = "initialize" /\ ~broken /\ state' = "decoding" /\ pc' = "decode"
      /\ UNCHANGED <<entry, taken, tracker, source_error, stream_end, broken, exposed, answer, faulted, failing, faults>>
  BY DEF Frame!Initialize
<1>2. FrameTypes'
  BY <1>1 DEF FrameInv, FrameTypes
<1> QED
  BY <1>1, <1>2, FrameStays, FrameFacts DEF FrameInv

(* A read that reports an error: the source's exactly if it left one. *)
LEMMA FrameReports ==
  ASSUME FrameInv, pc # "idle", Frame!ReportError, faults = 0 => Refused,
         UNCHANGED <<entry, taken, tracker, stream_end, exposed, failing, faults>>,
         broken' \in BOOLEAN, broken => broken'
  PROVE  FrameInv'
<1>1. /\ Frame!Return(answer') /\ answer' = IF source_error THEN "io" ELSE "failed"
      /\ source_error' = FALSE
  BY DEF Frame!ReportError, Frame!Return
<1>2. source_error = failing /\ failing \in BOOLEAN /\ source_error \in BOOLEAN
  BY FrameFacts DEF FrameInv
<1>3. answer' \in {"io", "failed"} /\ (answer' = "io") = failing' /\ answer' # "end"
  BY <1>1, <1>2
<1> QED
  BY <1>1, <1>2, <1>3, FrameReturns

LEMMA FrameFails == FrameInv /\ (Frame!InitializeFails \/ Frame!CodecFails \/ Frame!FinishFails) => FrameInv'
<1> SUFFICES ASSUME FrameInv, Frame!InitializeFails \/ Frame!CodecFails \/ Frame!FinishFails PROVE FrameInv'
  OBVIOUS
<1>1. /\ pc # "idle" /\ Frame!ReportError
      /\ UNCHANGED <<entry, taken, tracker, stream_end, exposed, failing, faults>>
      /\ (broken' = TRUE /\ Frame!MayFail) \/ (broken' = broken /\ failing)
  BY DEF Frame!InitializeFails, Frame!CodecFails, Frame!FinishFails
<1>2. faults = 0 => Refused
  <2>1. CASE Frame!MayFail
    BY <2>1, FrameFacts DEF FrameInv, Frame!MayFail, Frame!AtEnd
  <2>2. CASE failing
    BY <2>2, FrameFacts DEF FrameInv
  <2> QED
    BY <1>1, <2>1, <2>2
<1>3. broken' \in BOOLEAN /\ (broken => broken')
  <2>1. broken \in BOOLEAN
    BY FrameFacts
  <2>2. broken' = TRUE \/ broken' = broken
    BY <1>1
  <2> QED
    BY <2>1, <2>2
<1> QED
  BY <1>1, <1>2, <1>3, FrameReports

LEMMA FrameCodecGives == FrameInv /\ Frame!CodecGives => FrameInv'
<1> SUFFICES ASSUME FrameInv, Frame!CodecGives PROVE FrameInv'
  OBVIOUS
<1>1. /\ pc = "decode" /\ ~broken /\ pc' = "idle" /\ answer' = "bytes" /\ faulted' = (faulted \/ FALSE)
      /\ UNCHANGED <<entry, taken, tracker, source_error, state, stream_end, broken, failing, faults>>
  BY DEF Frame!CodecGives, Frame!Return
<1>2. faulted' = faulted
  BY <1>1, FrameFacts
<1>3. FrameTypes'
  BY <1>1, <1>2 DEF FrameInv, FrameTypes
<1>4. ~stream_end' /\ ~failing' /\ ~source_error'
  BY <1>1, FrameFacts DEF FrameInv
<1> QED
  BY <1>1, <1>2, <1>3, <1>4, FrameStays, FrameFacts DEF FrameInv

LEMMA FrameCodecStrays == FrameInv /\ Frame!CodecStrays => FrameInv'
<1> SUFFICES ASSUME FrameInv, Frame!CodecStrays PROVE FrameInv'
  OBVIOUS
<1>1. /\ pc = "decode" /\ broken /\ ~failing /\ pc' = "idle" /\ answer' = "bytes"
      /\ faulted' = (faulted \/ FALSE)
      /\ UNCHANGED <<entry, taken, tracker, source_error, state, stream_end, broken, failing, faults>>
  BY DEF Frame!CodecStrays, Frame!Return
<1>2. faulted' = faulted /\ faulted
  BY <1>1, FrameFacts DEF FrameInv
<1>3. FrameTypes'
  BY <1>1, <1>2 DEF FrameInv, FrameTypes
<1>4. ~source_error
  BY <1>1, FrameFacts DEF FrameInv
<1> QED
  BY <1>1, <1>2, <1>3, <1>4, FrameStays, FrameFacts DEF FrameInv

LEMMA FrameCodecStops == FrameInv /\ Frame!CodecStops => FrameInv'
<1> SUFFICES ASSUME FrameInv, Frame!CodecStops PROVE FrameInv'
  OBVIOUS
<1>1. /\ pc = "decode" /\ ~failing
      /\ \/ broken
         \/ /\ Len(exposed) = Frame!Decodable
            /\ \/ taken = Len(entry.frame) /\ ~entry.corrupt
               \/ entry.algorithm = "lz4" /\ Frame!AtEnd /\ taken < Len(entry.frame)
      /\ UNCHANGED <<entry, taken, tracker, source_error, state, stream_end, broken, exposed, failing, faults>>
  BY DEF Frame!CodecStops
<1>2. ~broken => Stopped
  BY <1>1 DEF Stopped
<1>3. source_error = FALSE /\ failing = FALSE /\ (broken => faulted)
  BY <1>1, FrameFacts DEF FrameInv
<1>4. CASE entry.algorithm = "lz4"
  <2>1. pc' = "finish" /\ UNCHANGED <<answer, faulted>>
    BY <1>4 DEF Frame!CodecStops
  <2>2. FrameTypes'
    BY <1>1, <2>1 DEF FrameInv, FrameTypes
  <2>3. /\ TrackerKnows' /\ Stopped' = Stopped /\ Refused' = Refused /\ Complete' = Complete
    BY <1>1, FrameStays DEF FrameInv
  <2> QED
    BY <1>1, <1>2, <1>3, <1>4, <2>1, <2>2, <2>3 DEF FrameInv
<1>5. CASE entry.algorithm # "lz4"
  <2>1. Frame!Return(answer') /\ answer' = "end"
    BY <1>5 DEF Frame!CodecStops, Frame!Return
  <2>2. ~faulted => ~broken /\ taken = Len(entry.frame) /\ ~entry.corrupt
    BY <1>1, <1>3, <1>5
  <2>3. ~faulted => Complete
    <3> SUFFICES ASSUME ~faulted PROVE Complete
      OBVIOUS
    <3>1. Len(exposed) = Len(entry.at)
      BY <1>1, <2>2, FrameFacts, DecodableAll
    <3> QED
      BY <1>5, <2>2, <3>1, FrameFacts
  <2>4. (broken' \/ state' = "failed" \/ answer' = "failed") /\ faults = 0 => Refused
    BY <1>1, <2>1 DEF FrameInv
  <2>5. broken' \in BOOLEAN /\ failing' \in BOOLEAN
    BY <1>1, FrameFacts
  <2> QED
    BY <1>1, <1>3, <2>1, <2>2, <2>3, <2>4, <2>5, FrameReturns
<1> QED
  BY <1>4, <1>5

LEMMA FrameCut == FrameInv /\ Frame!FrameIsCut => FrameInv'
<1> SUFFICES ASSUME FrameInv, Frame!FrameIsCut PROVE FrameInv'
  OBVIOUS
<1>1. /\ pc = "finish" /\ ~Frame!IsFinished /\ Frame!Return(answer') /\ answer' = "failed"
      /\ UNCHANGED <<entry, taken, tracker, source_error, state, stream_end, broken, exposed, failing, faults>>
  BY DEF Frame!FrameIsCut, Frame!Return
<1>2. entry.algorithm = "lz4" /\ ~failing /\ (~broken => Stopped)
  BY <1>1 DEF FrameInv
<1>3. taken < Len(entry.frame)
  BY <1>1, <1>2, FinishedIsWhole, FrameFacts
<1>4. faults = 0 => Refused
  <2>1. CASE broken
    BY <2>1 DEF FrameInv
  <2>2. CASE ~broken
    BY <1>2, <1>3, <2>2, FrameFacts DEF Stopped, Frame!AtEnd
  <2> QED
    BY <2>1, <2>2
<1>5. source_error = FALSE /\ failing = FALSE
  BY <1>1, <1>2, FrameFacts DEF FrameInv
<1>6. /\ broken' \in BOOLEAN /\ broken' = broken /\ (answer' = "io") = failing' /\ answer' # "end"
      /\ source_error' = FALSE /\ failing' = FALSE
  BY <1>1, <1>5, FrameFacts
<1> QED
  BY <1>1, <1>4, <1>5, <1>6, FrameReturns

LEMMA FrameEntryEnds == FrameInv /\ Frame!EntryEnds => FrameInv'
<1> SUFFICES ASSUME FrameInv, Frame!EntryEnds PROVE FrameInv'
  OBVIOUS
<1>1. /\ pc = "finish" /\ Frame!IsFinished /\ ~failing /\ Frame!AtEnd
      /\ stream_end' = TRUE /\ pc' = "idle" /\ answer' = "end" /\ faulted' = (faulted \/ FALSE)
      /\ UNCHANGED <<entry, taken, tracker, source_error, state, broken, exposed, failing, faults>>
  BY DEF Frame!EntryEnds, Frame!Return
<1>2. faulted' = faulted
  BY <1>1, FrameFacts
<1>3. entry.algorithm = "lz4" /\ (broken => faulted) /\ (~broken => Stopped)
  BY <1>1 DEF FrameInv
<1>4. ~broken => Complete
  <2> SUFFICES ASSUME ~broken PROVE Complete
    OBVIOUS
  <2>1. taken >= Len(entry.frame) /\ taken <= Len(entry.frame)
    BY <1>1, <1>3, FinishedIsWhole, FrameFacts DEF FrameInv
  <2>2. Len(exposed) = Len(entry.at)
    BY <1>3, <2>1, DecodableAll DEF Stopped
  <2>3. ~entry.corrupt
    BY <1>3, <2>1, FrameFacts DEF Stopped
  <2>4. taken >= entry.length
    BY <1>1 DEF Frame!AtEnd
  <2> QED
    BY <2>1, <2>2, <2>3, <2>4, FrameFacts
<1>5. FrameTypes'
  BY <1>1, <1>2 DEF FrameInv, FrameTypes
<1>6. ~source_error /\ ~failing
  BY <1>1, FrameFacts DEF FrameInv
<1>7. TrackerKnows' /\ Complete' = Complete /\ Refused' = Refused
  BY <1>1, FrameStays DEF FrameInv
<1> QED
  BY <1>1, <1>2, <1>3, <1>4, <1>5, <1>6, <1>7 DEF FrameInv

LEMMA FrameBytesFollow == FrameInv /\ Frame!BytesFollow => FrameInv'
<1> SUFFICES ASSUME FrameInv, Frame!BytesFollow PROVE FrameInv'
  OBVIOUS
<1>1. /\ pc = "finish" /\ Frame!IsFinished /\ ~failing /\ ~Frame!AtEnd
      /\ taken' = taken + 1 /\ tracker' = Frame!Observe(tracker, Frame!Supplied(1))
      /\ broken' = TRUE /\ pc' = "idle" /\ answer' = "failed" /\ faulted' = TRUE
      /\ UNCHANGED <<entry, source_error, state, stream_end, exposed, failing, faults>>
  BY DEF Frame!BytesFollow, Frame!Return
<1>2. entry.algorithm = "lz4" /\ ~stream_end
  BY <1>1 DEF FrameInv
<1>3. taken >= Len(entry.frame) /\ taken < entry.length
  BY <1>1, <1>2, FinishedIsWhole, FrameFacts DEF Frame!AtEnd
<1>4. Refused
  BY <1>2, <1>3, FrameFacts
<1>5. FrameTypes'
  <2>1. taken' \in 0 .. entry'.length
    BY <1>1, <1>3, FrameFacts
  <2> QED
    BY <1>1, <2>1 DEF FrameInv, FrameTypes
<1>6. TrackerKnows'
  BY <1>1, TrackerLearns DEF TrackerKnows
<1>7. source_error' = FALSE /\ failing' = FALSE /\ (answer' = "io") = failing'
  BY <1>1, FrameFacts DEF FrameInv
<1>8. Refused' = Refused
  BY <1>1, FrameStays
<1> QED
  BY <1>1, <1>2, <1>4, <1>5, <1>6, <1>7, <1>8 DEF FrameInv

LEMMA FrameInitInv == Frame!Init => FrameInv
<1> SUFFICES ASSUME Frame!Init PROVE FrameInv
  OBVIOUS
<1>1. /\ entry \in FrameEntries /\ taken = 0 /\ tracker = Frame!NewTracker /\ source_error = FALSE
      /\ state \in {"uninitialized", "decoding"} /\ stream_end = FALSE /\ broken = FALSE /\ pc = "idle"
      /\ answer = "none" /\ faulted = FALSE /\ failing = FALSE /\ faults = 0
  BY DEF Frame!Init
<1>2. entry.length \in Nat /\ Len(entry.frame) \in Nat \ {0} /\ entry.frame \in Seq(Byte8)
  BY <1>1, FrameEntryTypes
<1>3. FrameTypes
  <2>1. taken \in 0 .. entry.length /\ faults \in Nat
    BY <1>1, <1>2
  <2> QED
    BY <1>1, <2>1 DEF FrameTypes
<1>4. TrackerKnows
  <2> DEFINE none == Padded(entry.frame, 0)
  <2>1. none \in Seq(Byte8) /\ Len(none) = 0
    BY <1>2, PaddedTyped
  <2>2. none = << >>
    BY <2>1, EmptySeq
  <2> HIDE DEF none
  <2>3. Frame!Observe(Frame!NewTracker, none) = Frame!NewTracker
    BY <2>1, <2>2, NewTrackerTyped, ObserveIs
  <2> QED
    BY <1>1, <2>3 DEF TrackerKnows, none
<1> QED
  BY <1>1, <1>2, <1>3, <1>4 DEF FrameInv

LEMMA FrameKeeps == FrameInv /\ Frame!Next => FrameInv'
BY FrameReads, FrameRead, FrameSourceGives, FrameSourceFails, FrameInitialize, FrameFails,
   FrameCodecGives, FrameCodecStrays, FrameCodecStops, FrameCut, FrameEntryEnds, FrameBytesFollow
   DEF Frame!Next, Frame!Progress

(* The invariant is what the runs check of a frame's end. *)
LEMMA FramesEnd == FrameInv => Frame!EndIsTheFrames
<1> SUFFICES ASSUME FrameInv PROVE Frame!EndIsTheFrames
  OBVIOUS
<1>1. answer = "end" /\ ~faulted => Frame!Whole /\ ~Frame!Followed /\ Len(exposed) = Len(entry.at)
  BY DEF FrameInv, Complete
<1>2. answer = "failed" /\ faults = 0 => ~Frame!Whole \/ Frame!Followed
  BY DEF FrameInv, Refused
<1>3. entry.algorithm = "lz4" => Frame!IsFinished = (taken >= Len(entry.frame))
  BY FinishedIsWhole
<1>4. pc = "idle" => ~source_error /\ (answer \in {"io", "failed"} => (answer = "io") = failing)
  BY DEF FrameInv
<1> QED
  BY <1>1, <1>2, <1>3, <1>4 DEF Frame!EndIsTheFrames

-----------------------------------------------------------------------------
(* Each backend keeps its own; a step of one is none of another. *)
ReaderInv ==
  /\ backend = "none" => ChunkInv
  /\ backend = "gzip" => ZlibInv
  /\ backend = "frame" => FrameInv

LEMMA ReaderInitInv == Init => ReaderInv
BY ChunkInitInv, ZlibInitInv, FrameInitInv DEF Init, ReaderInv

LEMMA ReaderStutters == ReaderInv /\ UNCHANGED vars => ReaderInv'
<1> SUFFICES ASSUME ReaderInv, UNCHANGED vars PROVE ReaderInv'
  OBVIOUS
<1>1. UNCHANGED <<backend, pc, exposed, answer, faults, entry, stream_end, made, written>>
  BY DEF vars, anyVars, decoderVars, zlibVars
<1>2. UNCHANGED <<stream, offset, remaining, done, length, request, aligned>>
  BY DEF vars, chunkVars
<1>3. ZlibInv => ZlibInv'
  BY <1>1 DEF ZlibInv, Ascending, Gapless, Zlib!Size, Zlib!Decodable
<1>4. ChunkInv => ChunkInv'
  <2>1. ChunkTypes => ChunkTypes'
    BY <1>1, <1>2 DEF ChunkTypes
  <2>2. Rest' = Rest /\ (Content => Content')
    BY <1>1, <1>2, ContentStays
  <2>3. Answers => Answers'
    BY <1>1, <1>2, <2>2 DEF Answers, NoBytes
  <2> QED
    BY <1>2, <2>1, <2>2, <2>3 DEF ChunkInv
<1>5. FrameInv => FrameInv'
  <2> SUFFICES ASSUME FrameInv PROVE FrameInv'
    OBVIOUS
  <2>1. UNCHANGED <<faulted, taken, tracker, source_error, state, failing, broken>>
    BY DEF vars, frameVars, decoderVars
  <2>2. FrameTypes'
    BY <1>1, <2>1 DEF FrameInv, FrameTypes
  <2>3. /\ TrackerKnows' /\ Stopped' = Stopped /\ Refused' = Refused /\ Complete' = Complete
        /\ Frame!IsFinished' = Frame!IsFinished
    BY <1>1, <2>1, FrameStays DEF FrameInv
  <2> QED
    BY <1>1, <2>1, <2>2, <2>3 DEF FrameInv
<1> QED
  BY <1>1, <1>3, <1>4, <1>5 DEF ReaderInv

LEMMA ReaderKeeps == ReaderInv /\ [Next]_vars => ReaderInv'
<1> SUFFICES ASSUME ReaderInv, Next PROVE ReaderInv'
  BY ReaderStutters
<1>1. CASE backend = "none" /\ Chunks!Next /\ BesideChunks
  BY <1>1, ChunkKeeps DEF ReaderInv, BesideChunks
<1>2. CASE backend = "gzip" /\ Zlib!Next /\ BesideZlib
  BY <1>2, ZlibKeeps DEF ReaderInv, BesideZlib
<1>3. CASE backend = "frame" /\ Frame!Next /\ BesideFrame
  BY <1>3, FrameKeeps DEF ReaderInv, BesideFrame
<1> QED
  BY <1>1, <1>2, <1>3
     DEF Next, Read, Progress, SourceFails, Chunks!Next, Zlib!Next, Frame!Next

(* The reader of an uncompressed entry ends it only at its zero-length chunk, with
   exactly the bytes of its chunks returned, and says it is cut or malformed only
   where it is: for every stream, buffer length, short read and retried source
   error that does not cut a chunk length in two; CustomChunkReader::read.         *)
THEOREM UncompressedEndMeansWhole == Spec => []EndMeansWhole
<1>1. ReaderInv => EndMeansWhole
  BY ChunkEnds DEF ReaderInv, EndMeansWhole
<1> QED
  BY <1>1, ReaderInitInv, ReaderKeeps, PTL DEF Spec

(* A zlib decoder's bytes are the stream's in order, with none missing unless an
   error of the chunk reader dropped some, and its end is the whole stream's,
   trailer included: for every entry and every way its input is cut;
   ZlibEntryDecoder::read.                                                        *)
THEOREM ZlibEndIsTheStreams == Spec => []EndIsTheStreams
<1>1. ReaderInv => EndIsTheStreams
  BY ZlibEnds DEF ReaderInv, EndIsTheStreams
<1> QED
  BY <1>1, ReaderInitInv, ReaderKeeps, PTL DEF Spec

(* An LZ4 or Zstandard entry ends only where its frame does, given in full, and for
   LZ4 only where the entry does: for every frame of the format, however the codec
   cuts its input, the tracker is finished exactly when the frame is.  A whole entry
   fails only if its source does, and a read returns the source's own error if the
   source failed in that read and never afterwards; Lz4EntryDecoder,
   ZstdEntryDecoder and Lz4FrameTracker::observe.                                    *)
THEOREM FrameEndIsTheFrames == Spec => []EndIsTheFrames
<1>1. ReaderInv => EndIsTheFrames
  BY FramesEnd DEF ReaderInv, EndIsTheFrames
<1> QED
  BY <1>1, ReaderInitInv, ReaderKeeps, PTL DEF Spec

-----------------------------------------------------------------------------
(***************************************************************************)
(* The decoder BoundedEntryReader assumes.  A step of a read that has not  *)
(* returned changes nothing of it; one that returns is one of its answers. *)
(***************************************************************************)
Given == <<Size, exposed, SeenBytes>>

LEMMA SizesTyped ==
  /\ Unlimited \notin Nat /\ MaxSize \in Nat \ {0}
  /\ 0 .. MaxSize \subseteq Requests \cup 0 .. MaxSize
BY BackendAssumption

LEMMA DecoderWaits ==
  ASSUME UNCHANGED <<backend, Given, Position, faulted, Seen>>
  PROVE  [Decoder!Next]_(Decoder!readerVars)
BY DEF Given, Lost, Decoder!readerVars

LEMMA DecoderIsIdle ==
  ASSUME UNCHANGED <<backend, Given, Position, faulted>>, Seen' = "empty"
  PROVE  Decoder!Next
<1>1. 0 \in Requests \cup 0 .. MaxSize
  BY SizesTyped
<1>2. Decoder!EmptyRead
  BY DEF Given, Lost, Decoder!EmptyRead
<1>3. Decoder!Read(0)
  BY <1>2 DEF Decoder!Read
<1> QED
  BY <1>1, <1>3 DEF Decoder!Next

LEMMA DecoderEnds ==
  ASSUME UNCHANGED <<backend, Given, Position, faulted>>, Seen' = "end", Lost \/ Position = Size
  PROVE  Decoder!Next
<1>1. 1 \in Requests \cup 0 .. MaxSize
  BY SizesTyped
<1>2. Decoder!ReadEnd
  BY DEF Given, Lost, Decoder!ReadEnd, Decoder!DecoderEnds
<1>3. Decoder!Read(1)
  BY <1>2 DEF Decoder!Read
<1> QED
  BY <1>1, <1>3 DEF Decoder!Next

LEMMA DecoderFails ==
  ASSUME UNCHANGED <<backend, Given>>, Position' \in Position .. Size, faulted' = TRUE, Seen' = "failed"
  PROVE  Decoder!Next
<1>1. 1 \in Requests \cup 0 .. MaxSize
  BY SizesTyped
<1>2. Lost' \in {Lost, TRUE}
  BY DEF Lost
<1>3. Decoder!DecoderFails
  BY <1>2 DEF Given, Decoder!DecoderFails
<1>4. Decoder!Read(1)
  BY <1>3 DEF Decoder!Read
<1> QED
  BY <1>1, <1>4 DEF Decoder!Next

LEMMA DecoderGives ==
  ASSUME UNCHANGED <<backend, Size, faulted>>, Seen' = "bytes", ~Lost,
         NEW k \in Nat \ {0}, Position \in Nat, Size \in Nat, Len(exposed) \in Nat,
         Position' = Position + k, Position + k <= Size, Size <= MaxSize,
         Len(exposed)' = Len(exposed) + k, Len(exposed) <= Position,
         SeenBytes' = SeenBytes \o [i \in 1 .. k |-> Position + i]
  PROVE  Decoder!Next
<1>1. k \in Requests \cup 0 .. MaxSize
  BY SizesTyped
<1>2. ~Decoder!AtLimit /\ Decoder!Requested(k) = k
  BY DEF Decoder!AtLimit, Decoder!Requested
<1>3. k \in 1 .. Decoder!Available(k)
  BY <1>2 DEF Decoder!Available, Decoder!Least
<1>4. ~Decoder!Overflows(k)
  BY SizesTyped DEF Decoder!Overflows
<1>5. Decoder!Given(k) = [i \in 1 .. k |-> Position + i] /\ Decoder!Advance(k) /\ Lost' = Lost
  BY DEF Decoder!Given, Decoder!Advance, Lost
<1>6. Decoder!ReadBytes(k)
  BY <1>2, <1>3, <1>4, <1>5 DEF Decoder!ReadBytes
<1>7. Decoder!Read(k)
  BY <1>6 DEF Decoder!Read
<1> QED
  BY <1>1, <1>7 DEF Decoder!Next

LEMMA DecoderStrays ==
  ASSUME UNCHANGED <<backend, Size, Position, faulted>>, Seen' = "bytes", Lost,
         NEW k \in Nat \ {0}, Len(exposed) \in Nat, Len(exposed) + k <= MaxSize,
         Len(exposed)' = Len(exposed) + k,
         SeenBytes' = SeenBytes \o [i \in 1 .. k |-> Decoder!Stray]
  PROVE  Decoder!Next
<1>1. k \in Requests \cup 0 .. MaxSize
  BY SizesTyped
<1>2. ~Decoder!AtLimit /\ Decoder!Requested(k) = k
  BY DEF Decoder!AtLimit, Decoder!Requested
<1>3. k \in 1 .. Decoder!Available(k)
  BY <1>2 DEF Decoder!Available
<1>4. ~Decoder!Overflows(k)
  BY SizesTyped DEF Decoder!Overflows
<1>5. Decoder!Given(k) = [i \in 1 .. k |-> Decoder!Stray] /\ Decoder!Advance(k) /\ Lost' = Lost
  BY DEF Decoder!Given, Decoder!Advance, Lost
<1>6. Decoder!ReadBytes(k)
  BY <1>2, <1>3, <1>4, <1>5 DEF Decoder!ReadBytes
<1>7. Decoder!Read(k)
  BY <1>6 DEF Decoder!Read
<1> QED
  BY <1>1, <1>7 DEF Decoder!Next

-----------------------------------------------------------------------------
(* A zlib decoder makes no more than the entry decodes to, and a read that has
   begun has room for a byte.                                                  *)
ZlibBounds ==
  /\ used \in 0 .. Len(entry.ready) /\ fetched \in Nat /\ faulted \in BOOLEAN
  /\ made <= Zlib!Size
  /\ Len(exposed) <= made - written
  /\ pc # "idle" => room \in Nat \ {0}

LEMMA ZlibSizes ==
  ASSUME entry \in ZlibEntries
  PROVE  /\ Len(entry.ready) \in Nat /\ Zlib!Size \in Nat /\ Zlib!Size <= MaxSize
         /\ \A n \in 0 .. Len(entry.ready) : Zlib!Decodable(n) \in Nat /\ Zlib!Decodable(n) <= Zlib!Size
<1> DEFINE ready == entry.ready
<1>1. ready \in Seq(Nat) /\ \A i \in DOMAIN ready : \A j \in 1 .. i : ready[j] <= ready[i]
  BY BackendAssumption DEF Zlib!ZlibConstants
<1>2. \A i \in DOMAIN ready : ready[i] <= MaxSize
  BY BackendAssumption
<1>3. DOMAIN ready = 1 .. Len(ready) /\ Len(ready) \in Nat /\ \A i \in 1 .. Len(ready) : ready[i] \in Nat
  BY <1>1
<1>4. \A n \in 0 .. Len(ready) : Zlib!Decodable(n) = IF n = 0 THEN 0 ELSE ready[n]
  BY DEF Zlib!Decodable
<1>5. Zlib!Size = IF Len(ready) = 0 THEN 0 ELSE ready[Len(ready)]
  BY DEF Zlib!Size, Zlib!Decodable
<1> HIDE DEF ready
<1>6. Zlib!Size \in Nat /\ Zlib!Size <= MaxSize
  BY <1>2, <1>3, <1>5, SizesTyped
<1>7. ASSUME NEW n \in 0 .. Len(ready) PROVE Zlib!Decodable(n) \in Nat /\ Zlib!Decodable(n) <= Zlib!Size
  <2>1. CASE n = 0
    BY <1>4, <1>6, <2>1
  <2>2. CASE n # 0
    <3>1. n \in 1 .. Len(ready) /\ Len(ready) \in DOMAIN ready /\ Len(ready) # 0 /\ n \in 1 .. Len(ready)
      BY <1>3, <2>2
    <3>2. ready[n] <= ready[Len(ready)]
      BY <1>1, <3>1 DEF ready
    <3> QED
      BY <1>3, <1>4, <1>5, <2>2, <3>1, <3>2
  <2> QED
    BY <2>1, <2>2
<1> QED
  BY <1>3, <1>6, <1>7 DEF ready

LEMMA ZlibIs ==
  /\ backend = "gzip" => Size = Zlib!Size /\ Position = made - written /\ SeenBytes = exposed
  /\ backend' = "gzip" => Size' = Zlib!Size' /\ Position' = made' - written' /\ SeenBytes' = exposed'
BY DEF Size, Position, SeenBytes

LEMMA CodecStaysInside ==
  ASSUME ZlibInv, ZlibBounds, Zlib!CodecRuns, pc = "decode"
  PROVE  used' \in 0 .. Len(entry.ready) /\ made' <= Zlib!Size
<1>1. PICK k \in Zlib!Takes : used' = used + k /\ \E p \in Zlib!Gives(k) : made' = made + p
  BY DEF Zlib!CodecRuns
<1>2. PICK p \in Zlib!Gives(k) : made' = made + p
  BY <1>1
<1>3. entry \in ZlibEntries /\ made \in Nat /\ used \in 0 .. Len(entry.ready) /\ fetched \in Nat
  BY DEF ZlibInv, ZlibBounds
<1>4. Len(entry.ready) \in Nat
  BY <1>3, ZlibSizes
<1>5. used + k \in 0 .. Len(entry.ready)
  BY <1>3, <1>4 DEF Zlib!Takes, Zlib!Least
<1>6. Zlib!Decodable(used + k) \in Nat /\ Zlib!Decodable(used + k) <= Zlib!Size /\ Zlib!Size \in Nat
  BY <1>3, <1>5, ZlibSizes
<1>7. p \in Nat /\ p <= Zlib!Decodable(used + k) - made
  <2> DEFINE d == Zlib!Decodable(used + k)
  <2> DEFINE free == room - written
  <2>1. p \in 0 .. Zlib!Least(free, d - made)
    BY DEF Zlib!Gives
  <2>2. d \in Nat /\ free \in Int
    BY <1>3, <1>6 DEF ZlibInv, ZlibBounds
  <2> HIDE DEF d, free
  <2>3. p \in Nat /\ p <= d - made
    <3>1. CASE free <= d - made
      BY <1>3, <2>1, <2>2, <3>1 DEF Zlib!Least
    <3>2. CASE ~(free <= d - made)
      BY <1>3, <2>1, <2>2, <3>2 DEF Zlib!Least
    <3> QED
      BY <3>1, <3>2
  <2> QED
    BY <2>3 DEF d
<1>8. made + p <= Zlib!Decodable(used + k)
  BY <1>3, <1>6, <1>7
<1> QED
  BY <1>1, <1>2, <1>3, <1>5, <1>6, <1>8

(* A read that returns what it holds. *)
LEMMA ZlibGives ==
  ASSUME ZlibInv, ZlibBounds, backend = "gzip", UNCHANGED <<backend, entry, fetched>>,
         NEW n \in Nat \ {0}, made' = made - written + n, made' <= Zlib!Size,
         Zlib!ReturnBytes(n), used' \in 0 .. Len(entry.ready)
  PROVE  ZlibBounds' /\ Decoder!Next
<1> DEFINE b == made - written
<1>1. /\ made \in Nat /\ written \in Nat /\ written <= made /\ exposed \in Seq(Nat) /\ faulted \in BOOLEAN
      /\ entry \in ZlibEntries /\ fetched \in Nat /\ Len(exposed) <= b /\ Len(exposed) \in Nat
  BY DEF ZlibInv, ZlibBounds, Ascending
<1>2. b \in Nat /\ made' = b + n
  BY <1>1
<1>3. /\ pc' = "idle" /\ written' = 0 /\ answer' = "bytes" /\ faulted' = faulted
      /\ exposed' = exposed \o [i \in 1 .. n |-> made' - n + i]
  BY <1>1 DEF Zlib!ReturnBytes, Zlib!Return
<1>4. [i \in 1 .. n |-> made' - n + i] = [i \in 1 .. n |-> b + i]
  <2> HIDE DEF b
  <2> QED
    BY <1>2
<1>5. Len(exposed') = Len(exposed) + n
  <2> DEFINE more == [i \in 1 .. n |-> b + i]
  <2>1. more \in Seq(Nat) /\ Len(more) = n
    <3> HIDE DEF b
    <3> QED
      BY <1>2, IsASeq
  <2>2. exposed' = exposed \o more
    BY <1>3, <1>4
  <2> HIDE DEF more
  <2> QED
    BY <1>1, <2>1, <2>2, ConcatProperties
<1>6. Zlib!Size' = Zlib!Size /\ Zlib!Size \in Nat /\ Zlib!Size <= MaxSize
  BY <1>1, ZlibSizes DEF Zlib!Size, Zlib!Decodable
<1>7. Position = b /\ Position' = b + n /\ Size = Zlib!Size /\ Size' = Size
      /\ SeenBytes = exposed /\ SeenBytes' = exposed \o [i \in 1 .. n |-> b + i]
  <2>1. made' - written' = b + n
    BY <1>2, <1>3
  <2> QED
    BY <1>3, <1>4, <1>6, <2>1, ZlibIs
<1>8. Seen' = "bytes"
  BY <1>3 DEF Seen
<1> HIDE DEF b
<1>9. Decoder!Next
  <2>1. b + n <= Zlib!Size
    BY <1>2
  <2>2. ~Lost
    BY DEF Lost
  <2> QED
    BY <1>1, <1>2, <1>3, <1>5, <1>6, <1>7, <1>8, <2>1, <2>2, DecoderGives
<1>10. Len(exposed') <= made' - written'
  BY <1>1, <1>2, <1>3, <1>5
<1>11. ZlibBounds'
  BY <1>1, <1>2, <1>3, <1>6, <1>10 DEF ZlibBounds
<1> QED
  BY <1>9, <1>11

(* One that returns without a byte. *)
LEMMA ZlibReports ==
  ASSUME ZlibInv, ZlibBounds, backend = "gzip", UNCHANGED <<backend, entry, made, exposed>>,
         NEW what \in {"empty", "end", "io", "failed"}, Zlib!Return(what),
         what \in {"empty", "end"} => written = 0,
         what = "end" => made = Zlib!Size,
         used' \in 0 .. Len(entry.ready), fetched' \in Nat
  PROVE  ZlibBounds' /\ Decoder!Next
<1>1. /\ made \in Nat /\ written \in Nat /\ written <= made /\ Len(exposed) \in Nat /\ faulted \in BOOLEAN
      /\ entry \in ZlibEntries /\ Len(exposed) <= made - written /\ made <= Zlib!Size
  BY DEF ZlibInv, ZlibBounds, Ascending
<1>2. pc' = "idle" /\ written' = 0 /\ answer' = what /\ faulted' = (faulted \/ what \in {"io", "failed"})
  BY DEF Zlib!Return
<1>3. Zlib!Size' = Zlib!Size /\ Zlib!Size \in Nat
  BY <1>1, ZlibSizes DEF Zlib!Size, Zlib!Decodable
<1>4. UNCHANGED Given /\ Size = Zlib!Size /\ Position = made - written /\ Position' = made
  <2>1. made' - written' = made
    BY <1>1, <1>2
  <2> QED
    BY <1>3, <2>1, ZlibIs DEF Given
<1>5. ZlibBounds'
  <2>1. Len(exposed') <= made' - written'
    BY <1>1, <1>2
  <2> QED
    BY <1>1, <1>2, <1>3, <2>1 DEF ZlibBounds
<1>6. CASE what \in {"empty", "end"}
  <2>1. faulted' = faulted /\ Seen' = what
    BY <1>1, <1>2, <1>6 DEF Seen
  <2>2. Position' = Position
    BY <1>1, <1>4, <1>6
  <2>3. what = "end" => Position = Size
    BY <1>1, <1>4, <2>2
  <2> QED
    BY <1>4, <1>5, <1>6, <2>1, <2>2, <2>3, DecoderIsIdle, DecoderEnds
<1>7. CASE what \in {"io", "failed"}
  <2>1. faulted' = TRUE /\ Seen' = "failed"
    BY <1>2, <1>7 DEF Seen
  <2>2. Position' \in Position .. Size
    BY <1>1, <1>3, <1>4
  <2> QED
    BY <1>4, <1>5, <2>1, <2>2, DecoderFails
<1> QED
  BY <1>6, <1>7

(* A running read. *)
LEMMA ZlibGoesOn ==
  ASSUME ZlibInv, ZlibBounds, backend = "gzip", UNCHANGED <<backend, entry, exposed, answer, faulted>>,
         made' - written' = made - written, made' <= Zlib!Size,
         used' \in 0 .. Len(entry.ready), fetched' \in Nat, room' \in Nat \ {0}
  PROVE  ZlibBounds' /\ [Decoder!Next]_(Decoder!readerVars)
<1>1. Zlib!Size' = Zlib!Size
  BY DEF Zlib!Size, Zlib!Decodable
<1>2. UNCHANGED <<Given, Position, faulted, Seen>>
  BY <1>1, ZlibIs DEF Given, Seen
<1>3. ZlibBounds'
  BY <1>1 DEF ZlibBounds
<1> QED
  BY <1>2, <1>3, DecoderWaits

LEMMA ZlibDecides ==
  ASSUME ZlibInv, ZlibBounds, backend = "gzip", pc = "decode", Zlib!FailOrDefer,
         UNCHANGED <<backend, entry, used, fetched, made>>
  PROVE  ZlibBounds' /\ Decoder!Next
<1>1. made \in Nat /\ written \in Nat /\ made <= Zlib!Size /\ used \in 0 .. Len(entry.ready) /\ fetched \in Nat
  BY DEF ZlibInv, ZlibBounds
<1>2. CASE written = 0
  BY <1>1, <1>2, ZlibReports DEF Zlib!FailOrDefer
<1>3. CASE written # 0
  <2>1. written \in Nat \ {0} /\ made' = made - written + written
    BY <1>1, <1>3
  <2> QED
    BY <1>1, <1>3, <2>1, ZlibGives DEF Zlib!FailOrDefer
<1> QED
  BY <1>2, <1>3

LEMMA ZlibIsDecoder ==
  ASSUME ZlibInv, ZlibBounds, backend = "gzip", Zlib!Next, BesideZlib
  PROVE  ZlibBounds' /\ [Decoder!Next]_(Decoder!readerVars)
<1>1. /\ made \in Nat /\ written \in Nat /\ made <= Zlib!Size /\ entry \in ZlibEntries
      /\ used \in 0 .. Len(entry.ready) /\ fetched \in Nat /\ UNCHANGED backend
      /\ pc = "idle" => written = 0
      /\ stream_end => made = Zlib!Size
      /\ pc # "idle" => room \in Nat \ {0}
  BY DEF ZlibInv, ZlibBounds, BesideZlib
<1>2. CASE Zlib!ReadNothing
  <2>1. PICK what \in {"empty", "end"} : Zlib!Return(what) /\ (what = "end" => stream_end)
    BY <1>2 DEF Zlib!ReadNothing
  <2>2. pc = "idle" /\ UNCHANGED <<entry, used, fetched, made, exposed>>
    BY <1>2 DEF Zlib!ReadNothing, Zlib!inputVars, Zlib!codecVars
  <2> QED
    BY <1>1, <2>1, <2>2, ZlibReports
<1>3. CASE Zlib!ReadDeferred \/ Zlib!SourceFails
  <2>1. Zlib!Return("failed") \/ Zlib!Return("io")
    BY <1>3 DEF Zlib!ReadDeferred, Zlib!SourceFails
  <2>2. UNCHANGED <<entry, used, fetched, made, exposed>>
    BY <1>3 DEF Zlib!ReadDeferred, Zlib!SourceFails, Zlib!inputVars, Zlib!codecVars
  <2> QED
    BY <1>1, <2>1, <2>2, ZlibReports
<1>4. CASE Zlib!Read
  <2>1. /\ UNCHANGED <<entry, used, fetched, made, written, exposed, answer, faulted>>
        /\ room' \in Requests \ {0}
    BY <1>4 DEF Zlib!Read, Zlib!inputVars, Zlib!codecVars
  <2> QED
    BY <1>1, <2>1, ConstantTypes, ZlibGoesOn
<1>5. CASE Zlib!Fill
  <2>1. /\ UNCHANGED <<entry, used, made, written, room, exposed, answer, faulted>>
        /\ pc = "fill"
        /\ fetched' = fetched \/ fetched' \in fetched + 1 .. Zlib!Least(fetched + InputBytes, Zlib!Length)
    BY <1>5 DEF Zlib!Fill, Zlib!codecVars
  <2>2. fetched' \in Nat
    BY <1>1, <2>1
  <2> QED
    BY <1>1, <2>1, <2>2, ZlibGoesOn
<1>6. CASE Zlib!StreamEnds
  <2> DEFINE n == written + Zlib!Produced
  <2>1. /\ n \in Nat /\ made' = made - written + n /\ Zlib!Produced \in Nat /\ made' = made + Zlib!Produced
        /\ used' \in 0 .. Len(entry.ready) /\ made' <= Zlib!Size
    BY <1>6, CodecOnlyAdds, CodecStaysInside DEF Zlib!StreamEnds
  <2>2. /\ made' = Zlib!Size /\ UNCHANGED <<entry, fetched>>
        /\ IF n = 0 THEN Zlib!Return("end") /\ UNCHANGED exposed ELSE Zlib!ReturnBytes(n)
    BY <1>6 DEF Zlib!StreamEnds, Zlib!Complete, Zlib!inputVars
  <2>3. CASE n = 0
    <3>1. made' = made /\ written = 0
      BY <1>1, <2>1, <2>3
    <3> QED
      BY <1>1, <2>1, <2>2, <2>3, <3>1, ZlibReports
  <2>4. CASE n # 0
    <3> HIDE DEF n
    <3> QED
      BY <1>1, <2>1, <2>2, <2>4, ZlibGives
  <2> QED
    BY <2>3, <2>4
<1>7. CASE Zlib!OutputFull
  <2>1. /\ made' = made - written + room /\ used' \in 0 .. Len(entry.ready) /\ made' <= Zlib!Size
    BY <1>7, CodecOnlyAdds, CodecStaysInside DEF Zlib!OutputFull
  <2>2. Zlib!ReturnBytes(room) /\ UNCHANGED <<entry, fetched>> /\ pc = "decode"
    BY <1>7 DEF Zlib!OutputFull, Zlib!inputVars
  <2> QED
    BY <1>1, <2>1, <2>2, ZlibGives
<1>8. CASE Zlib!Continue
  <2>1. /\ made' = made + Zlib!Produced /\ Zlib!Produced \in Nat
        /\ used' \in 0 .. Len(entry.ready) /\ made' <= Zlib!Size
    BY <1>8, CodecOnlyAdds, CodecStaysInside DEF Zlib!Continue
  <2>2. /\ written' = written + Zlib!Produced /\ pc = "decode"
        /\ UNCHANGED <<entry, fetched, room, exposed, answer, faulted>>
    BY <1>8 DEF Zlib!Continue, Zlib!inputVars
  <2>3. made' - written' = made - written
    BY <1>1, <2>1, <2>2
  <2> QED
    BY <1>1, <2>1, <2>2, <2>3, ZlibGoesOn
<1>9. CASE Zlib!StreamIsCut \/ Zlib!CodecFails
  <2>1. pc = "decode" /\ Zlib!FailOrDefer /\ UNCHANGED <<entry, used, fetched, made>>
    BY <1>9 DEF Zlib!StreamIsCut, Zlib!CodecFails, Zlib!inputVars, Zlib!codecVars
  <2> QED
    BY <1>1, <2>1, ZlibDecides
<1> QED
  BY <1>2, <1>3, <1>4, <1>5, <1>6, <1>7, <1>8, <1>9 DEF Zlib!Next, Zlib!Progress

LEMMA ZlibBegins ==
  ASSUME Zlib!Init, backend = "gzip"
  PROVE  ZlibBounds /\ Decoder!Init
<1>1. /\ entry \in ZlibEntries /\ fetched = 0 /\ used = 0 /\ made = 0 /\ written = 0 /\ pc = "idle"
      /\ exposed = << >> /\ answer = "none" /\ faulted = FALSE
  BY DEF Zlib!Init
<1>2. Len(entry.ready) \in Nat /\ Zlib!Size \in 0 .. MaxSize
  BY <1>1, ZlibSizes, SizesTyped
<1>3. ZlibBounds
  <2>1. Len(exposed) = 0 /\ made - written = 0 /\ made <= Zlib!Size /\ used \in 0 .. Len(entry.ready)
    BY <1>1, <1>2
  <2>2. Len(exposed) <= made - written
    BY <2>1
  <2>3. fetched \in Nat /\ faulted \in BOOLEAN /\ pc = "idle"
    BY <1>1
  <2> QED
    BY <2>1, <2>2, <2>3 DEF ZlibBounds
<1>4. Size \in 0 .. MaxSize /\ Position = 0 /\ SeenBytes = << >> /\ Seen = "none" /\ Len(exposed) = 0
  BY <1>1, <1>2, ZlibIs DEF Seen
<1> QED
  BY <1>1, <1>3, <1>4 DEF Decoder!Init, Lost

-----------------------------------------------------------------------------
(* Until it has failed, a frame decoder gives no more than its entry has.  One that has
   failed without its codec having failed was given a frame that is cut, and has nothing
   left to give.                                                                         *)
FrameBounds ==
  /\ exposed \in Seq(Nat) /\ Len(exposed) <= MaxSize
  /\ ~faulted => Len(exposed) <= Len(entry.at)
  /\ state = "failed" => broken
  /\ faulted /\ ~broken => Frame!AtEnd /\ taken < Len(entry.frame) /\ Len(exposed) = Frame!Decodable

LEMMA FrameSizes ==
  ASSUME entry \in FrameEntries
  PROVE  Len(entry.at) \in Nat /\ Len(entry.at) <= MaxSize
BY BackendAssumption DEF Frame!FrameConstants

LEMMA DecodableIsPart ==
  ASSUME FrameInv
  PROVE  Frame!Decodable \in Nat /\ Frame!Decodable <= Len(entry.at)
<1> DEFINE n == Len(entry.at)
<1> DEFINE S == {i \in DOMAIN entry.at : entry.at[i] <= taken}
<1>1. entry.at \in Seq(1 .. Len(entry.frame))
  BY FrameEntryTypes DEF FrameInv, FrameTypes
<1>2. n \in Nat /\ DOMAIN entry.at = 1 .. n
  BY <1>1
<1>3. S \subseteq 1 .. n
  BY <1>2
<1>4. Frame!Decodable = Cardinality(S)
  BY SameCount DEF Frame!Decodable
<1> HIDE DEF S, n
<1>5. IsFiniteSet(1 .. n) /\ Cardinality(1 .. n) = n
  BY <1>2, FS_Interval
<1>6. Cardinality(S) \in Nat /\ Cardinality(S) <= n
  BY <1>3, <1>5, FS_Subset, FS_CardinalityType
<1> QED
  BY <1>4, <1>6 DEF n

LEMMA FrameIs ==
  /\ backend = "frame" =>
       Size = Len(entry.at) /\ Position = (IF faulted THEN Len(entry.at) ELSE Len(exposed)) /\ SeenBytes = exposed
  /\ backend' = "frame" =>
       Size' = Len(entry'.at) /\ Position' = (IF faulted' THEN Len(entry'.at) ELSE Len(exposed')) /\ SeenBytes' = exposed'
BY DEF Size, Position, SeenBytes

LEMMA FrameGoesOn ==
  ASSUME backend = "frame", UNCHANGED <<backend, entry, exposed, answer, faulted>>
  PROVE  [Decoder!Next]_(Decoder!readerVars)
BY FrameIs, DecoderWaits DEF Given, Seen

(* A read that returns without a byte. *)
LEMMA FrameTells ==
  ASSUME FrameInv, FrameInv', FrameBounds, backend = "frame", UNCHANGED <<backend, entry, exposed>>,
         NEW what \in {"empty", "end", "io", "failed"}, Frame!Return(what)
  PROVE  Decoder!Next
<1>1. answer' = what /\ faulted' = (faulted \/ what \in {"io", "failed"}) /\ faulted \in BOOLEAN
  BY FrameFacts DEF Frame!Return
<1>2. Len(entry.at) \in Nat /\ Len(exposed) \in Nat /\ (~faulted => Len(exposed) <= Len(entry.at))
  BY FrameFacts, FrameSizes DEF FrameBounds
<1>3. /\ UNCHANGED Given /\ Size = Len(entry.at)
      /\ Position = (IF faulted THEN Len(entry.at) ELSE Len(exposed))
      /\ Position' = (IF faulted' THEN Len(entry.at) ELSE Len(exposed))
  BY FrameIs DEF Given
<1>4. CASE what = "empty"
  <2>1. faulted' = faulted /\ Seen' = "empty"
    BY <1>1, <1>4 DEF Seen
  <2> QED
    BY <1>3, <2>1, DecoderIsIdle
<1>5. CASE what = "end"
  <2>1. faulted' = faulted /\ Seen' = "end"
    BY <1>1, <1>5 DEF Seen
  <2>2. ~faulted => Complete'
    BY <1>1, <1>5, <2>1 DEF FrameInv
  <2>3. ~faulted => Len(exposed) = Len(entry.at)
    BY <2>2 DEF Complete
  <2>4. Lost \/ Position = Size
    BY <1>3, <2>3 DEF Lost
  <2> QED
    BY <1>3, <2>1, <2>4, DecoderEnds
<1>6. CASE what \in {"io", "failed"}
  <2>1. faulted' = TRUE /\ Seen' = "failed"
    BY <1>1, <1>6 DEF Seen
  <2>2. Position' \in Position .. Size
    BY <1>2, <1>3, <2>1
  <2> QED
    BY <1>3, <2>1, <2>2, DecoderFails
<1> QED
  BY <1>4, <1>5, <1>6

LEMMA FrameGives ==
  ASSUME FrameInv, FrameBounds, backend = "frame", UNCHANGED backend, Frame!CodecGives
  PROVE  FrameBounds' /\ Decoder!Next
<1>1. PICK n \in 1 .. Frame!Decodable - Len(exposed) :
        exposed' = exposed \o [i \in 1 .. n |-> Len(exposed) + i]
  BY DEF Frame!CodecGives
<1>2. /\ ~broken /\ answer' = "bytes" /\ faulted' = faulted
      /\ UNCHANGED <<entry, taken, state, broken>>
  BY FrameFacts DEF Frame!CodecGives, Frame!Return
<1>3. /\ exposed \in Seq(Nat) /\ Len(exposed) \in Nat
      /\ Len(entry.at) \in Nat /\ Len(entry.at) <= MaxSize
      /\ Frame!Decodable \in Nat /\ Frame!Decodable <= Len(entry.at)
  BY FrameFacts, FrameSizes, DecodableIsPart DEF FrameBounds
<1>4. ~faulted
  <2>1. Len(exposed) # Frame!Decodable
    BY <1>1, <1>3
  <2> QED
    BY <1>2, <2>1 DEF FrameBounds
<1>5. n \in Nat \ {0} /\ Len(exposed) + n <= Len(entry.at)
  BY <1>1, <1>3
<1>6. exposed' \in Seq(Nat) /\ Len(exposed') = Len(exposed) + n
  <2> DEFINE b == Len(exposed)
  <2> DEFINE more == [i \in 1 .. n |-> b + i]
  <2>1. more \in Seq(Nat) /\ Len(more) = n
    <3>1. b \in Nat
      BY <1>3
    <3> HIDE DEF b
    <3> QED
      BY <1>5, <3>1, IsASeq
  <2>2. exposed' = exposed \o more
    BY <1>1
  <2> HIDE DEF more
  <2> QED
    BY <1>3, <2>1, <2>2, ConcatProperties
<1>7. FrameBounds'
  <2>1. Len(exposed') <= Len(entry'.at) /\ Len(exposed') <= MaxSize
    BY <1>2, <1>3, <1>5, <1>6, SizesTyped
  <2> QED
    BY <1>2, <1>4, <1>6, <2>1 DEF FrameBounds
<1>8. /\ Size = Len(entry.at) /\ Size' = Size /\ Position = Len(exposed) /\ Position' = Len(exposed) + n
      /\ SeenBytes = exposed /\ SeenBytes' = exposed \o [i \in 1 .. n |-> Len(exposed) + i]
  BY <1>1, <1>2, <1>4, <1>6, FrameIs
<1>9. Seen' = "bytes"
  BY <1>2 DEF Seen
<1>10. Decoder!Next
  <2> DEFINE b == Len(exposed)
  <2>1. /\ b \in Nat /\ b + n <= Size /\ Size \in Nat /\ Size <= MaxSize /\ b <= Position
        /\ Position = b /\ Position' = b + n
        /\ SeenBytes' = SeenBytes \o [i \in 1 .. n |-> b + i]
    BY <1>3, <1>5, <1>8
  <2>2. Len(exposed)' = Len(exposed) + n /\ Len(exposed) \in Nat /\ Len(exposed) <= Position
    BY <1>3, <1>6, <1>8
  <2> HIDE DEF b
  <2> QED
    BY <1>2, <1>4, <1>5, <1>8, <1>9, <2>1, <2>2, DecoderGives DEF Lost
<1> QED
  BY <1>7, <1>10

(* One called again after a failed read may give anything, and is lost. *)
LEMMA FrameStrays ==
  ASSUME FrameInv, FrameBounds, backend = "frame", UNCHANGED backend, Frame!CodecStrays
  PROVE  FrameBounds' /\ Decoder!Next
<1>1. PICK n \in 1 .. MaxOutput - Len(exposed) :
        exposed' = exposed \o [i \in 1 .. n |-> Frame!Stray]
  BY DEF Frame!CodecStrays
<1>2. /\ broken /\ ~failing /\ answer' = "bytes" /\ faulted' = faulted
      /\ UNCHANGED <<entry, taken, state, broken>>
  BY FrameFacts DEF Frame!CodecStrays, Frame!Return
<1>3. faulted
  BY <1>2 DEF FrameInv
<1>4. /\ exposed \in Seq(Nat) /\ Len(exposed) \in Nat /\ MaxOutput \in Nat /\ MaxOutput <= MaxSize
  BY BackendAssumption DEF FrameBounds, Frame!FrameConstants
<1>5. n \in Nat \ {0} /\ Len(exposed) + n <= MaxSize
  BY <1>1, <1>4, SizesTyped
<1>6. exposed' \in Seq(Nat) /\ Len(exposed') = Len(exposed) + n
  <2> DEFINE more == [i \in 1 .. n |-> Frame!Stray]
  <2>1. more \in Seq(Nat) /\ Len(more) = n
    BY <1>5 DEF Frame!Stray
  <2>2. exposed' = exposed \o more
    BY <1>1
  <2> HIDE DEF more
  <2> QED
    BY <1>4, <2>1, <2>2, ConcatProperties
<1>7. FrameBounds'
  BY <1>2, <1>3, <1>5, <1>6 DEF FrameBounds
<1>8. /\ Size' = Size /\ Position' = Position /\ Lost
      /\ SeenBytes' = SeenBytes \o [i \in 1 .. n |-> Decoder!Stray]
  BY <1>1, <1>2, <1>3, FrameIs DEF Lost, Frame!Stray, Decoder!Stray
<1>9. Seen' = "bytes"
  BY <1>2 DEF Seen
<1> QED
  BY <1>2, <1>4, <1>5, <1>6, <1>7, <1>8, <1>9, DecoderStrays

LEMMA FrameFaultStays ==
  ASSUME FrameInv, Frame!Next
  PROVE  faulted => faulted'
<1>1. CASE UNCHANGED faulted
  BY <1>1
<1>2. CASE \E what \in {"empty", "end", "io", "failed", "bytes"} : Frame!Return(what)
  BY <1>2 DEF Frame!Return
<1> QED
  BY <1>1, <1>2
     DEF Frame!Next, Frame!Progress, Frame!ReadNothing, Frame!Read, Frame!ReadUnavailable, Frame!SourceGives,
         Frame!SourceFails, Frame!Initialize, Frame!InitializeFails, Frame!CodecGives, Frame!CodecStrays,
         Frame!CodecStops, Frame!CodecFails, Frame!FrameIsCut, Frame!EntryEnds, Frame!BytesFollow,
         Frame!FinishFails, Frame!ReportError, Frame!callVars

LEMMA FrameIsDecoder ==
  ASSUME FrameInv, FrameInv', FrameBounds, backend = "frame", Frame!Next, BesideFrame
  PROVE  FrameBounds' /\ [Decoder!Next]_(Decoder!readerVars)
<1>0. UNCHANGED backend /\ faulted \in BOOLEAN /\ broken \in BOOLEAN /\ (faulted => faulted')
  BY FrameFacts, FrameFaultStays DEF BesideFrame
<1>same. ASSUME UNCHANGED <<entry, exposed, taken>>,
                broken => broken', state' = "failed" => broken',
                faulted' /\ ~broken' => \/ faulted
                                        \/ Frame!AtEnd /\ taken < Len(entry.frame) /\ Len(exposed) = Frame!Decodable,
                broken' \in BOOLEAN
         PROVE  FrameBounds'
  <2>1. Frame!AtEnd' = Frame!AtEnd /\ Frame!Decodable' = Frame!Decodable
    BY <1>same DEF Frame!AtEnd, Frame!Decodable
  <2> QED
    BY <1>0, <1>same, <2>1 DEF FrameBounds
<1>1. CASE Frame!ReadNothing
  <2>1. \E what \in {"empty", "end"} : Frame!Return(what)
    BY <1>1 DEF Frame!ReadNothing
  <2>2. PICK what \in {"empty", "end"} : Frame!Return(what)
    BY <2>1
  <2>3. UNCHANGED <<entry, exposed, taken, broken, state>> /\ faulted' = faulted
    BY <1>0, <1>1, <2>2 DEF Frame!ReadNothing, Frame!Return
  <2> QED
    BY <1>0, <1>same, <2>2, <2>3, FrameTells DEF FrameBounds
<1>2. CASE Frame!ReadUnavailable
  <2>1. Frame!Return("failed") /\ state = "failed" /\ UNCHANGED <<entry, exposed, taken, broken, state>>
    BY <1>2 DEF Frame!ReadUnavailable
  <2> QED
    BY <1>0, <1>same, <2>1, FrameTells DEF FrameBounds
<1>3. CASE Frame!Read \/ Frame!Initialize
  <2>1. /\ UNCHANGED <<entry, exposed, taken, broken, answer, faulted>>
        /\ state' = state \/ state' = "decoding"
    BY <1>3 DEF Frame!Read, Frame!Initialize
  <2> QED
    BY <1>0, <1>same, <2>1, FrameGoesOn DEF FrameBounds
<1>4. CASE Frame!SourceFails
  <2>1. UNCHANGED <<entry, exposed, taken, answer, faulted, state>> /\ broken' = TRUE
    BY <1>4 DEF Frame!SourceFails
  <2> QED
    BY <1>0, <1>same, <2>1, FrameGoesOn
<1>5. CASE Frame!SourceGives
  <2>1. PICK n \in Slices : taken + n <= Frame!Wanted /\ taken' = taken + n
    BY <1>5 DEF Frame!SourceGives
  <2>2. UNCHANGED <<entry, exposed, answer, faulted, state, broken>>
    BY <1>5 DEF Frame!SourceGives, Frame!callVars
  <2>3. n \in Nat \ {0}
    BY BackendAssumption DEF Frame!FrameConstants
  <2>4. faulted => broken
    <3> SUFFICES ASSUME faulted, ~broken PROVE FALSE
      BY <1>0
    <3>1. taken >= entry.length /\ taken < Len(entry.frame)
      BY DEF FrameBounds, Frame!AtEnd
    <3>2. taken \in Nat /\ entry.length \in Nat /\ Len(entry.frame) \in Nat
      BY FrameFacts
    <3>3. Frame!Wanted = entry.length
      BY <3>1, <3>2 DEF Frame!Wanted
    <3> QED
      BY <2>1, <2>3, <3>1, <3>2, <3>3
  <2>5. FrameBounds'
    BY <2>2, <2>4 DEF FrameBounds
  <2> QED
    BY <1>0, <2>2, <2>5, FrameGoesOn
<1>6. CASE Frame!InitializeFails \/ Frame!CodecFails
  <2>1. /\ Frame!Return("io") \/ Frame!Return("failed")
        /\ UNCHANGED <<entry, exposed, taken>> /\ broken' = TRUE
    BY <1>6 DEF Frame!InitializeFails, Frame!CodecFails, Frame!ReportError
  <2> QED
    BY <1>0, <1>same, <2>1, FrameTells
<1>7. CASE Frame!CodecGives
  BY <1>0, <1>7, FrameGives
<1>13. CASE Frame!CodecStrays
  BY <1>0, <1>13, FrameStrays
<1>8. CASE Frame!CodecStops
  <2>1. UNCHANGED <<entry, exposed, taken, broken, state>>
    BY <1>8 DEF Frame!CodecStops
  <2>2. UNCHANGED <<answer, faulted>> \/ Frame!Return("end")
    BY <1>8 DEF Frame!CodecStops
  <2>3. faulted' = faulted
    BY <1>0, <2>2 DEF Frame!Return
  <2>4. FrameBounds'
    BY <1>0, <1>same, <2>1, <2>3 DEF FrameBounds
  <2> QED
    BY <1>0, <2>1, <2>2, <2>4, FrameGoesOn, FrameTells
<1>9. CASE Frame!FrameIsCut
  <2>1. /\ pc = "finish" /\ ~Frame!IsFinished /\ Frame!Return("failed")
        /\ UNCHANGED <<entry, exposed, taken, broken, state>>
    BY <1>9 DEF Frame!FrameIsCut
  <2>2. taken < Len(entry.frame)
    BY <2>1, FinishedIsWhole, FrameFacts DEF FrameInv
  <2>3. ~broken => Frame!AtEnd /\ Len(exposed) = Frame!Decodable
    BY <2>1, <2>2, FrameFacts DEF FrameInv, Stopped
  <2>4. FrameBounds'
    BY <1>0, <1>same, <2>1, <2>2, <2>3 DEF FrameBounds
  <2> QED
    BY <1>0, <2>1, <2>4, FrameTells
<1>10. CASE Frame!EntryEnds
  <2>1. Frame!Return("end") /\ UNCHANGED <<entry, exposed, taken, broken, state>>
    BY <1>10 DEF Frame!EntryEnds
  <2>2. faulted' = faulted
    BY <1>0, <2>1 DEF Frame!Return
  <2> QED
    BY <1>0, <1>same, <2>1, <2>2, FrameTells DEF FrameBounds
<1>11. CASE Frame!BytesFollow
  <2>1. Frame!Return("failed") /\ UNCHANGED <<entry, exposed>> /\ broken' = TRUE
    BY <1>11 DEF Frame!BytesFollow
  <2>2. FrameBounds'
    BY <1>0, <2>1 DEF FrameBounds
  <2> QED
    BY <1>0, <2>1, <2>2, FrameTells
<1>12. CASE Frame!FinishFails
  <2>1. /\ Frame!Return("io") \/ Frame!Return("failed")
        /\ UNCHANGED <<entry, exposed, taken, broken, state>> /\ failing /\ pc = "finish"
    BY <1>12 DEF Frame!FinishFails, Frame!ReportError
  <2>2. broken
    BY <2>1 DEF FrameInv
  <2> QED
    BY <1>0, <1>same, <2>1, <2>2, FrameTells
<1> QED
  BY <1>1, <1>2, <1>3, <1>4, <1>5, <1>6, <1>7, <1>8, <1>9, <1>10, <1>11, <1>12, <1>13
     DEF Frame!Next, Frame!Progress

LEMMA FrameBegins ==
  ASSUME Frame!Init, backend = "frame"
  PROVE  FrameBounds /\ Decoder!Init
<1>1. /\ entry \in FrameEntries /\ exposed = << >> /\ answer = "none" /\ faulted = FALSE
      /\ state \in {"uninitialized", "decoding"}
  BY DEF Frame!Init
<1>2. Len(entry.at) \in 0 .. MaxSize /\ Len(exposed) = 0
  BY <1>1, FrameSizes, SizesTyped
<1>3. FrameBounds
  BY <1>1, <1>2, SizesTyped DEF FrameBounds
<1>4. Size \in 0 .. MaxSize /\ Position = 0 /\ SeenBytes = << >> /\ Seen = "none"
  BY <1>1, <1>2, FrameIs DEF Seen
<1>5. Decoder!Init
  BY <1>1, <1>2, <1>4 DEF Decoder!Init, Lost
<1> QED
  BY <1>3, <1>5

-----------------------------------------------------------------------------
(* An uncompressed entry: no more has been returned than it has. *)
ChunkFits ==
  aligned => /\ Size \in Nat /\ Size <= MaxSize
             /\ Len(exposed) \in Nat /\ Len(exposed) <= Size
             /\ done => Len(exposed) = Size

(* The step that reports an error has marked it. *)
ChunkBounds ==
  /\ faulted \in BOOLEAN
  /\ answer \notin {"none", "empty", "bytes", "end"} => faulted

LEMMA ChunkIs ==
  /\ backend = "none" =>
       /\ Size = Len(Chunks!Entry(stream).bytes) /\ Position = Len(exposed)
       /\ SeenBytes = [k \in 1 .. Len(exposed) |-> k]
  /\ backend' = "none" =>
       /\ Size' = Len(Chunks!Entry(stream').bytes) /\ Position' = Len(exposed')
       /\ SeenBytes' = [k \in 1 .. Len(exposed') |-> k]
<1>1. backend = "none" => Size = Len(Chunks!Entry(stream).bytes) /\ Position = Len(exposed)
  BY DEF Size, Position
<1>2. backend' = "none" => Size' = Len(Chunks!Entry(stream').bytes) /\ Position' = Len(exposed')
  BY DEF Size, Position
<1> QED
  BY <1>1, <1>2 DEF SeenBytes

LEMMA ChunkEntryFits == backend = "none" /\ ChunkInv => ChunkFits
<1> SUFFICES ASSUME backend = "none", ChunkInv, aligned
             PROVE  /\ Size \in Nat /\ Size <= MaxSize
                    /\ Len(exposed) \in Nat /\ Len(exposed) <= Size
                    /\ done => Len(exposed) = Size
  BY DEF ChunkFits
<1> DEFINE all == Chunks!Entry(stream).bytes
<1> DEFINE later == Rest.bytes
<1>1. /\ Content /\ ChunkTypes /\ exposed \in Seq(Byte) /\ stream \in Streams
      /\ all = exposed \o later /\ (done => Rest = NoBytes("whole"))
  BY DEF ChunkInv, ChunkTypes, Content
<1>2. later \in Seq(Byte)
  BY <1>1, RestTyped DEF Content, Results
<1>3. done => later = << >>
  BY <1>1 DEF NoBytes
<1>4. Len(all) <= MaxSize
  BY <1>1, BackendAssumption
<1>5. Size = Len(all)
  BY ChunkIs
<1> HIDE DEF all, later
<1>6. Len(all) = Len(exposed) + Len(later) /\ Len(exposed) \in Nat /\ Len(later) \in Nat
  BY <1>1, <1>2, ConcatProperties
<1>7. done => Len(later) = 0
  BY <1>3
<1> QED
  BY <1>4, <1>5, <1>6, <1>7

LEMMA Counting ==
  ASSUME NEW a \in Nat, NEW b \in Nat
  PROVE  [i \in 1 .. a + b |-> i] = [i \in 1 .. a |-> i] \o [i \in 1 .. b |-> a + i]
<1> DEFINE x == [i \in 1 .. a |-> i]
<1> DEFINE y == [i \in 1 .. b |-> a + i]
<1> DEFINE z == [i \in 1 .. a + b |-> i]
<1>1. x \in Seq(Nat) /\ Len(x) = a
  BY IsASeq
<1>2. y \in Seq(Nat) /\ Len(y) = b
  BY IsASeq
<1>3. z \in Seq(Nat) /\ Len(z) = a + b
  BY IsASeq
<1>4. /\ \A i \in 1 .. a : x[i] = i
      /\ \A i \in 1 .. b : y[i] = a + i
      /\ \A i \in 1 .. a + b : z[i] = i
  OBVIOUS
<1> HIDE DEF x, y, z
<1> DEFINE w == x \o y
<1>5. w \in Seq(Nat) /\ Len(w) = a + b /\ \A i \in 1 .. a + b : w[i] = IF i <= a THEN x[i] ELSE y[i - a]
  BY <1>1, <1>2, ConcatProperties
<1> HIDE DEF w
<1>6. \A i \in 1 .. a + b : w[i] = z[i]
  <2> SUFFICES ASSUME NEW i \in 1 .. a + b PROVE w[i] = z[i]
    OBVIOUS
  <2>1. CASE i <= a
    <3>1. i \in 1 .. a
      BY <2>1
    <3> QED
      BY <1>4, <1>5, <2>1, <3>1
  <2>2. CASE ~(i <= a)
    <3>1. i - a \in 1 .. b /\ a + (i - a) = i
      BY <2>2
    <3> QED
      BY <1>4, <1>5, <2>2, <3>1
  <2> QED
    BY <2>1, <2>2
<1>7. w = z
  BY <1>3, <1>5, <1>6, SeqEqual
<1> QED
  BY <1>7 DEF w, x, y, z

LEMMA ChunkGives ==
  ASSUME backend = "none", UNCHANGED backend, ChunkInv, ChunkFits, ChunkFits', aligned, aligned',
         ChunkBounds, Chunks!ReadData, BesideChunks
  PROVE  Decoder!Next
<1>1. PICK k \in 1 .. Chunks!Wanted :
        offset + k <= Len(stream) /\ exposed' = exposed \o SubSeq(stream, offset + 1, offset + k)
  BY DEF Chunks!ReadData
<1>2. answer' = "bytes" /\ UNCHANGED stream /\ pc = "data"
  BY DEF Chunks!ReadData, Chunks!Return
<1>3. faulted' = faulted /\ Seen' = "bytes"
  BY <1>2 DEF BesideChunks, Failed, ChunkBounds, Seen
<1>4. /\ stream \in Seq(Byte) /\ offset \in Nat /\ exposed \in Seq(Byte) /\ remaining \in Nat /\ request \in Nat
  BY ConstantTypes DEF ChunkInv, ChunkTypes
<1>5. k \in Nat \ {0}
  BY <1>1, <1>4 DEF Chunks!Wanted
<1>6. Len(exposed') = Len(exposed) + k
  <2> DEFINE more == SubSeq(stream, offset + 1, offset + k)
  <2>1. more \in Seq(Byte) /\ Len(more) = k
    <3>1. \A i \in offset + 1 .. offset + k : stream[i] \in Byte
      BY <1>1, <1>4, <1>5
    <3>2. more \in Seq(Byte) /\ Len(more) = IF offset + 1 <= offset + k THEN offset + k - (offset + 1) + 1 ELSE 0
      BY <1>4, <1>5, <3>1, SubSeqProperties
    <3> QED
      BY <1>4, <1>5, <3>2
  <2> HIDE DEF more
  <2>2. exposed' = exposed \o more
    BY <1>1 DEF more
  <2> QED
    BY <1>4, <2>1, <2>2, ConcatProperties
<1>7. Size' = Size /\ Position = Len(exposed) /\ Position' = Len(exposed) + k
  BY <1>2, <1>6, ChunkIs
<1>8. /\ Size \in Nat /\ Size <= MaxSize /\ Len(exposed) \in Nat /\ Len(exposed) + k <= Size
  <2>1. Len(exposed') <= Size'
    BY DEF ChunkFits
  <2> QED
    BY <1>6, <1>7, <2>1 DEF ChunkFits
<1>9. SeenBytes' = SeenBytes \o [i \in 1 .. k |-> Position + i]
  <2> DEFINE b == Len(exposed)
  <2>1. b \in Nat /\ Len(exposed') = b + k /\ Position = b
    BY <1>6, <1>7, <1>8
  <2>2. SeenBytes = [i \in 1 .. b |-> i] /\ SeenBytes' = [i \in 1 .. Len(exposed') |-> i]
    BY ChunkIs
  <2> HIDE DEF b
  <2>3. [i \in 1 .. b + k |-> i] = [i \in 1 .. b |-> i] \o [i \in 1 .. k |-> b + i]
    BY <1>5, <2>1, Counting
  <2> QED
    BY <2>1, <2>2, <2>3
<1>10. UNCHANGED <<Size, faulted>>
  BY <1>3, <1>7
<1>11. /\ Position \in Nat /\ Position' = Position + k /\ Position + k <= Size
       /\ Len(exposed)' = Len(exposed) + k /\ Len(exposed) <= Position
  BY <1>6, <1>7, <1>8
<1>12. ~Lost
  BY DEF Lost
<1> QED
  BY <1>3, <1>5, <1>8, <1>9, <1>10, <1>11, <1>12, DecoderGives

LEMMA ChunkIsDecoder ==
  ASSUME backend = "none", ChunkInv, ChunkFits, ChunkFits', ChunkBounds, Chunks!Next, BesideChunks
  PROVE  ChunkBounds' /\ (aligned' => [Decoder!Next]_(Decoder!readerVars))
<1>0. UNCHANGED backend /\ faulted \in BOOLEAN /\ faulted' = (faulted \/ Failed)
  BY DEF BesideChunks, ChunkBounds
<1>1. ChunkBounds'
  BY <1>0 DEF ChunkBounds, Failed
<1> SUFFICES ASSUME aligned' PROVE [Decoder!Next]_(Decoder!readerVars)
  BY <1>1
<1>2. aligned
  BY DEF Chunks!Next, Chunks!Progress, Chunks!ReadNothing, Chunks!Read, Chunks!ReadLengthByte, Chunks!LengthIsCut,
         Chunks!BeginChunk, Chunks!ReadData, Chunks!DataIsCut, Chunks!SourceFails
<1>same. ASSUME UNCHANGED <<stream, exposed>>
         PROVE  UNCHANGED <<Given, Position>>
  BY <1>0, <1>same, ChunkIs DEF Given
<1>waits. ASSUME UNCHANGED <<stream, exposed, answer>> PROVE [Decoder!Next]_(Decoder!readerVars)
  <2>1. Seen' = Seen /\ faulted' = faulted
    BY <1>0, <1>waits DEF Seen, ChunkBounds, Failed
  <2> QED
    BY <1>0, <1>same, <1>waits, <2>1, DecoderWaits
<1>fails. ASSUME UNCHANGED <<stream, exposed>>, answer' \notin {"none", "empty", "bytes", "end"}
          PROVE  Decoder!Next
  <2>1. Seen' = "failed" /\ faulted' = TRUE
    BY <1>0, <1>fails DEF Seen, Failed
  <2>2. Position' \in Position .. Size
    BY <1>2, <1>same, <1>fails, ChunkIs DEF ChunkFits
  <2> QED
    BY <1>0, <1>same, <1>fails, <2>1, <2>2, DecoderFails
<1>ends. ASSUME UNCHANGED <<stream, exposed>>, answer' = "end", done'
         PROVE  Decoder!Next
  <2>1. Seen' = "end" /\ faulted' = faulted
    BY <1>0, <1>ends DEF Seen, Failed
  <2>2. Len(exposed') = Size'
    BY <1>ends DEF ChunkFits
  <2>3. Position = Size
    BY <1>same, <1>ends, <2>2, ChunkIs DEF Given
  <2> QED
    BY <1>0, <1>same, <1>ends, <2>1, <2>3, DecoderEnds
<1>3. CASE Chunks!ReadNothing
  <2>1. UNCHANGED <<stream, exposed, done>> /\ answer' = IF done THEN "end" ELSE "empty"
    BY <1>3 DEF Chunks!ReadNothing, Chunks!Return
  <2>2. CASE done
    BY <1>ends, <2>1, <2>2
  <2>3. CASE ~done
    <3>1. Seen' = "empty" /\ faulted' = faulted
      BY <1>0, <2>1, <2>3 DEF Seen, Failed
    <3> QED
      BY <1>0, <1>same, <2>1, <3>1, DecoderIsIdle
  <2> QED
    BY <2>2, <2>3
<1>4. CASE Chunks!Read \/ Chunks!ReadLengthByte
  BY <1>4, <1>waits DEF Chunks!Read, Chunks!ReadLengthByte
<1>5. CASE Chunks!LengthIsCut \/ Chunks!DataIsCut \/ Chunks!SourceFails
  BY <1>5, <1>fails DEF Chunks!LengthIsCut, Chunks!DataIsCut, Chunks!SourceFails, Chunks!Return
<1>6. CASE Chunks!BeginChunk
  <2>1. UNCHANGED <<stream, exposed>>
    BY <1>6 DEF Chunks!BeginChunk
  <2>2. \/ answer' \in {"ArchiveIntegerOutOfRange", "InvalidDataChunkLength"}
        \/ answer' = "end" /\ done'
        \/ answer' = answer
    BY <1>6 DEF Chunks!BeginChunk, Chunks!Return
  <2> QED
    BY <1>waits, <1>fails, <1>ends, <2>1, <2>2
<1>7. CASE Chunks!ReadData
  BY <1>0, <1>2, <1>7, ChunkGives
<1> QED
  BY <1>3, <1>4, <1>5, <1>6, <1>7 DEF Chunks!Next, Chunks!Progress

LEMMA ChunkBegins ==
  ASSUME Chunks!Init, backend = "none", faulted = FALSE
  PROVE  ChunkBounds /\ Decoder!Init
<1>1. /\ stream \in Streams /\ exposed = << >> /\ answer = "none"
  BY DEF Chunks!Init
<1>2. Len(exposed) = 0
  BY <1>1
<1>3. ChunkBounds
  BY <1>1 DEF ChunkBounds
<1>4. Size \in 0 .. MaxSize
  <2>1. ChunkFits /\ aligned
    BY ChunkInitInv, ChunkEntryFits DEF Chunks!Init
  <2> QED
    BY <2>1, SizesTyped DEF ChunkFits
<1>5. Position = 0 /\ SeenBytes = << >> /\ Seen = "none"
  <2>1. [k \in 1 .. 0 |-> k] = << >>
    OBVIOUS
  <2> QED
    BY <1>1, <1>2, <2>1, ChunkIs DEF Seen
<1>6. Decoder!Init
  BY <1>1, <1>2, <1>4, <1>5 DEF Decoder!Init, Lost
<1> QED
  BY <1>3, <1>6

-----------------------------------------------------------------------------
Bounds ==
  /\ backend \in {"none", "gzip", "frame"}
  /\ backend = "none" => ChunkBounds
  /\ backend = "gzip" => ZlibBounds
  /\ backend = "frame" => FrameBounds

Fits == backend = "none" => ChunkFits

LEMMA ReaderFits == ReaderInv => Fits
BY ChunkEntryFits DEF ReaderInv, Fits

LEMMA DecoderBegins == Init => Bounds /\ Decoder!Init
BY ChunkBegins, ZlibBegins, FrameBegins DEF Init, Bounds

LEMMA DecoderStutters ==
  ASSUME UNCHANGED vars
  PROVE  UNCHANGED Decoder!readerVars /\ (Bounds => Bounds')
<1>1. UNCHANGED <<backend, pc, exposed, answer, faults, entry, made, written, stream, faulted>>
  BY DEF vars, anyVars, decoderVars, zlibVars, chunkVars
<1>2. UNCHANGED <<used, fetched, room, taken, state, broken>>
  BY DEF vars, zlibVars, frameVars, decoderVars
<1>3. UNCHANGED <<Size, Position, SeenBytes, Seen>>
  BY <1>1 DEF Size, Position, SeenBytes, Seen, Zlib!Size, Zlib!Decodable
<1>4. UNCHANGED Decoder!readerVars
  BY <1>1, <1>3 DEF Decoder!readerVars, Lost
<1>5. Bounds => Bounds'
  BY <1>1, <1>2 DEF Bounds, ChunkBounds, ZlibBounds, FrameBounds, Zlib!Size, Zlib!Decodable,
                    Frame!AtEnd, Frame!Decodable
<1> QED
  BY <1>4, <1>5

LEMMA DecoderStep ==
  ASSUME ReaderInv, ReaderInv', Fits, Fits', Bounds, [Next]_vars
  PROVE  Bounds' /\ (aligned' => [Decoder!Next]_(Decoder!readerVars))
<1>1. CASE backend = "none" /\ Chunks!Next /\ BesideChunks
  <2>1. backend' = "none"
    BY <1>1 DEF BesideChunks
  <2> QED
    BY <1>1, <2>1, ChunkIsDecoder DEF ReaderInv, Fits, Bounds
<1>2. CASE backend = "gzip" /\ Zlib!Next /\ BesideZlib
  <2>1. backend' = "gzip"
    BY <1>2 DEF BesideZlib
  <2> QED
    BY <1>2, <2>1, ZlibIsDecoder DEF ReaderInv, Bounds
<1>3. CASE backend = "frame" /\ Frame!Next /\ BesideFrame
  <2>1. backend' = "frame"
    BY <1>3 DEF BesideFrame
  <2> QED
    BY <1>3, <2>1, FrameIsDecoder DEF ReaderInv, Bounds
<1>4. CASE UNCHANGED vars
  BY <1>4, DecoderStutters
<1> QED
  BY <1>1, <1>2, <1>3, <1>4
     DEF Next, Read, Progress, SourceFails, Chunks!Next, Zlib!Next, Frame!Next

(* Every backend is the decoder that BoundedEntryReader assumes, and no read that has
   not returned shows.  Until a read has failed, reads give the entry's bytes in order
   and say it ends only where it does.  After a failed read, zlib and uncompressed
   entries go on in order behind the bytes that are lost, until a read is begun after
   an error inside a chunk length; LZ4 and Zstandard entries may then give any bytes,
   end anywhere or fail again.  For every entry and caller, and every codec that passes
   on its source's error in the read in which it happens; EntryDataReader::read.       *)
THEOREM EveryBackendIsADecoder == Spec => ImplementsDecoder
<1>1. ReaderInv /\ Fits /\ Bounds /\ [Next]_vars /\ ReaderInv' /\ Fits'
        => Bounds' /\ [aligned' => [Decoder!Next]_(Decoder!readerVars)]_vars
  BY DecoderStep
<1> QED
  BY <1>1, ReaderInitInv, ReaderKeeps, ReaderFits, DecoderBegins, PTL DEF Spec, ImplementsDecoder
=============================================================================
