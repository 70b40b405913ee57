---------------------------- MODULE PrimitivesCheck ----------------------------
(***************************************************************************)
(* Checks of ArchivePrimitives over every byte string up to MaxLen.  The   *)
(* string is looked at as an integer and an offset of any size, and as the *)
(* bytes of a dependency.                                                  *)
(***************************************************************************)
EXTENDS ArchivePrimitives

CONSTANTS Alphabet, MaxLen, IntegerSizes, OffsetSizes

VARIABLE bytes

Init == bytes = << >>
Next == /\ Len(bytes) < MaxLen
        /\ \E b \in Alphabet : bytes' = Append(bytes, b)
Spec == Init /\ [][Next]_bytes

-----------------------------------------------------------------------------
(* Reference: the digit of weight Base^(i - 1) of n, and pg_dump's WriteInt. *)
DigitAt(n, i) == (n \div Base ^ (i - 1)) % Base

Magnitude(n) == IF n < 0 THEN -n ELSE n

WriteInt(size, n) == <<IF n < 0 THEN 1 ELSE 0>> \o [i \in 1 .. size |-> DigitAt(Magnitude(n), i)]

(* An integer is read exactly when it is there and fits 32 bits with its sign,
   the smallest included, and a position is the number all of its bytes make up,
   however many the header announces: what is read is what was written, no byte
   behind it is taken and none of its own is dropped.                              *)
IntegersReadBack ==
  /\ \A size \in IntegerSizes :
       LET read == ReadInteger(size, bytes)
       IN  /\ read.error = "eof" <=> Len(bytes) < 1 + size
           /\ read.error = "none" =>
                /\ read.used = 1 + size
                /\ Tail(WriteInt(size, read.value)) = SubSeq(bytes, 2, 1 + size)
                /\ read.value # 0 => (read.value < 0) = (bytes[1] # 0)
           /\ \A n \in -(MaxInt + 1) .. MaxInt :
                IsPrefix(WriteInt(size, n), bytes) /\ Magnitude(n) < Base ^ size
                  => read.error = "none" /\ read.value = n
  /\ \A size \in OffsetSizes :
       LET read == ReadOffset(size, bytes)
       IN  read.error = "none" =>
             /\ read.used = 1 + size /\ Len(bytes) >= 1 + size
             /\ IF bytes[1] = 2 THEN read.value \in Nat /\ \A i \in 1 .. size : bytes[1 + i] = DigitAt(read.value, i)
                                ELSE read.value \in {"unknown", "no_data"}

(* A dependency string names the dump ID it spells in decimal, leading zeros and
   all; one that spells none, or none that fits, names none.                     *)
DependenciesAreDecimal ==
  LET spelled == {n \in 1 .. MaxInt :
        /\ \A i \in DOMAIN bytes : bytes[i] = (n \div 10 ^ (Len(bytes) - i)) % 10
        /\ n < 10 ^ Len(bytes)}
      read == ParseDependency(bytes)
  IN  IF spelled = {} THEN read.error = "encoding" ELSE read.error = "none" /\ read.value \in spelled
=============================================================================
