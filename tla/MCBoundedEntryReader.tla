------------------------ MODULE MCBoundedEntryReader ------------------------
(* A caller of BoundedEntryReader that reads with buffers of any of some
   lengths, goes on after errors, and may stop at any time. *)
EXTENDS BoundedEntryReader

CONSTANTS Buffers  \* bound: lengths of the buffers the caller reads into

Next == \E n \in Buffers : Read(n)

Spec == Init /\ [][Next]_readerVars
=============================================================================
