------------------------------ MODULE EntryCopy ------------------------------
(***************************************************************************)
(* What Archive::copy_entry_to of crates/pgdumpx/src/raw_entry.rs promises *)
(* its caller: the writer accepts a growing prefix of the entry's `size`   *)
(* bytes, never more than the budget; the copy is complete only when it    *)
(* has accepted all of them; a failure leaves what it accepted and says    *)
(* how much that is whenever the writer is to blame.                       *)
(***************************************************************************)
EXTENDS Integers

CONSTANTS
  Sizes,     \* numbers of bytes an entry may decode to
  Limits,    \* byte budgets, or Unlimited
  Unlimited

VARIABLES
  size, limit,
  accepted,  \* bytes the writer has accepted, the first ones of the entry
  outcome    \* the copy's result: its kind, and the bytes the result names

vars == <<size, limit, accepted, outcome>>

Running == [kind |-> "running", bytes |-> 0]

(* Results that name no number of accepted bytes. *)
Unread == [kind |-> "unread", bytes |-> 0]
TooLong == [kind |-> "limit", bytes |-> 0]

Fits(n) == limit # Unlimited => n <= limit

Init ==
  /\ size \in Sizes
  /\ limit \in Limits
  /\ accepted = 0
  /\ outcome = Running

Accept ==
  /\ outcome = Running
  /\ accepted' \in accepted + 1 .. size
  /\ Fits(accepted')
  /\ UNCHANGED <<size, limit, outcome>>

End(result) == outcome = Running /\ outcome' = result /\ UNCHANGED <<size, limit, accepted>>

Complete == accepted = size /\ End([kind |-> "complete", bytes |-> accepted])

\* Mutant: an output error does not count the bytes accepted before it.
OutputFailsUncounted == End([kind |-> "output", bytes |-> 0])

OutputFails == End([kind |-> "output", bytes |-> accepted])

(* Every byte of the budget was accepted, and the entry has another one. *)
LimitExceeded == accepted = limit /\ size > limit /\ End(TooLong)

(* The entry could not be found, opened, read or decoded to its end. *)
ReadFails == End(Unread)

Next == Accept \/ Complete \/ OutputFails \/ LimitExceeded \/ ReadFails

Spec == Init /\ [][Next]_vars
=============================================================================
