-------------------------- MODULE ExtractionPlanProofs --------------------------
(***************************************************************************)
(* An execution of a plan asks for destinations in plan order and only     *)
(* when all of it resolves, reports as completed what was written whole,   *)
(* and names the target that failed: for every plan, archive and budget.   *)
(***************************************************************************)
EXTENDS ExtractionPlan, WellFoundedInduction, TLAPS

Target == [selector : Selectors, bytes : Nat]
Destination == [selector : Selectors, accepted : Nat, flushed : BOOLEAN]

Running == {"target", "copy", "flush"}

TypeInv ==
  /\ plan \in Seq(Selectors) /\ archive \in Archives /\ limit \in Limits
  /\ size \in Nat /\ accepted \in Nat
  /\ pc \in {"new", "rejected", "ready"} \cup Running
  /\ completed \in Seq(Target)
  /\ destinations \in Seq(Destination)

Resolved == \A k \in DOMAIN plan : archive[plan[k]] \in Sizes

Fits(n) == limit # Unlimited => n <= limit

(* The plan was accepted for naming no table twice, and runs where all of it resolves. *)
PlanInv ==
  /\ pc \in {"new", "rejected"} => destinations = << >> /\ completed = << >>
  /\ pc \notin {"new", "rejected"} => \A j, k \in DOMAIN plan : plan[j] = plan[k] => j = k
  /\ pc \in Running \/ destinations # << >> => Resolved

(* There is one destination more than there are completed targets while a target is
   written, and after one has failed.                                               *)
DestinationInv ==
  /\ Len(destinations) <= Len(plan)
  /\ Len(destinations) \in {Len(completed), Len(completed) + 1}
  /\ pc \in {"copy", "flush"} => Len(destinations) = Len(completed) + 1
  /\ pc = "target" => Len(destinations) = Len(completed)
  /\ \A k \in DOMAIN destinations :
       /\ destinations[k].selector = plan[k]
       /\ destinations[k].flushed <=> k <= Len(completed)

CompletedInv ==
  \A k \in DOMAIN completed :
    /\ completed[k].selector = plan[k]
    /\ completed[k].bytes = destinations[k].accepted
    /\ destinations[k].accepted = archive[plan[k]]
    /\ Fits(completed[k].bytes)

(* What the copy of the current target has done shows at its destination. *)
CopyInv ==
  pc \in {"copy", "flush"} =>
    /\ size = archive[plan[Len(destinations)]]
    /\ destinations[Len(destinations)].accepted = accepted
    /\ Fits(accepted)
    /\ pc = "copy" => outcome = Copy!Running
    /\ pc = "flush" => accepted = size /\ outcome.bytes = accepted

ResultInv ==
  /\ pc # "ready" => result.kind \in {"none", "plan"}
  /\ result.kind = "target" =>
       /\ result.at = Len(completed) + 1
       /\ result.at = Len(destinations)
       /\ result.error = "output" => result.bytes = destinations[result.at].accepted
  /\ result.kind = "complete" => Len(completed) = Len(plan)
  /\ result.kind = "preflight" =>
       /\ destinations = << >>
       /\ archive[plan[result.at]] \in {NoTable, NoData}
       /\ \A k \in 1 .. result.at - 1 : archive[plan[k]] \in Sizes

IInv == TypeInv /\ PlanInv /\ DestinationInv /\ CompletedInv /\ CopyInv /\ ResultInv

-----------------------------------------------------------------------------
LEMMA InitInv == Init => IInv
<1> SUFFICES ASSUME Init PROVE IInv
  OBVIOUS
<1>1. /\ plan \in Seq(Selectors) /\ limit \in Limits /\ archive \in Archives
      /\ pc = "new" /\ size = 0 /\ accepted = 0
      /\ result.kind = "none"
  BY PlanAssumption DEF Init, Result
<1>2. completed = << >> /\ destinations = << >>
  BY DEF Init
<1>3. completed \in Seq(Target) /\ destinations \in Seq(Destination)
  BY <1>2
<1>4. Len(plan) \in Nat
  BY <1>1
<1> QED
  BY <1>1, <1>2, <1>3, <1>4
  DEF IInv, TypeInv, PlanInv, Running, DestinationInv, CompletedInv, CopyInv, ResultInv

(* A set of places that is not empty has a first one. *)
LEMMA FirstPlace ==
  ASSUME NEW n \in Nat, NEW S \in SUBSET (1 .. n), S # {}
  PROVE  \E k \in S : \A j \in 1 .. k - 1 : j \notin S
<1> DEFINE Less == {p \in Nat \X Nat : p[1] < p[2]}
<1>1. IsWellFoundedOn(Less, Nat)
  BY NatLessThanWellFounded DEF OpToRel
<1>2. S \subseteq Nat
  OBVIOUS
<1>3. PICK k \in S : \A j \in S : <<j, k>> \notin Less
  BY <1>1, <1>2, WFMin
<1>4. \A j \in S : ~(j < k)
  BY <1>2, <1>3
<1> QED
  BY <1>4

LEMMA FirstDuplicateIsZero ==
  ASSUME plan \in Seq(Selectors), FirstDuplicate = 0
  PROVE  \A j, k \in DOMAIN plan : plan[j] = plan[k] => j = k
<1>1. ASSUME NEW k \in DOMAIN plan, Repeats(k) PROVE FALSE
  <2> DEFINE S == {p \in DOMAIN plan : Repeats(p)}
  <2>1. Len(plan) \in Nat /\ S \in SUBSET (1 .. Len(plan)) /\ S # {}
    BY <1>1
  <2>2. PICK p \in S : \A j \in 1 .. p - 1 : j \notin S
    BY <2>1, FirstPlace
  <2>3. \A j \in 1 .. p - 1 : ~Repeats(j)
    BY <2>1, <2>2
  <2>4. FirstDuplicate \in DOMAIN plan
    BY <2>2, <2>3 DEF FirstDuplicate
  <2> QED
    BY <2>4
<1> QED
  BY <1>1 DEF Repeats

LEMMA SelectorsResolve ==
  ASSUME plan \in Seq(Selectors), archive \in Archives, NEW k \in DOMAIN plan
  PROVE  /\ plan[k] \in Selectors
         /\ archive[plan[k]] \in Sizes <=> ~Unresolved(plan[k])
<1>1. plan[k] \in Selectors
  OBVIOUS
<1>2. archive[plan[k]] \in Sizes \cup {NoTable, NoData}
  BY <1>1 DEF Archives
<1>3. Sizes \subseteq Nat /\ NoTable \notin Nat /\ NoData \notin Nat
  BY PlanAssumption
<1> QED
  BY <1>1, <1>2, <1>3 DEF Unresolved

(* Nothing has been asked for yet, or any more. *)
LEMMA NothingAskedKeeps ==
  ASSUME plan \in Seq(Selectors), archive' \in Archives, limit \in Limits,
         size \in Nat, accepted \in Nat, UNCHANGED <<plan, limit, size, accepted>>,
         completed' = << >>, destinations' = << >>,
         pc' \in {"rejected", "ready", "target"},
         PlanInv', ResultInv'
  PROVE  IInv'
<1>1. completed' \in Seq(Target) /\ destinations' \in Seq(Destination)
  OBVIOUS
<1>2. Len(plan) \in Nat
  OBVIOUS
<1> QED
  BY <1>1, <1>2 DEF IInv, TypeInv, DestinationInv, CompletedInv, CopyInv, Running

LEMMA BuildKeeps == IInv /\ Build => IInv'
<1> SUFFICES ASSUME IInv, Build PROVE IInv'
  OBVIOUS
<1>1. /\ pc = "new" /\ pc' \in {"ready", "rejected"}
      /\ completed = << >> /\ destinations = << >>
      /\ UNCHANGED <<plan, archive, limit, size, accepted, completed, destinations>>
  BY DEF Build, copyVars, IInv, PlanInv
<1>2. PlanInv'
  BY <1>1, FirstDuplicateIsZero DEF Build, IInv, TypeInv, PlanInv, Running
<1>3. result'.kind \in {"none", "plan"}
  BY <1>1 DEF Build, IInv, ResultInv, Result
<1>4. ResultInv'
  BY <1>3 DEF ResultInv
<1> QED
  BY <1>1, <1>2, <1>4, NothingAskedKeeps DEF IInv, TypeInv

LEMMA ExecuteKeeps == IInv /\ Execute => IInv'
<1> SUFFICES ASSUME IInv, Execute PROVE IInv'
  OBVIOUS
<1>1. /\ pc = "ready" /\ completed' = << >> /\ destinations' = << >>
      /\ UNCHANGED <<plan, archive, limit, size, accepted>>
  BY DEF Execute, copyVars
<1>2. plan \in Seq(Selectors) /\ archive \in Archives /\ limit \in Limits /\ size \in Nat /\ accepted \in Nat
  BY DEF IInv, TypeInv
<1>3. CASE \E k \in DOMAIN plan : Unresolved(plan[k])
  <2> DEFINE S == {k \in DOMAIN plan : Unresolved(plan[k])}
             First(k) == Unresolved(plan[k]) /\ \A j \in 1 .. k - 1 : ~Unresolved(plan[j])
             at == CHOOSE k \in DOMAIN plan : First(k)
  <2>1. Len(plan) \in Nat /\ DOMAIN plan = 1 .. Len(plan) /\ S \in SUBSET (1 .. Len(plan)) /\ S # {}
    BY <1>2, <1>3
  <2>2. PICK k \in S : \A j \in 1 .. k - 1 : j \notin S
    BY <2>1, FirstPlace
  <2>3. k \in DOMAIN plan /\ First(k)
    BY <2>1, <2>2
  <2>4. at \in DOMAIN plan /\ First(at)
    BY <2>3
  <2>5. pc' = "ready" /\ result'.kind = "preflight" /\ result'.at = at
    BY <1>1, <1>3 DEF Execute, Result
  <2> HIDE DEF at, S
  <2>6. archive[plan[at]] \in {NoTable, NoData}
    BY <2>4 DEF Unresolved
  <2>7. \A j \in 1 .. at - 1 : archive[plan[j]] \in Sizes
    BY <1>2, <2>1, <2>4, SelectorsResolve
  <2>8. ResultInv'
    BY <1>1, <2>5, <2>6, <2>7 DEF ResultInv
  <2>9. PlanInv'
    BY <1>1, <2>5 DEF IInv, PlanInv, Running
  <2> QED
    BY <1>1, <1>2, <2>5, <2>8, <2>9, NothingAskedKeeps
<1>4. CASE ~(\E k \in DOMAIN plan : Unresolved(plan[k]))
  <2>1. pc' = "target" /\ result'.kind = "none"
    BY <1>4 DEF Execute, Result
  <2>2. Resolved'
    BY <1>1, <1>2, <1>4, SelectorsResolve DEF Resolved
  <2>3. PlanInv'
    BY <1>1, <2>1, <2>2 DEF IInv, PlanInv, Running
  <2>4. ResultInv'
    BY <2>1 DEF ResultInv
  <2> QED
    BY <1>1, <1>2, <2>1, <2>3, <2>4, NothingAskedKeeps
<1> QED
  BY <1>3, <1>4

LEMMA OtherArchiveKeeps == IInv /\ OtherArchive => IInv'
<1> SUFFICES ASSUME IInv, OtherArchive PROVE IInv'
  OBVIOUS
<1>1. /\ pc = "ready" /\ pc' = "ready" /\ completed' = << >> /\ destinations' = << >>
      /\ archive' \in Archives /\ result'.kind = "none"
      /\ UNCHANGED <<plan, limit, size, accepted>>
  BY DEF OtherArchive, copyVars, Result
<1>2. PlanInv' /\ ResultInv'
  BY <1>1 DEF IInv, PlanInv, ResultInv, Running
<1> QED
  BY <1>1, <1>2, NothingAskedKeeps DEF IInv, TypeInv

-----------------------------------------------------------------------------
(* The next destination, for a caller that gives one and for one that fails. *)
LEMMA RequestKeeps == IInv /\ RequestDestination => IInv'
<1> SUFFICES ASSUME IInv, RequestDestination PROVE IInv'
  OBVIOUS
<1> DEFINE new == [selector |-> plan[Current], accepted |-> 0, flushed |-> FALSE]
           n == Len(completed) + 1
<1>1. /\ pc = "target" /\ Current \in DOMAIN plan /\ destinations' = Append(destinations, new)
      /\ UNCHANGED <<plan, archive, limit, completed>>
  BY DEF RequestDestination
<1>2. /\ plan \in Seq(Selectors) /\ archive \in Archives /\ limit \in Limits /\ size \in Nat /\ accepted \in Nat
      /\ completed \in Seq(Target) /\ destinations \in Seq(Destination)
      /\ Len(destinations) = Len(completed) /\ Resolved
      /\ \A j, k \in DOMAIN plan : plan[j] = plan[k] => j = k
  BY <1>1 DEF IInv, TypeInv, PlanInv, DestinationInv, Running
<1>3. /\ n \in DOMAIN plan /\ plan[n] \in Selectors /\ archive[plan[n]] \in Sizes /\ archive[plan[n]] \in Nat
      /\ Current = n /\ Len(plan) \in Nat /\ n \in Nat /\ n <= Len(plan)
  <2>1. Current = n /\ n \in DOMAIN plan /\ Len(plan) \in Nat /\ n \in Nat /\ n <= Len(plan)
    BY <1>1, <1>2 DEF Current
  <2>2. plan[n] \in Selectors /\ archive[plan[n]] \in Sizes
    BY <1>2, <2>1 DEF Resolved
  <2>3. Sizes \subseteq Nat
    BY PlanAssumption
  <2> QED
    BY <2>1, <2>2, <2>3
<1>4. new \in Destination /\ new.selector = plan[n] /\ new.accepted = 0 /\ new.flushed = FALSE
  BY <1>3 DEF Destination
<1> HIDE DEF new
<1>5. /\ destinations' \in Seq(Destination) /\ Len(destinations') = n
      /\ DOMAIN destinations' = 1 .. n /\ destinations'[n] = new
      /\ \A k \in 1 .. n - 1 : destinations'[k] = destinations[k]
  BY <1>1, <1>2, <1>4
<1>6. DestinationInv'
  BY <1>1, <1>2, <1>3, <1>4, <1>5 DEF IInv, DestinationInv, RequestDestination, TargetFails
<1>7. CompletedInv'
  <2>1. DOMAIN completed = 1 .. n - 1
    BY <1>2
  <2> QED
    BY <1>1, <1>5, <2>1 DEF IInv, CompletedInv, Fits
<1>8. CASE TargetFails("output", 0) /\ UNCHANGED copyVars
  <2>1. pc' = "ready" /\ UNCHANGED <<size, accepted>>
    BY <1>8 DEF TargetFails, copyVars
  <2>2. result'.kind = "target" /\ result'.at = n /\ result'.bytes = 0
    BY <1>3, <1>8 DEF TargetFails, Result
  <2>3. TypeInv' /\ PlanInv' /\ CopyInv'
    BY <1>1, <1>2, <1>5, <2>1 DEF IInv, TypeInv, PlanInv, CopyInv, Running, Resolved
  <2>4. ResultInv'
    BY <1>1, <1>3, <1>4, <1>5, <2>1, <2>2 DEF ResultInv
  <2> QED
    BY <1>6, <1>7, <2>3, <2>4 DEF IInv
<1>9. CASE pc' = "copy" /\ size' = archive[plan[Current]] /\ accepted' = 0 /\ outcome' = Copy!Running /\ UNCHANGED result
  <2>1. TypeInv' /\ PlanInv'
    BY <1>1, <1>2, <1>3, <1>5, <1>9 DEF IInv, TypeInv, PlanInv, Running, Resolved
  <2>2. Fits(0)'
    BY <1>1, <1>2, PlanAssumption DEF Fits
  <2>3. CopyInv'
    BY <1>1, <1>3, <1>4, <1>5, <1>9, <2>2 DEF CopyInv, Fits, Copy!Running
  <2>4. ResultInv'
    BY <1>1, <1>9 DEF IInv, ResultInv
  <2> QED
    BY <1>6, <1>7, <2>1, <2>3, <2>4 DEF IInv
<1> QED
  BY <1>8, <1>9 DEF RequestDestination

(* One destination changes, and not the selector it was asked for. *)
LEMMA LastDestination ==
  ASSUME destinations \in Seq(Destination), Len(destinations) > 0,
         NEW a \in Nat,
         destinations' = [destinations EXCEPT ![Len(destinations)].accepted = a]
  PROVE  /\ destinations' \in Seq(Destination) /\ Len(destinations') = Len(destinations)
         /\ \A k \in DOMAIN destinations :
              /\ destinations'[k].selector = destinations[k].selector
              /\ destinations'[k].flushed = destinations[k].flushed
              /\ destinations'[k].accepted = IF k = Len(destinations) THEN a ELSE destinations[k].accepted
<1> DEFINE n == Len(destinations)
           last == [destinations[n] EXCEPT !.accepted = a]
<1>1. n \in DOMAIN destinations /\ destinations[n] \in Destination
  OBVIOUS
<1>2. destinations' = [destinations EXCEPT ![n] = last]
  OBVIOUS
<1>3. /\ last \in Destination /\ last.selector = destinations[n].selector
      /\ last.flushed = destinations[n].flushed /\ last.accepted = a
  BY <1>1 DEF Destination
<1> HIDE DEF last
<1>4. /\ destinations' \in Seq(Destination) /\ Len(destinations') = n
      /\ \A k \in DOMAIN destinations : destinations'[k] = IF k = n THEN last ELSE destinations[k]
  BY <1>1, <1>2, <1>3
<1> QED
  BY <1>1, <1>3, <1>4

LEMMA CopyTargetKeeps == IInv /\ CopyTarget => IInv'
<1> SUFFICES ASSUME IInv, CopyTarget PROVE IInv'
  OBVIOUS
<1> DEFINE n == Len(destinations)
<1>1. /\ pc = "copy" /\ UNCHANGED <<plan, archive, completed>>
      /\ destinations' = [destinations EXCEPT ![n].accepted = accepted']
  BY DEF CopyTarget
<1>2. /\ plan \in Seq(Selectors) /\ archive \in Archives /\ limit \in Limits /\ size \in Nat /\ accepted \in Nat
      /\ completed \in Seq(Target) /\ destinations \in Seq(Destination)
      /\ n = Len(completed) + 1 /\ Current = n /\ Len(completed) \in Nat /\ Resolved
      /\ \A j, k \in DOMAIN plan : plan[j] = plan[k] => j = k
  BY <1>1 DEF IInv, TypeInv, PlanInv, DestinationInv, Running, Current
<1>3. /\ size = archive[plan[n]] /\ destinations[n].accepted = accepted /\ Fits(accepted)
      /\ outcome = Copy!Running
  BY <1>1 DEF IInv, CopyInv
<1>4. /\ accepted' \in Nat /\ Fits(accepted') /\ UNCHANGED <<size, limit>>
      /\ \/ outcome' = outcome
         \/ UNCHANGED accepted /\ outcome' \in {Copy!Unread, Copy!TooLong, [kind |-> "output", bytes |-> accepted]}
         \/ UNCHANGED accepted /\ accepted = size /\ outcome' = [kind |-> "complete", bytes |-> accepted]
  <2>1. CASE Copy!Accept
    BY <1>2, <2>1 DEF Copy!Accept, Copy!Fits, Fits
  <2>2. CASE Copy!Complete \/ Copy!OutputFails \/ Copy!LimitExceeded \/ Copy!ReadFails
    BY <1>2, <1>3, <2>2 DEF Copy!Complete, Copy!OutputFails, Copy!LimitExceeded, Copy!ReadFails, Copy!End
  <2> QED
    BY <2>1, <2>2 DEF CopyTarget, Copy!Next
<1>5. /\ destinations' \in Seq(Destination) /\ Len(destinations') = n
      /\ \A k \in DOMAIN destinations :
           /\ destinations'[k].selector = destinations[k].selector
           /\ destinations'[k].flushed = destinations[k].flushed
           /\ destinations'[k].accepted = IF k = n THEN accepted' ELSE destinations[k].accepted
  <2>1. Len(destinations) > 0
    BY <1>2
  <2>2. destinations' = [destinations EXCEPT ![Len(destinations)].accepted = accepted']
    BY <1>1
  <2> QED
    BY <1>2, <1>4, <2>1, <2>2, LastDestination
<1>6. DOMAIN destinations' = DOMAIN destinations /\ n \in DOMAIN destinations /\ destinations'[n].accepted = accepted'
  BY <1>2, <1>5
<1>7. CompletedInv'
  <2>1. \A k \in DOMAIN completed : k \in DOMAIN destinations /\ k # n
    BY <1>2
  <2> QED
    BY <1>1, <1>4, <1>5, <2>1 DEF IInv, CompletedInv, Fits
<1>8. /\ Len(destinations) <= Len(plan)
      /\ \A k \in DOMAIN destinations' :
           /\ destinations'[k].selector = plan'[k]
           /\ destinations'[k].flushed <=> k <= Len(completed')
  BY <1>1, <1>5, <1>6 DEF IInv, DestinationInv
<1>9. CASE outcome'.kind = "running" /\ UNCHANGED <<pc, result>> /\ outcome' = outcome
  <2>1. TypeInv' /\ PlanInv'
    BY <1>1, <1>2, <1>4, <1>5, <1>9 DEF IInv, TypeInv, PlanInv, Running, Resolved
  <2>2. DestinationInv' /\ CopyInv'
    BY <1>1, <1>2, <1>3, <1>4, <1>5, <1>6, <1>8, <1>9 DEF DestinationInv, CopyInv, Fits, Copy!Running
  <2>3. ResultInv'
    BY <1>1, <1>9 DEF IInv, ResultInv
  <2> QED
    BY <1>7, <2>1, <2>2, <2>3 DEF IInv
<1>10. CASE /\ pc' = "flush" /\ UNCHANGED <<result, accepted>>
            /\ outcome' = [kind |-> "complete", bytes |-> accepted] /\ accepted = size
  <2>1. TypeInv' /\ PlanInv'
    BY <1>1, <1>2, <1>4, <1>5, <1>10 DEF IInv, TypeInv, PlanInv, Running, Resolved
  <2>2. outcome'.bytes = accepted
    BY <1>10
  <2>3. DestinationInv' /\ CopyInv'
    BY <1>1, <1>2, <1>3, <1>4, <1>5, <1>6, <1>8, <1>10, <2>2 DEF DestinationInv, CopyInv, Fits
  <2>4. ResultInv'
    BY <1>1, <1>10 DEF IInv, ResultInv
  <2> QED
    BY <1>7, <2>1, <2>3, <2>4 DEF IInv
<1>11. CASE /\ TargetFails(outcome'.kind, outcome'.bytes) /\ UNCHANGED accepted
            /\ outcome'.kind = "output" => outcome'.bytes = accepted
  <2>1. pc' = "ready"
    BY <1>11 DEF TargetFails
  <2>2. /\ result'.kind = "target" /\ result'.at = n
        /\ result'.error = "output" => result'.bytes = accepted'
    BY <1>2, <1>11 DEF TargetFails, Result
  <2>3. TypeInv' /\ PlanInv'
    BY <1>1, <1>2, <1>4, <1>5, <2>1 DEF IInv, TypeInv, PlanInv, Running, Resolved
  <2>4. DestinationInv' /\ CopyInv'
    BY <1>1, <1>2, <1>4, <1>5, <1>6, <1>8, <2>1 DEF DestinationInv, CopyInv
  <2>5. ResultInv'
    BY <1>1, <1>2, <1>5, <1>6, <2>1, <2>2 DEF ResultInv
  <2> QED
    BY <1>7, <2>3, <2>4, <2>5 DEF IInv
<1>12. CASE outcome' = outcome
  <2>1. outcome'.kind = "running"
    BY <1>3, <1>12 DEF Copy!Running
  <2> QED
    BY <1>9, <1>12, <2>1 DEF CopyTarget
<1>13. CASE UNCHANGED accepted /\ outcome' \in {Copy!Unread, Copy!TooLong, [kind |-> "output", bytes |-> accepted]}
  <2>1. /\ outcome'.kind \in {"unread", "limit", "output"}
        /\ outcome'.kind = "output" => outcome'.bytes = accepted
    BY <1>13 DEF Copy!Unread, Copy!TooLong
  <2> QED
    BY <1>11, <1>13, <2>1 DEF CopyTarget
<1>14. CASE UNCHANGED accepted /\ accepted = size /\ outcome' = [kind |-> "complete", bytes |-> accepted]
  <2>1. outcome'.kind = "complete"
    BY <1>14
  <2> QED
    BY <1>10, <1>14, <2>1 DEF CopyTarget
<1> QED
  BY <1>4, <1>12, <1>13, <1>14

LEMMA FlushKeeps == IInv /\ Flush => IInv'
<1> SUFFICES ASSUME IInv, Flush PROVE IInv'
  OBVIOUS
<1> DEFINE n == Len(destinations)
           last == [destinations[n] EXCEPT !.flushed = TRUE]
           done == [selector |-> plan[n], bytes |-> outcome.bytes]
<1>1. /\ pc = "flush" /\ pc' = "target" /\ destinations' = [destinations EXCEPT ![n].flushed = TRUE]
      /\ completed' = Append(completed, [selector |-> plan[Current], bytes |-> outcome.bytes])
      /\ UNCHANGED <<plan, archive, limit, size, accepted, outcome, result>>
  BY DEF Flush, Completed, copyVars
<1>2. /\ plan \in Seq(Selectors) /\ archive \in Archives /\ limit \in Limits /\ size \in Nat /\ accepted \in Nat
      /\ completed \in Seq(Target) /\ destinations \in Seq(Destination)
      /\ n = Len(completed) + 1 /\ Current = n /\ Len(completed) \in Nat /\ Len(plan) \in Nat /\ n <= Len(plan)
      /\ Resolved
      /\ \A j, k \in DOMAIN plan : plan[j] = plan[k] => j = k
  BY <1>1 DEF IInv, TypeInv, PlanInv, DestinationInv, Running, Current
<1>3. /\ size = archive[plan[n]] /\ destinations[n].accepted = accepted /\ Fits(accepted)
      /\ accepted = size /\ outcome.bytes = accepted
  BY <1>1 DEF IInv, CopyInv
<1>4. /\ n \in DOMAIN destinations /\ n \in DOMAIN plan /\ plan[n] \in Selectors
      /\ destinations[n] \in Destination
  BY <1>2
<1>5. /\ last \in Destination /\ last.selector = destinations[n].selector
      /\ last.flushed = TRUE /\ last.accepted = accepted
  BY <1>3, <1>4 DEF Destination
<1>6. done \in Target /\ done.selector = plan[n] /\ done.bytes = accepted
  BY <1>2, <1>3, <1>4 DEF Target
<1>7. destinations' = [destinations EXCEPT ![n] = last] /\ completed' = Append(completed, done)
  BY <1>1, <1>2
<1> HIDE DEF last, done
<1>8. /\ destinations' \in Seq(Destination) /\ Len(destinations') = n /\ DOMAIN destinations' = 1 .. n
      /\ \A k \in DOMAIN destinations : destinations'[k] = IF k = n THEN last ELSE destinations[k]
  BY <1>2, <1>4, <1>5, <1>7
<1>9. /\ completed' \in Seq(Target) /\ Len(completed') = n /\ DOMAIN completed' = 1 .. n
      /\ \A k \in 1 .. n : completed'[k] = IF k = n THEN done ELSE completed[k]
  BY <1>2, <1>6, <1>7
<1>10. TypeInv' /\ PlanInv' /\ CopyInv'
  BY <1>1, <1>2, <1>8, <1>9 DEF TypeInv, PlanInv, CopyInv, Running, Resolved
<1>11. DestinationInv'
  BY <1>1, <1>2, <1>4, <1>5, <1>8, <1>9 DEF IInv, DestinationInv
<1>12. CompletedInv'
  <2> SUFFICES ASSUME NEW k \in 1 .. n
               PROVE  /\ completed'[k].selector = plan[k]
                      /\ completed'[k].bytes = destinations'[k].accepted
                      /\ destinations'[k].accepted = archive[plan[k]]
                      /\ Fits(completed'[k].bytes)
    BY <1>1, <1>9 DEF CompletedInv, Fits
  <2>1. CASE k = n
    BY <1>3, <1>4, <1>5, <1>6, <1>8, <1>9, <2>1
  <2>2. CASE k # n
    <3>1. k \in DOMAIN completed /\ k \in DOMAIN destinations
      BY <1>2, <2>2
    <3> QED
      BY <1>8, <1>9, <2>2, <3>1 DEF IInv, CompletedInv
  <2> QED
    BY <2>1, <2>2
<1>13. ResultInv'
  BY <1>1 DEF IInv, ResultInv
<1> QED
  BY <1>10, <1>11, <1>12, <1>13 DEF IInv

LEMMA FlushFailsKeeps == IInv /\ FlushFails => IInv'
<1> SUFFICES ASSUME IInv, FlushFails PROVE IInv'
  OBVIOUS
<1>1. /\ pc = "flush" /\ pc' = "ready" /\ result' = Result("target", "output", Current, outcome.bytes)
      /\ UNCHANGED <<plan, archive, limit, size, accepted, outcome, completed, destinations>>
  BY DEF FlushFails, TargetFails, copyVars
<1>2. /\ result'.kind = "target" /\ result'.at = Len(completed) + 1 /\ result'.bytes = outcome.bytes
  BY <1>1 DEF Result, Current
<1>3. /\ Len(destinations) = Len(completed) + 1
      /\ outcome.bytes = destinations[Len(destinations)].accepted
  BY <1>1 DEF IInv, DestinationInv, CopyInv
<1>4. ResultInv'
  BY <1>1, <1>2, <1>3 DEF ResultInv
<1>5. TypeInv' /\ PlanInv' /\ DestinationInv' /\ CompletedInv' /\ CopyInv'
  BY <1>1 DEF IInv, TypeInv, PlanInv, DestinationInv, CompletedInv, CopyInv, Running, Resolved, Fits
<1> QED
  BY <1>4, <1>5 DEF IInv

LEMMA AllDoneKeeps == IInv /\ AllDone => IInv'
<1> SUFFICES ASSUME IInv, AllDone PROVE IInv'
  OBVIOUS
<1>1. /\ pc = "target" /\ pc' = "ready" /\ Current \notin DOMAIN plan /\ result'.kind = "complete"
      /\ UNCHANGED <<plan, archive, limit, size, accepted, outcome, completed, destinations>>
  BY DEF AllDone, copyVars, Result
<1>2. Len(completed) = Len(plan)
  BY <1>1 DEF Current, IInv, TypeInv, DestinationInv
<1>3. ResultInv'
  BY <1>1, <1>2 DEF ResultInv
<1>4. TypeInv' /\ PlanInv' /\ DestinationInv' /\ CompletedInv' /\ CopyInv'
  BY <1>1 DEF IInv, TypeInv, PlanInv, DestinationInv, CompletedInv, CopyInv, Running, Resolved, Fits
<1> QED
  BY <1>3, <1>4 DEF IInv

LEMMA NextInv == IInv /\ [Next]_vars => IInv'
<1> SUFFICES ASSUME IInv, [Next]_vars PROVE IInv'
  OBVIOUS
<1>1. CASE UNCHANGED vars
  BY <1>1 DEF vars, IInv, TypeInv, PlanInv, DestinationInv, CompletedInv, CopyInv, ResultInv, Running, Resolved, Fits
<1> QED
  BY <1>1, BuildKeeps, ExecuteKeeps, OtherArchiveKeeps, RequestKeeps, CopyTargetKeeps,
     FlushKeeps, FlushFailsKeeps, AllDoneKeeps DEF Next

-----------------------------------------------------------------------------
LEMMA InvariantHolds == Spec => []IInv
<1>1. Init => IInv
  BY InitInv
<1>2. IInv /\ [Next]_vars => IInv'
  BY NextInv
<1> QED
  BY <1>1, <1>2, PTL DEF Spec

(* Nothing is asked for before all of the plan resolves, and then in its order. *)
THEOREM PlanOrderIsKept == Spec => []DestinationsFollowThePlan
<1>1. IInv => DestinationsFollowThePlan
  <2> SUFFICES ASSUME IInv PROVE DestinationsFollowThePlan
    OBVIOUS
  <2>1. destinations # << >> => Resolved
    BY DEF IInv, PlanInv
  <2>2. \A k \in DOMAIN destinations : k \in DOMAIN plan /\ destinations[k].selector = plan[k]
    BY DEF IInv, TypeInv, DestinationInv
  <2>3. \A j, k \in DOMAIN destinations : destinations[j].selector = destinations[k].selector => j = k
    <3>1. CASE pc \in {"new", "rejected"}
      BY <3>1 DEF IInv, PlanInv
    <3>2. CASE pc \notin {"new", "rejected"}
      BY <2>2, <3>2 DEF IInv, PlanInv
    <3> QED
      BY <3>1, <3>2
  <2>4. Len(destinations) <= Len(completed) + 1
    BY DEF IInv, TypeInv, DestinationInv
  <2> QED
    BY <2>1, <2>2, <2>3, <2>4 DEF DestinationsFollowThePlan, Resolved, IInv, ResultInv
<1> QED
  BY <1>1, InvariantHolds, PTL

(* What is reported as completed was accepted whole, within the budget, and flushed. *)
THEOREM CompletedTargetsAreWritten == Spec => []CompletedIsWritten
<1>1. IInv => CompletedIsWritten
  <2> SUFFICES ASSUME IInv PROVE CompletedIsWritten
    OBVIOUS
  <2>1. \A k \in DOMAIN completed : k \in DOMAIN destinations /\ k <= Len(completed)
    BY DEF IInv, TypeInv, DestinationInv
  <2>2. \A k \in DOMAIN completed : destinations[k].flushed
    BY <2>1 DEF IInv, DestinationInv
  <2> QED
    BY <2>2 DEF CompletedIsWritten, IInv, CompletedInv, ResultInv, Fits
<1> QED
  BY <1>1, InvariantHolds, PTL

(* A failing target is named by its place, with the bytes its writer accepted. *)
THEOREM FailuresNameTheirTarget == Spec => []FailureNamesItsTarget
<1>1. IInv => FailureNamesItsTarget
  <2> SUFFICES ASSUME IInv, result.kind = "target" PROVE FailureNamesItsTarget
    BY DEF FailureNamesItsTarget
  <2>1. /\ result.at = Len(completed) + 1 /\ result.at = Len(destinations)
        /\ result.error = "output" => result.bytes = destinations[result.at].accepted
    BY DEF IInv, ResultInv
  <2>2. Len(completed) \in Nat /\ result.at \in DOMAIN destinations /\ ~(result.at <= Len(completed))
    BY <2>1 DEF IInv, TypeInv
  <2>3. ~destinations[result.at].flushed
    BY <2>2 DEF IInv, DestinationInv
  <2> QED
    BY <2>1, <2>3 DEF FailureNamesItsTarget
<1> QED
  BY <1>1, InvariantHolds, PTL
=============================================================================
