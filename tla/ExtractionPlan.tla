---------------------------- MODULE ExtractionPlan ----------------------------
(***************************************************************************)
(* ExtractionPlan of crates/pgdumpx/src/extraction_plan.rs: building a     *)
(* plan, and executing it, one or more times, against archives.  Each      *)
(* target's bytes are copied by copy_entry_to, taken at its word: it is an *)
(* EntryCopy, which RawEntry implements.                                   *)
(***************************************************************************)
EXTENDS Integers, Sequences

CONSTANTS
  Selectors,   \* table selectors
  Plans,       \* sequences of selectors a caller may ask for
  NoTable,     \* the archive has no such table
  NoData,      \* the table has no TABLE DATA entry
  Sizes,       \* numbers of bytes a TABLE DATA entry decodes to
  Limits,      \* EntryReadLimits, or Unlimited
  Unlimited,
  MaxRuns      \* bound: executions of one plan

ASSUME PlanAssumption ==
  /\ Plans \subseteq Seq(Selectors)
  /\ Sizes \subseteq Nat
  /\ Limits \subseteq Nat \cup {Unlimited}
  /\ Unlimited \notin Nat
  /\ NoTable \notin Nat /\ NoData \notin Nat

VARIABLES
  plan,         \* selectors
  pc,           \* "new", "ready", "target", "copy" or "flush"
  archive,      \* what each selector resolves to in the archive being read
  size, limit, accepted, outcome,  \* the copy of the current target, an EntryCopy
  completed,    \* completed
  destinations, \* history: the destinations asked for, and what became of them
  result,       \* history: what the last execution or construction returned
  runs          \* executions so far

vars == <<plan, pc, archive, size, limit, accepted, outcome, completed, destinations, result, runs>>
copyVars == <<size, accepted, outcome>>

Copy == INSTANCE EntryCopy

Archives == [Selectors -> Sizes \cup {NoTable, NoData}]

Result(kind, error, at, bytes) == [kind |-> kind, error |-> error, at |-> at, bytes |-> bytes]

Init ==
  /\ plan \in Plans
  /\ pc = "new"
  /\ archive \in Archives
  /\ limit \in Limits
  /\ size = 0 /\ accepted = 0 /\ outcome = Copy!Running
  /\ completed = << >>
  /\ destinations = << >>
  /\ result = Result("none", "none", 0, 0)
  /\ runs = 0

-----------------------------------------------------------------------------
\* Mutant: a selector is compared with its predecessor only.
RepeatsNeighbour(i) == i > 1 /\ plan[i] = plan[i - 1]

Repeats(i) == \E j \in 1 .. i - 1 : plan[j] = plan[i]

(* first_duplicate_index, counted from one; 0 when there is none. *)
FirstDuplicate ==
  IF \E i \in DOMAIN plan : Repeats(i)
  THEN CHOOSE i \in DOMAIN plan : Repeats(i) /\ \A j \in 1 .. i - 1 : ~Repeats(j)
  ELSE 0

(* with_entry_read_limits; reserving the index of a non-empty plan may fail. *)
Build ==
  /\ pc = "new"
  /\ \/ FirstDuplicate = 0 /\ pc' = "ready" /\ UNCHANGED result
     \/ /\ FirstDuplicate # 0
        /\ pc' = "rejected"
        /\ result' = Result("plan", "DuplicateSelector", FirstDuplicate, 0)
     \/ /\ plan # << >>
        /\ pc' = "rejected"
        /\ result' = Result("plan", "DuplicateIndexAllocationFailed", 1, 0)
  /\ UNCHANGED <<plan, archive, limit, copyVars, completed, destinations, runs>>

Unresolved(s) == archive[s] \in {NoTable, NoData}

(* execute: every selector is resolved before anything else happens. *)
Execute ==
  /\ pc = "ready"
  /\ runs < MaxRuns
  /\ runs' = runs + 1
  /\ completed' = << >>
  /\ destinations' = << >>
  /\ IF \E i \in DOMAIN plan : Unresolved(plan[i])
     THEN LET i == CHOOSE i \in DOMAIN plan :
                     Unresolved(plan[i]) /\ \A j \in 1 .. i - 1 : ~Unresolved(plan[j])
          IN  /\ result' = Result("preflight",
                              IF archive[plan[i]] = NoTable THEN "TableNotFound"
                              ELSE "TableDataEntryUnavailable", i, 0)
              /\ UNCHANGED pc
     ELSE pc' = "target" /\ result' = Result("none", "none", 0, 0)
  /\ UNCHANGED <<plan, archive, limit, copyVars>>

Current == Len(completed) + 1

(* The first failing target ends the execution. *)
TargetFails(error, bytes) ==
  /\ pc' = "ready"
  /\ result' = Result("target", error, Current, bytes)

RequestDestination ==
  /\ pc = "target"
  /\ Current \in DOMAIN plan
  /\ destinations' = Append(destinations,
                       [selector |-> plan[Current], accepted |-> 0, flushed |-> FALSE])
  /\ \/ TargetFails("output", 0) /\ UNCHANGED copyVars
     \/ /\ pc' = "copy"
        /\ size' = archive[plan[Current]]
        /\ accepted' = 0
        /\ outcome' = Copy!Running
        /\ UNCHANGED result
  /\ UNCHANGED <<plan, archive, limit, completed, runs>>

(* A step of copy_entry_to for the current target. *)
CopyTarget ==
  /\ pc = "copy"
  /\ Copy!Next
  /\ destinations' = [destinations EXCEPT ![Len(destinations)].accepted = accepted']
  /\ CASE outcome'.kind = "running"  -> UNCHANGED <<pc, result>>
       [] outcome'.kind = "complete" -> pc' = "flush" /\ UNCHANGED result
       [] OTHER                      -> TargetFails(outcome'.kind, outcome'.bytes)
  /\ UNCHANGED <<plan, archive, completed, runs>>

Completed == Append(completed, [selector |-> plan[Current], bytes |-> outcome.bytes])

\* Mutant: the target counts as completed once it is copied, flushed or not.
CompletedBeforeFlush ==
  /\ pc = "flush"
  /\ completed' = Completed
  /\ pc' = "target"
  /\ UNCHANGED <<plan, archive, limit, copyVars, destinations, result, runs>>

Flush ==
  /\ pc = "flush"
  /\ completed' = Completed
  /\ destinations' = [destinations EXCEPT ![Len(destinations)].flushed = TRUE]
  /\ pc' = "target"
  /\ UNCHANGED <<plan, archive, limit, copyVars, result, runs>>

FlushFails ==
  /\ pc = "flush"
  /\ TargetFails("output", outcome.bytes)
  /\ UNCHANGED <<plan, archive, limit, copyVars, completed, destinations, runs>>

AllDone ==
  /\ pc = "target"
  /\ Current \notin DOMAIN plan
  /\ pc' = "ready"
  /\ result' = Result("complete", "none", 0, 0)
  /\ UNCHANGED <<plan, archive, limit, copyVars, completed, destinations, runs>>

(* The caller takes the plan to another archive; archives do not change. *)
OtherArchive ==
  /\ pc = "ready"
  /\ runs < MaxRuns
  /\ archive' \in Archives
  /\ result' = Result("none", "none", 0, 0)
  /\ completed' = << >> /\ destinations' = << >>
  /\ UNCHANGED <<plan, pc, limit, copyVars, runs>>

Next ==
  \/ Build \/ Execute \/ OtherArchive
  \/ RequestDestination \/ CopyTarget \/ Flush \/ FlushFails \/ AllDone

Spec == Init /\ [][Next]_vars

-----------------------------------------------------------------------------
(* A destination is asked for only when the whole plan resolves in this archive,
   in plan order, one per selector and never two for the same one, and none after
   the target that failed; a preflight error names the first selector that does
   not resolve.                                                                    *)
DestinationsFollowThePlan ==
  /\ destinations # << >> => \A i \in DOMAIN plan : archive[plan[i]] \in Sizes
  /\ \A i \in DOMAIN destinations : destinations[i].selector = plan[i]
  /\ \A i, j \in DOMAIN destinations :
       destinations[i].selector = destinations[j].selector => i = j
  /\ Len(destinations) <= Len(completed) + 1
  /\ result.kind = "preflight" =>
       /\ destinations = << >>
       /\ archive[plan[result.at]] \in {NoTable, NoData}
       /\ \A j \in 1 .. result.at - 1 : archive[plan[j]] \in Sizes

(* A target is reported as completed only when its destination has accepted the
   whole entry, within the budget, and has been flushed; success is all of them. *)
CompletedIsWritten ==
  /\ \A i \in DOMAIN completed :
       /\ completed[i].selector = plan[i]
       /\ completed[i].bytes = destinations[i].accepted
       /\ destinations[i].accepted = archive[plan[i]]
       /\ limit # Unlimited => completed[i].bytes <= limit
       /\ destinations[i].flushed
  /\ result.kind = "complete" => Len(completed) = Len(plan)

(* A target error names the target whose destination was asked for last, after the
   completed ones; an output error gives the bytes that destination accepted.      *)
FailureNamesItsTarget ==
  result.kind = "target" =>
    /\ result.at = Len(completed) + 1
    /\ result.at = Len(destinations)
    /\ ~destinations[result.at].flushed
    /\ result.error = "output" => result.bytes = destinations[result.at].accepted
=============================================================================
