--------------------------- MODULE ActivityRecord ---------------------------
(***************************************************************************)
(* The summary of a turn that the activity recorder keeps                  *)
(* (activityTurnRecord in codex/activity.go; add and applyMetadata in      *)
(* codex/activity_recording.go) and the state it derives from what it has  *)
(* observed (activityState).                                               *)
(*                                                                         *)
(* Times are milliseconds, 0 for none.  The server reports whole seconds.  *)
(***************************************************************************)
EXTENDS Integers

CONSTANT Second  \* milliseconds in a second (1000 in the code)

ASSUME SecondAssumption == Second \in Nat \ {0}

Later(a, b) == IF a > b THEN a ELSE b

\* The whole second at or before a time.
WholeSecond(t) == (t \div Second) * Second

Blank ==
  [sequence |-> 0, started |-> 0, completed |-> 0, working |-> 0, waiting |-> 0,
   first |-> 0, through |-> 0, tailSecond |-> 0, tailWork |-> 0, tailWait |-> 0,
   final |-> FALSE, unknown |-> FALSE]

Records ==
  [sequence : Nat, started : Nat, completed : Nat, working : Nat, waiting : Nat,
   first : Nat, through : Nat, tailSecond : Nat, tailWork : Nat, tailWait : Nat,
   final : BOOLEAN, unknown : BOOLEAN]

\* add: the time from..to was spent in state.
Add(r, state, from, to) ==
  LET second == WholeSecond(to)
      tail == to - Later(from, second)
      carried(t) == IF r.tailSecond = second THEN t ELSE 0
      work == state = "working"
  IN [r EXCEPT
        !.sequence = @ + 1,
        !.first = IF @ = 0 THEN from ELSE @,
        !.through = to,
        !.working = IF work THEN @ + (to - from) ELSE @,
        !.waiting = IF work THEN @ ELSE @ + (to - from),
        !.tailSecond = second,
        !.tailWork = IF work THEN carried(@) + tail ELSE carried(@),
        !.tailWait = IF work THEN carried(@) ELSE carried(@) + tail]

\* The record ends at the second it was completed in: what was counted of that
\* second is taken back.
Cut(r, end) ==
  [r EXCEPT
     !.working = @ - r.tailWork,
     !.waiting = @ - r.tailWait,
     !.through = end,
     !.tailWork = 0,
     !.tailWait = 0,
     !.first = IF r.working - r.tailWork + r.waiting - r.tailWait = 0 THEN end ELSE @]

\* The boundaries of the turn, as the server reports them, meet the record.
Completed(r, end) ==
  LET over == r.through > end
      cut == over /\ r.tailSecond = end
      c == IF cut THEN Cut(r, end) ELSE r
  IN [c EXCEPT
        !.completed = end,
        !.unknown = @ \/ (over /\ ~cut) \/ (c.first > 0 /\ c.first < c.started),
        !.final = c.started > 0]

\* applyMetadata, for a turn started and completed at the given seconds.
ApplyMetadata(r, turn) ==
  IF r.final THEN r
  ELSE LET known == [r EXCEPT !.sequence = @ + 1,
                              !.started = IF turn.started > 0 THEN turn.started ELSE @]
       IN IF turn.completed = 0 THEN known ELSE Completed(known, turn.completed)

\* seedCurrent: the time counted since adds to what was saved.
Reopened(saved, r) ==
  LET s == IF r.working + r.waiting > 0
           THEN [saved EXCEPT !.working = @ + r.working, !.waiting = @ + r.waiting,
                              !.through = r.through, !.tailSecond = r.tailSecond,
                              !.tailWork = r.tailWork, !.tailWait = r.tailWait]
           ELSE saved
  IN [s EXCEPT !.final = FALSE, !.sequence = Later(saved.sequence, r.sequence) + 1]

-----------------------------------------------------------------------------
\* The category a flag of the native status speaks of.
FlagCategory(flag) ==
  IF flag = "waitingOnApproval" THEN "approval"
  ELSE IF flag = "waitingOnUserInput" THEN "userInput" ELSE ""

\* activityState.  A flag without its request, a request of a kind that is not
\* known, or more than can be kept leave the state unclassified.
ActivityState(o) ==
  IF o.overflow \/ \E q \in o.requests : q.category = "unknown" THEN "unclassified"
  ELSE IF (\E q \in o.requests : q.blocking) \/ (o.active /\ o.toolWaits # {}) THEN "waiting"
  ELSE IF ~o.ready THEN "unclassified"
  ELSE IF \E f \in o.flags : /\ FlagCategory(f) # ""
                             /\ \A q \in o.requests : q.category # FlagCategory(f)
       THEN "unclassified"
  ELSE IF o.active THEN "working" ELSE "idle"
=============================================================================
