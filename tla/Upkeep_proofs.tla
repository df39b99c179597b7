---------------------------- MODULE Upkeep_proofs ----------------------------
(***************************************************************************)
(* Proofs about what the program does by itself.                           *)
(*                                                                         *)
(* ReportLifecycle, for any policies, dates and threads.  A write computed  *)
(* from a stale row may undo another one, but whatever expiration it carries *)
(* was within a policy on the day it was computed, and days only pass: it    *)
(* still is when it is written.  As long as no two handlers, and no handler *)
(* and the Cleaning job, overlap, what is in flight was read from the report *)
(* as it still is.                                                         *)
(*                                                                         *)
(* Upgrade, for any tables, schemas, scripts and stops.  The file in place  *)
(* changes in one step; until then it is what the copy was made of, and the *)
(* counts of the copy never fall below what was copied.                     *)
(*                                                                         *)
(* Certificates, for any tenants, keys and periods.  What the map holds is  *)
(* what was stored at the last step that told it, under the name of then:   *)
(* each step moves what one tenant has, and names are apart.  The job has   *)
(* warned of what ends before tomorrow's run wherever it has been today,    *)
(* and of what ended before today's everywhere.                             *)
(***************************************************************************)
EXTENDS MCUpkeep, TLAPS

Bounded(date) == TTL > 0 => \E days \in Policies : date <= In(days)

\* What is about to be written is within the policies too.
WritesBounded == \A w \in Workers : tx[w] # Idle => Bounded(tx[w].new.expiration)

IInv == TypeOK /\ RetentionBounded /\ WritesBounded

-----------------------------------------------------------------------------
LEMMA Numbers ==
    /\ TTL \in Nat /\ Reminder \in Nat /\ Floor \in Nat /\ Year \in Nat /\ Never \in Nat
    /\ Dates \subseteq Nat
BY ReportLifecycleAssumption

LEMMA LongestNat == Larger(Year, 2 * TTL) \in Nat
BY Numbers DEF Larger

LEMMA PoliciesNat == Policies \subseteq Nat
<1>1. \A s \in SubStatuses : SubTTL[s] \in Nat
  BY ReportLifecycleAssumption
<1> QED
  BY <1>1, Numbers, LongestNat DEF Policies

LEMMA InNat ==
    ASSUME today \in Nat, NEW days \in Policies
    PROVE  In(days) \in Nat /\ In(days) <= In(days)
<1>1. days \in Nat
  BY PoliciesNat
<1> QED
  BY <1>1 DEF In

LEMMA Unlimited == TTL = 0 => \A date : Bounded(date)
BY DEF Bounded

LEMMA UntilTTL == \/ Until(TTL) = In(TTL)
                  \/ TTL = 0 /\ Until(TTL) = Never
BY Numbers DEF Until

\* An expiration is left alone, set by a policy, or unlimited with the channel.
LEMMA ExpirationSources ==
    ASSUME NEW r, NEW status, NEW sub \in SubStatuses \cup {""}
    PROVE  \/ ExpirationAfter(r, status, sub) = r.expiration
           \/ \E days \in Policies : ExpirationAfter(r, status, sub) = In(days)
           \/ TTL = 0 /\ ExpirationAfter(r, status, sub) = Never
<1>1. CASE r.status = "closed" /\ status = "opened"
  <2>1. ExpirationAfter(r, status, sub) = Until(TTL)
    BY <1>1 DEF ExpirationAfter
  <2>2. TTL \in Policies
    BY DEF Policies
  <2> QED
    BY <2>1, <2>2, UntilTTL
<1>2. CASE ~(r.status = "closed" /\ status = "opened") /\ status = "closed" /\ sub # ""
  <2>1. SubTTL[sub] \in Policies
    BY <1>2 DEF Policies
  <2> QED
    BY <1>2, <2>1 DEF ExpirationAfter
<1> QED
  BY <1>1, <1>2 DEF ExpirationAfter

\* What a handler computes from a report is a report.
LEMMA ComputedTypes ==
    ASSUME today \in Nat, NEW r \in Report
    PROVE  /\ \A status \in Statuses, sub \in SubStatuses \cup {""} : WithStatus(r, status, sub) \in Report
           /\ AfterRead(r) \in Report
           /\ \A date \in Nat : [r EXCEPT !.expiration = Postponed(r, date)] \in Report
           /\ \A date \in Nat : [r EXCEPT !.reminder = Smaller(date, Never)] \in Report
<1> USE Numbers
<1>1. ASSUME NEW q \in Report, NEW status \in Statuses, NEW sub \in SubStatuses \cup {""}
      PROVE  WithStatus(q, status, sub) \in Report
  <2>1. NewSub(q, sub) \in SubStatuses \cup {NoSub}
    BY DEF NewSub, StoredSub
  <2>2. ExpirationAfter(q, status, sub) \in Nat
    <3>1. q.expiration \in Nat
      BY DEF Report
    <3>2. CASE \E days \in Policies : ExpirationAfter(q, status, sub) = In(days)
      BY <3>2, InNat
    <3> QED
      BY <3>1, <3>2, ExpirationSources
  <2>3. ReminderAfter(q, status) \in Nat
    BY DEF ReminderAfter, Report
  <2> QED
    BY <2>1, <2>2, <2>3 DEF WithStatus, Report
<1>2. AfterRead(r) \in Report
  <2>1. [r EXCEPT !.reminder = IF @ <= today THEN Never ELSE @] \in Report
    BY DEF Report
  <2>2. "opened" \in Statuses
    BY DEF Statuses
  <2> QED
    BY <1>1, <2>1, <2>2 DEF AfterRead
<1>3. ASSUME NEW date \in Nat PROVE [r EXCEPT !.expiration = Postponed(r, date)] \in Report
  <2>1. Postponed(r, date) \in Nat
    BY DEF Postponed, Earliest, Latest, Smaller, Larger, In, Report
  <2> QED
    BY <2>1 DEF Report
<1>4. ASSUME NEW date \in Nat PROVE [r EXCEPT !.reminder = Smaller(date, Never)] \in Report
  BY DEF Smaller, Report
<1> QED
  BY <1>1, <1>2, <1>3, <1>4

\* What a handler computes from a report within the policies is within them.
LEMMA ComputedBounded ==
    ASSUME today \in Nat, NEW r \in Report, Bounded(r.expiration)
    PROVE  /\ \A status \in Statuses, sub \in SubStatuses \cup {""} :
                 Bounded(WithStatus(r, status, sub).expiration)
           /\ Bounded(AfterRead(r).expiration)
           /\ \A date \in Nat : Bounded(Postponed(r, date))
<1> USE Numbers
<1>1. ASSUME NEW q \in Report, Bounded(q.expiration),
             NEW status \in Statuses, NEW sub \in SubStatuses \cup {""}
      PROVE  Bounded(WithStatus(q, status, sub).expiration)
  <2>1. WithStatus(q, status, sub).expiration = ExpirationAfter(q, status, sub)
    BY DEF WithStatus
  <2>2. CASE \E days \in Policies : ExpirationAfter(q, status, sub) = In(days)
    BY <2>1, <2>2, InNat DEF Bounded
  <2>3. CASE ExpirationAfter(q, status, sub) = q.expiration
    BY <1>1, <2>1, <2>3 DEF Bounded
  <2>4. CASE TTL = 0
    BY <2>4, Unlimited
  <2>5. \/ ExpirationAfter(q, status, sub) = q.expiration
        \/ \E days \in Policies : ExpirationAfter(q, status, sub) = In(days)
        \/ TTL = 0
    BY ExpirationSources
  <2> QED
    BY <2>2, <2>3, <2>4, <2>5
<1>2. Bounded(AfterRead(r).expiration)
  <2> DEFINE seen == [r EXCEPT !.reminder = IF @ <= today THEN Never ELSE @]
  <2>1. seen \in Report /\ seen.expiration = r.expiration
    BY DEF Report
  <2>2. "opened" \in Statuses
    BY DEF Statuses
  <2> QED
    BY <1>1, <2>1, <2>2 DEF AfterRead
<1>3. ASSUME NEW date \in Nat PROVE Bounded(Postponed(r, date))
  <2> SUFFICES ASSUME TTL > 0 PROVE \E days \in Policies : Postponed(r, date) <= In(days)
    BY DEF Bounded
  <2>1. PICK days \in Policies : r.expiration <= In(days)
    BY DEF Bounded
  <2>2. days \in Nat /\ r.expiration \in Nat
    BY <2>1, PoliciesNat DEF Report
  <2>3. Earliest(r) <= In(days)
    BY <2>1, <2>2 DEF Earliest, Smaller, In
  <2>4. Latest = In(Larger(Year, 2 * TTL)) /\ Larger(Year, 2 * TTL) \in Policies \cap Nat
    BY DEF Latest, Policies, Larger
  <2>5. CASE date <= Earliest(r)
    BY <2>1, <2>3, <2>5 DEF Postponed
  <2>6. CASE ~(date <= Earliest(r))
    <3>1. Postponed(r, date) <= Latest
      BY <2>4, <2>6 DEF Postponed, In
    <3> QED
      BY <2>4, <3>1
  <2> QED
    BY <2>5, <2>6
<1> QED
  BY <1>1, <1>2, <1>3

\* What is written is a report, within the policies if its two sources are.
LEMMA WrittenReport ==
    ASSUME NEW row \in Report, NEW t \in Tx
    PROVE  /\ Written(row, t) \in Report
           /\ Written(row, t).expiration \in {row.expiration, t.new.expiration}
<1>1. DOMAIN row = {"status", "substatus", "expiration", "reminder"}
  BY DEF Report
<1>2. t.new \in Report
  BY DEF Tx
<1>3. Written(row, t) =
        [status     |-> IF t.new.status # t.old.status THEN t.new.status ELSE row.status,
         substatus  |-> IF t.new.substatus # t.old.substatus THEN t.new.substatus ELSE row.substatus,
         expiration |-> IF t.new.expiration # t.old.expiration THEN t.new.expiration ELSE row.expiration,
         reminder   |-> IF t.new.reminder # t.old.reminder THEN t.new.reminder ELSE row.reminder]
  BY <1>1 DEF Written
<1> QED
  BY <1>2, <1>3 DEF Report

\* A date within the policies stays within them as days pass.
LEMMA BoundedLater ==
    ASSUME today \in Nat, NEW date \in Nat, Bounded(date), today' = today + 1
    PROVE  Bounded(date)'
<1> SUFFICES ASSUME TTL > 0 PROVE \E days \in Policies : date <= today' + days + 1
  BY DEF Bounded, In, Policies, Larger
<1>1. PICK days \in Policies : date <= today + days + 1
  BY DEF Bounded, In
<1>2. days \in Nat
  BY <1>1, PoliciesNat
<1> QED
  BY <1>1, <1>2

-----------------------------------------------------------------------------
\* The inductive invariant holds throughout.
THEOREM Invariant == Spec => []IInv
<1> USE Numbers
<1>1. Init => IInv
  <2> SUFFICES ASSUME Init PROVE IInv
    OBVIOUS
  <2>1. report \in Report
    BY DEF Init, Report, Statuses, Until, In
  <2>2. TypeOK
    BY <2>1 DEF Init, TypeOK
  <2>3. RetentionBounded
    BY DEF Init, RetentionBounded, Policies, Until, In
  <2> QED
    BY <2>2, <2>3 DEF Init, IInv, WritesBounded
<1>2. IInv /\ [Next]_vars => IInv'
  <2> SUFFICES ASSUME IInv, [Next]_vars PROVE IInv'
    OBVIOUS
  <2> USE DEF IInv
  <2>1. report # Gone => report \in Report /\ Bounded(report.expiration)
    BY DEF TypeOK, RetentionBounded, Bounded
  <2>2. CASE Tick
    <3>1. TypeOK'
      BY <2>2 DEF Tick, TypeOK
    <3>2. report # Gone => Bounded(report.expiration)'
      <4>1. report # Gone => report.expiration \in Nat
        BY DEF TypeOK, Report
      <4>2. report # Gone => \E days \in Policies : TTL > 0 => report.expiration <= today' + days + 1
        BY <2>1, <2>2, <4>1, PoliciesNat, BoundedLater DEF Tick, TypeOK, Bounded, In, Policies, Larger
      <4> QED
        BY <2>2, <4>2 DEF Tick, Bounded, In
    <3>3. ASSUME NEW w \in Workers, tx[w] # Idle PROVE Bounded(tx[w].new.expiration)'
      <4>1. tx[w].new.expiration \in Nat
        BY <3>3 DEF TypeOK, Tx, Report
      <4> QED
        BY <2>2, <3>3, <4>1, PoliciesNat DEF Tick, TypeOK, WritesBounded, Bounded, In
    <3> QED
      BY <2>2, <3>1, <3>2, <3>3 DEF Tick, RetentionBounded, WritesBounded, Bounded
  <2>3. ASSUME NEW w \in Workers, NEW op \in {"read", "status", "postpone", "remind", "delete"},
               NEW new, Begin(w, op, new),
               report # Gone => new \in Report /\ Bounded(new.expiration)
        PROVE  IInv'
    <3>1. TypeOK'
      BY <2>1, <2>3 DEF Begin, TypeOK, Tx
    <3>2. WritesBounded'
      BY <2>3 DEF Begin, TypeOK, WritesBounded, Bounded, In
    <3> QED
      BY <2>3, <3>1, <3>2 DEF Begin, RetentionBounded, In
  <2>4. today \in Nat
    BY DEF TypeOK
  <2>5. ASSUME NEW w \in Workers, ReadReport(w) PROVE IInv'
    BY <2>1, <2>3, <2>4, <2>5, ComputedTypes, ComputedBounded DEF ReadReport
  <2>6. ASSUME NEW w \in Workers, NEW status \in Statuses, NEW sub \in SubStatuses \cup {""},
               ChangeStatus(w, status, sub)
        PROVE  IInv'
    BY <2>1, <2>3, <2>4, <2>6, ComputedTypes, ComputedBounded DEF ChangeStatus
  <2>7. ASSUME NEW w \in Workers, NEW date \in Dates, Postpone(w, date) PROVE IInv'
    <3> DEFINE new == [report EXCEPT !.expiration = Postponed(report, date)]
    <3>1. report # Gone => new \in Report /\ new.expiration = Postponed(report, date)
      BY <2>1, <2>4, ComputedTypes DEF Report
    <3>2. report # Gone => Bounded(new.expiration)
      BY <2>1, <2>4, <3>1, ComputedBounded
    <3> QED
      BY <2>3, <2>7, <3>1, <3>2 DEF Postpone
  <2>8. ASSUME NEW w \in Workers, NEW date \in Dates, Remind(w, date) PROVE IInv'
    <3> DEFINE new == [report EXCEPT !.reminder = Smaller(date, Never)]
    <3>1. report # Gone => new \in Report /\ new.expiration = report.expiration
      BY <2>1, <2>4, ComputedTypes DEF Report
    <3> QED
      BY <2>1, <2>3, <2>8, <3>1 DEF Remind
  <2>9. ASSUME NEW w \in Workers, DeleteReport(w) PROVE IInv'
    BY <2>1, <2>3, <2>9 DEF DeleteReport
  <2>10. ASSUME NEW w \in Workers, Commit(w) PROVE IInv'
    <3>1. tx[w] \in Tx /\ report \in Report /\ Bounded(tx[w].new.expiration)
      BY <2>10 DEF Commit, TypeOK, WritesBounded
    <3>2. TypeOK'
      BY <2>10, <3>1, WrittenReport DEF Commit, TypeOK
    <3>3. Written(report, tx[w]).expiration \in {report.expiration, tx[w].new.expiration}
      BY <3>1, WrittenReport
    <3>4. Bounded(Written(report, tx[w]).expiration)
      BY <2>1, <2>10, <3>1, <3>3 DEF Commit
    <3>5. RetentionBounded'
      BY <2>10, <3>4 DEF Commit, RetentionBounded, Bounded, In
    <3>6. WritesBounded'
      BY <2>10 DEF Commit, TypeOK, WritesBounded, Bounded, In
    <3> QED
      BY <3>2, <3>5, <3>6
  <2>11. ASSUME NEW w \in Workers, Abort(w) PROVE IInv'
    <3>1. WritesBounded'
      BY <2>11 DEF Abort, TypeOK, WritesBounded, Bounded, In
    <3> QED
      BY <2>11, <3>1 DEF Abort, TypeOK, RetentionBounded, In
  <2>12. CASE SweepBegin \/ SweepAbort \/ UNCHANGED vars
    BY <2>12 DEF SweepBegin, SweepAbort, vars, TypeOK, RetentionBounded, WritesBounded, Bounded, In
  <2>13. CASE SweepCommit
    BY <2>13 DEF SweepCommit, TypeOK, RetentionBounded, WritesBounded, Bounded, In
  <2> QED
    BY <2>2, <2>5, <2>6, <2>7, <2>8, <2>9, <2>10, <2>11, <2>12, <2>13 DEF Next
<1> QED
  BY <1>1, <1>2, PTL DEF Spec

\* However requests and their stale reads interleave, the expiration of a report of
\* a channel with a retention is always within one of the policies from today.
THEOREM Retained == Spec => []RetentionBounded
BY Invariant, PTL DEF IInv

\* The variables keep their types.
THEOREM TypeCorrect == Spec => []TypeOK
BY Invariant, PTL DEF IInv

-----------------------------------------------------------------------------
(* What does not overlap is the handler of the report as it is *)

SubFits(r) == r.substatus # NoSub => Owner[r.substatus] = r.status

\* A handler in flight is the only one, and its report has not changed since.
Sole(w) ==
    /\ ~sweep
    /\ report # Gone /\ tx[w].old = report
    /\ SubFits(tx[w].new)
    /\ \A v \in Workers : tx[v] # Idle => v = w

Sequential ==
    ~overlapped =>
        /\ report # Gone => SubFits(report)
        /\ \A w \in Workers : tx[w] # Idle => Sole(w)
        /\ sweep => Due

\* What a handler computes from a report whose substatus fits its status fits too.
LEMMA ComputedFits ==
    ASSUME NEW r \in Report, SubFits(r)
    PROVE  /\ \A status \in Statuses, sub \in SubStatuses \cup {""} :
                 (sub # "" => Owner[sub] = status) => SubFits(WithStatus(r, status, sub))
           /\ SubFits(AfterRead(r))
           /\ \A date : SubFits([r EXCEPT !.expiration = date])
           /\ \A date : SubFits([r EXCEPT !.reminder = date])
<1>1. ASSUME NEW q, NEW status \in Statuses, NEW sub \in SubStatuses \cup {""},
             sub # "" => Owner[sub] = status
      PROVE  SubFits(WithStatus(q, status, sub))
  <2>1. WithStatus(q, status, sub).status = status
    BY DEF WithStatus
  <2>2. WithStatus(q, status, sub).substatus = IF sub = "" THEN NoSub ELSE sub
    BY DEF WithStatus, NewSub, StoredSub
  <2> QED
    BY <1>1, <2>1, <2>2 DEF SubFits
<1>2. ASSUME NEW date
      PROVE  SubFits([r EXCEPT !.expiration = date]) /\ SubFits([r EXCEPT !.reminder = date])
  BY DEF SubFits, Report
<1>3. SubFits(AfterRead(r))
  <2> DEFINE seen == [r EXCEPT !.reminder = IF @ <= today THEN Never ELSE @]
  <2>1. SubFits(seen)
    BY DEF SubFits, Report
  <2>2. "opened" \in Statuses
    BY DEF Statuses
  <2>3. SubFits(WithStatus(seen, "opened", ""))
    BY <1>1, <2>2
  <2>4. AfterRead(r) = IF FirstRead(r) THEN WithStatus(seen, "opened", "") ELSE seen
    BY DEF AfterRead
  <2> QED
    BY <2>1, <2>3, <2>4
<1> QED
  BY <1>1, <1>2, <1>3

\* Written over the report it was read from, a report is the one that was computed.
LEMMA WrittenAsComputed ==
    ASSUME NEW t \in Tx
    PROVE  Written(t.old, t) = t.new
<1>1. /\ DOMAIN t.old = {"status", "substatus", "expiration", "reminder"}
      /\ t.old \in Report /\ t.new \in Report
  BY DEF Tx, Report
<1>2. Written(t.old, t) = [c \in {"status", "substatus", "expiration", "reminder"} |-> t.new[c]]
  BY <1>1 DEF Written
<1> QED
  BY <1>1, <1>2 DEF Report

\* The invariant of the requests that do not overlap.
THEOREM SequentialInvariant == Spec => []Sequential
<1>1. Init => Sequential
  <2> SUFFICES ASSUME Init PROVE Sequential
    OBVIOUS
  <2>1. report.substatus = NoSub /\ ~sweep /\ \A w \in Workers : tx[w] = Idle
    BY DEF Init
  <2> QED
    BY <2>1 DEF Sequential, SubFits
<1>2. TypeOK /\ Sequential /\ [Next]_vars => Sequential'
  <2> SUFFICES ASSUME TypeOK, Sequential, [Next]_vars, ~overlapped' PROVE Sequential'
    BY DEF Sequential
  <2>0. ~overlapped
    BY DEF Next, Tick, ReadReport, ChangeStatus, Postpone, Remind, DeleteReport, Begin, Commit, Abort,
           SweepBegin, SweepCommit, SweepAbort, vars
  <2>1. /\ report # Gone => SubFits(report)
        /\ \A w \in Workers : tx[w] # Idle => Sole(w)
        /\ sweep => Due
    BY <2>0 DEF Sequential
  <2>2. CASE Tick
    <3>1. UNCHANGED <<report, tx, sweep>> /\ today' = today + 1
      BY <2>2 DEF Tick
    <3>2. sweep => Due'
      BY <2>1, <3>1 DEF Due, TypeOK, Report
    <3> QED
      BY <2>1, <3>1, <3>2 DEF Sequential, Sole, SubFits
  <2>3. ASSUME NEW w \in Workers, NEW op, NEW new, Begin(w, op, new),
               report # Gone => SubFits(new)
        PROVE  Sequential'
    <3>1. report # Gone /\ ~sweep /\ \A v \in Workers : tx[v] = Idle
      BY <2>3 DEF Begin, Busy
    <3>2. report' = report /\ sweep' = sweep
      BY <2>3 DEF Begin
    <3>3. tx' = [tx EXCEPT ![w] = [op |-> op, day |-> today, old |-> report, new |-> new]]
      BY <2>3 DEF Begin
    <3>4. tx'[w].old = report /\ tx'[w].new = new /\ \A v \in Workers : v # w => tx'[v] = Idle
      BY <3>1, <3>3 DEF TypeOK
    <3>5. Sole(w)'
      BY <2>3, <3>1, <3>2, <3>4 DEF Sole, SubFits
    <3> QED
      BY <2>1, <3>1, <3>2, <3>4, <3>5 DEF Sequential, SubFits
  <2>4. report # Gone => report \in Report
    BY DEF TypeOK
  <2>5. ASSUME NEW w \in Workers, ReadReport(w) PROVE Sequential'
    BY <2>1, <2>3, <2>4, <2>5, ComputedFits DEF ReadReport
  <2>6. ASSUME NEW w \in Workers, NEW status \in Statuses, NEW sub \in SubStatuses \cup {""},
               ChangeStatus(w, status, sub)
        PROVE  Sequential'
    BY <2>1, <2>3, <2>4, <2>6, ComputedFits DEF ChangeStatus
  <2>7. ASSUME NEW w \in Workers, NEW date \in Dates, Postpone(w, date) \/ Remind(w, date) PROVE Sequential'
    BY <2>1, <2>3, <2>4, <2>7, ComputedFits DEF Postpone, Remind
  <2>8. ASSUME NEW w \in Workers, DeleteReport(w) PROVE Sequential'
    BY <2>1, <2>3, <2>8 DEF DeleteReport
  <2>9. ASSUME NEW w \in Workers, Commit(w) \/ Abort(w) PROVE Sequential'
    <3>1. tx[w] # Idle /\ Sole(w) /\ sweep' = sweep
      BY <2>1, <2>9 DEF Commit, Abort
    <3>2. \A v \in Workers : tx'[v] = Idle
      BY <2>9, <3>1 DEF Commit, Abort, Sole, TypeOK
    <3>3. report' # Gone => SubFits(report')
      <4>1. CASE Abort(w)
        BY <2>1, <4>1 DEF Abort
      <4>2. CASE Commit(w)
        <5>1. tx[w] \in Tx
          BY <3>1 DEF TypeOK
        <5>2. report' # Gone => report' = tx[w].new
          BY <3>1, <4>2, <5>1, WrittenAsComputed DEF Commit, Sole
        <5> QED
          BY <3>1, <5>2 DEF Sole
      <4> QED
        BY <2>9, <4>1, <4>2
    <3>4. ~sweep'
      BY <3>1 DEF Sole
    <3> QED
      BY <3>2, <3>3, <3>4 DEF Sequential, SubFits
  <2>10. CASE SweepBegin
    <3>1. \A w \in Workers : tx[w] = Idle
      BY <2>10 DEF SweepBegin, Busy
    <3> QED
      BY <2>1, <2>10, <3>1 DEF SweepBegin, Sequential, SubFits, Due
  <2>11. CASE SweepCommit \/ SweepAbort
    <3>1. \A w \in Workers : tx[w] = Idle
      BY <2>1, <2>11 DEF SweepCommit, SweepAbort, Sole
    <3> QED
      BY <2>1, <2>11, <3>1 DEF SweepCommit, SweepAbort, Sequential, SubFits
  <2>12. CASE UNCHANGED vars
    BY <2>1, <2>12 DEF vars, Sequential, Sole, SubFits, Due
  <2> QED
    BY <2>2, <2>5, <2>6, <2>7, <2>8, <2>9, <2>10, <2>11, <2>12 DEF Next
<1> QED
  BY <1>1, <1>2, TypeCorrect, PTL DEF Spec

\* Whatever recipients do one after the other, a substatus is one of the status it
\* is shown with.
THEOREM SubstatusFits == Spec => []SubstatusOfStatus
<1>1. Sequential => SubstatusOfStatus
  BY DEF Sequential, SubFits, SubstatusOfStatus
<1> QED
  BY <1>1, SequentialInvariant, PTL

\* What was there for one of the times a report is kept, and will not be less so.
Ripe(date) == \E days \in Retentions : days <= date

\* Every expiration there is, or is about to be written, is ripe, and so is the day
\* when the job holds the report for expired.
Lasting ==
    /\ TypeOK
    /\ report # Gone => Ripe(report.expiration)
    /\ \A w \in Workers : tx[w] # Idle => Ripe(tx[w].new.expiration)
    /\ sweep => Ripe(today)

LEMMA RetentionsNat ==
    /\ Retentions \subseteq Nat /\ Floor \in Retentions /\ Never \in Retentions
    /\ TTL > 0 => TTL + 1 \in Retentions
    /\ \A s \in SubStatuses : SubTTL[s] \in Nat /\ (SubTTL[s] > 0 => SubTTL[s] + 1 \in Retentions)
<1>1. \A s \in SubStatuses : SubTTL[s] \in Nat
  BY ReportLifecycleAssumption
<1>3. Retentions \subseteq Nat
  BY <1>1, Numbers DEF Retentions
<1> QED
  BY <1>1, <1>3, Numbers DEF Retentions

LEMMA RipeLater ==
    ASSUME NEW date \in Nat, NEW later \in Nat, Ripe(date), date <= later
    PROVE  Ripe(later)
<1>1. PICK days \in Retentions : days <= date
  BY DEF Ripe
<1>2. days \in Nat
  BY RetentionsNat
<1> QED
  BY <1>1, <1>2 DEF Ripe

\* The retention of the channel, and the latest a report may be put off to
LEMMA RipePolicies ==
    ASSUME today \in Nat
    PROVE  Ripe(Until(TTL)) /\ Ripe(Latest) /\ Latest \in Nat
<1> USE Numbers
<1>1. CASE TTL = 0
  BY <1>1, RetentionsNat DEF Until, Latest, Ripe
<1>2. CASE TTL > 0
  <2>1. Until(TTL) = today + TTL + 1 /\ TTL + 1 <= today + TTL + 1
    BY <1>2 DEF Until, In
  <2>2. Latest = today + Larger(Year, 2 * TTL) + 1 /\ Larger(Year, 2 * TTL) \in Nat
    BY <1>2, LongestNat DEF Latest, In
  <2>3. TTL <= Larger(Year, 2 * TTL)
    BY DEF Larger
  <2>4. TTL + 1 <= today + Larger(Year, 2 * TTL) + 1
    BY <2>2, <2>3
  <2> QED
    BY <1>2, <2>1, <2>2, <2>4, RetentionsNat DEF Ripe
<1> QED
  BY <1>1, <1>2

LEMMA FromToday ==
    ASSUME NEW days \in Nat, today \in Nat
    PROVE  days + 1 <= today + days + 1
OBVIOUS

\* What a handler computes from a ripe expiration is ripe.
LEMMA ComputedRipe ==
    ASSUME today \in Nat, NEW r \in Report, Ripe(r.expiration)
    PROVE  /\ \A status \in Statuses, sub \in SubStatuses \cup {""} :
                 Ripe(WithStatus(r, status, sub).expiration)
           /\ Ripe(AfterRead(r).expiration)
           /\ \A date \in Nat : Ripe(Postponed(r, date))
<1> USE Numbers
<1>1. ASSUME NEW q \in Report, Ripe(q.expiration),
             NEW status \in Statuses, NEW sub \in SubStatuses \cup {""}
      PROVE  Ripe(WithStatus(q, status, sub).expiration)
  <2>1. WithStatus(q, status, sub).expiration = ExpirationAfter(q, status, sub)
    BY DEF WithStatus
  <2>2. CASE q.status = "closed" /\ status = "opened"
    BY <2>1, <2>2, RipePolicies DEF ExpirationAfter
  <2>3. CASE ~(q.status = "closed" /\ status = "opened") /\ status = "closed" /\ sub # "" /\ SubTTL[sub] > 0
    <3>0. sub \in SubStatuses /\ SubTTL[sub] > 0
      BY <2>3
    <3>1. SubTTL[sub] \in Nat /\ SubTTL[sub] + 1 \in Retentions
      BY <3>0, RetentionsNat, Zenon
    <3>3. SubTTL[sub] + 1 <= today + SubTTL[sub] + 1
      BY <3>1, FromToday, Zenon
    <3>4. ExpirationAfter(q, status, sub) = today + SubTTL[sub] + 1
      BY <2>3 DEF ExpirationAfter, In
    <3> QED
      BY <2>1, <3>1, <3>3, <3>4 DEF Ripe
  <2>4. CASE ~(q.status = "closed" /\ status = "opened") /\ ~(status = "closed" /\ sub # "" /\ SubTTL[sub] > 0)
    BY <1>1, <2>1, <2>4 DEF ExpirationAfter
  <2> QED
    BY <2>2, <2>3, <2>4
<1>2. Ripe(AfterRead(r).expiration)
  <2>1. PICK seen : seen = [r EXCEPT !.reminder = IF @ <= today THEN Never ELSE @]
    OBVIOUS
  <2>2. seen \in Report /\ seen.expiration = r.expiration
    BY <2>1 DEF Report
  <2>3. "opened" \in Statuses
    BY DEF Statuses
  <2> QED
    BY <1>1, <2>1, <2>2, <2>3 DEF AfterRead
<1>3. ASSUME NEW date \in Nat PROVE Ripe(Postponed(r, date))
  <2>1. r.expiration \in Nat /\ today + Floor \in Nat /\ Floor <= today + Floor
    BY DEF Report
  <2>2. Ripe(today + Floor)
    BY <2>1, RetentionsNat DEF Ripe
  <2>3. Earliest(r) \in Nat /\ Ripe(Earliest(r))
    BY <2>1, <2>2 DEF Earliest, Smaller
  <2>4. CASE date <= Earliest(r)
    BY <2>3, <2>4 DEF Postponed
  <2>5. CASE ~(date <= Earliest(r)) /\ date >= Latest
    BY <2>5, RipePolicies DEF Postponed
  <2>6. CASE ~(date <= Earliest(r)) /\ ~(date >= Latest)
    BY <2>3, <2>6, RipeLater DEF Postponed
  <2> QED
    BY <2>4, <2>5, <2>6
<1> QED
  BY <1>1, <1>2, <1>3

\* However requests, their stale reads and the job interleave, the Cleaning job deletes
\* no report before the shortest time one is kept.
THEOREM KeptLongEnough == Spec => NotSweptEarly
<1> USE Numbers
<1>1. Init => Lasting
  <2> SUFFICES ASSUME Init PROVE Lasting
    OBVIOUS
  <2>1. today \in Nat
    BY DEF Init
  <2>2. Ripe(Until(TTL))
    BY <2>1, RipePolicies
  <2>3. TypeOK
    <3>1. report \in Report
      BY DEF Init, Report, Statuses, Until, In
    <3> QED
      BY <3>1 DEF Init, TypeOK
  <2> QED
    BY <2>2, <2>3 DEF Init, Lasting
<1>2. TypeOK' /\ Lasting /\ [Next]_vars => Lasting'
  <2> SUFFICES ASSUME TypeOK', Lasting, [Next]_vars PROVE Lasting'
    OBVIOUS
  <2>1. today \in Nat /\ (report # Gone => report \in Report /\ Ripe(report.expiration))
    BY DEF Lasting, TypeOK
  <2>2. CASE Tick
    <3>1. sweep => Ripe(today')
      BY <2>1, <2>2, RipeLater DEF Tick, Lasting
    <3> QED
      BY <2>2, <3>1 DEF Tick, Lasting, Ripe
  <2>3. ASSUME NEW w \in Workers, NEW op, NEW new, Begin(w, op, new), report # Gone => Ripe(new.expiration)
        PROVE  Lasting'
    BY <2>3 DEF Begin, Lasting, TypeOK, Ripe
  <2>4. ASSUME NEW w \in Workers, ReadReport(w) PROVE Lasting'
    BY <2>1, <2>3, <2>4, ComputedRipe DEF ReadReport
  <2>5. ASSUME NEW w \in Workers, NEW status \in Statuses, NEW sub \in SubStatuses \cup {""},
               ChangeStatus(w, status, sub)
        PROVE  Lasting'
    BY <2>1, <2>3, <2>5, ComputedRipe DEF ChangeStatus
  <2>6. ASSUME NEW w \in Workers, NEW date \in Dates, Postpone(w, date) PROVE Lasting'
    <3> DEFINE new == [report EXCEPT !.expiration = Postponed(report, date)]
    <3>1. report # Gone => Ripe(new.expiration)
      BY <2>1, ComputedRipe DEF Report
    <3> QED
      BY <2>3, <2>6, <3>1 DEF Postpone
  <2>7. ASSUME NEW w \in Workers, NEW date \in Dates, Remind(w, date) PROVE Lasting'
    <3> DEFINE new == [report EXCEPT !.reminder = Smaller(date, Never)]
    <3>1. report # Gone => new.expiration = report.expiration
      BY <2>1 DEF Report
    <3> QED
      BY <2>1, <2>3, <2>7, <3>1 DEF Remind
  <2>8. ASSUME NEW w \in Workers, DeleteReport(w) PROVE Lasting'
    BY <2>1, <2>3, <2>8 DEF DeleteReport
  <2>9. ASSUME NEW w \in Workers, Commit(w) PROVE Lasting'
    <3>1. tx[w] \in Tx /\ report \in Report /\ Ripe(tx[w].new.expiration)
      BY <2>9 DEF Commit, Lasting, TypeOK
    <3>2. Written(report, tx[w]).expiration \in {report.expiration, tx[w].new.expiration}
      BY <3>1, WrittenReport
    <3>3. report' # Gone => Ripe(report'.expiration)
      BY <2>1, <2>9, <3>1, <3>2 DEF Commit
    <3> QED
      BY <2>9, <3>3 DEF Commit, Lasting, TypeOK, Ripe
  <2>10. ASSUME NEW w \in Workers, Abort(w) PROVE Lasting'
    BY <2>10 DEF Abort, Lasting, TypeOK, Ripe
  <2>11. CASE SweepBegin
    <3>1. report.expiration \in Nat /\ Ripe(report.expiration) /\ report.expiration <= today
      BY <2>1, <2>11 DEF SweepBegin, Due, Report
    <3>2. Ripe(today)
      BY <2>1, <3>1, RipeLater
    <3> QED
      BY <2>11, <3>2 DEF SweepBegin, Lasting, Ripe
  <2>12. CASE SweepCommit \/ SweepAbort \/ UNCHANGED vars
    BY <2>12 DEF SweepCommit, SweepAbort, vars, Lasting, Ripe
  <2> QED
    BY <2>2, <2>4, <2>5, <2>6, <2>7, <2>8, <2>9, <2>10, <2>11, <2>12 DEF Next
<1>3. Lasting /\ [Next]_vars => [sweep /\ ~sweep' /\ report # Gone /\ report' = Gone => \E days \in Retentions : days <= today]_vars
  BY DEF Lasting, Ripe
<1> QED
  BY <1>1, <1>2, <1>3, TypeCorrect, PTL DEF Spec, NotSweptEarly

-----------------------------------------------------------------------------
(* Upgrade: the database is the old one or the whole of the new one *)

Enough(count) == \A t \in Starting!Watched : count[t] >= was.rows[t]

Upgraded(base) == base.exists /\ base.schema = Target /\ base.current /\ Enough(base.rows)

\* The file in place is the one of before the first start, a migrated one or a new one.
InPlace ==
    /\ was.exists => was.schema \in Nat \ {0}
    /\ was.exists => \/ db.exists /\ db.schema = was.schema /\ db.rows = was.rows
                     \/ was.schema # Target /\ Upgraded(db)
    /\ ~was.exists /\ db.exists => db.schema \in {0, Target}

Untouched == was.exists /\ db.schema = was.schema /\ db.rows = was.rows /\ work.exists

\* What the process works on, step by step; what is half written was rolled back before.
AtWork ==
    /\ pc # "down" => ~torn
    /\ pc = "prepare" => /\ was.exists /\ db.exists /\ db.schema = was.schema /\ db.rows = was.rows
                         /\ was.schema >= First /\ was.schema # Target
    /\ pc \in {"open", "migrate"} => Untouched /\ was.schema <= work.schema /\ work.schema < Target
    /\ pc = "open" => Enough(work.rows)
    /\ pc = "migrate" => Enough(counts) /\ \A t \in todo : work.rows[t] = counts[t]
    /\ pc = "defaults" /\ "new" \in tmp =>
          Untouched /\ was.schema # Target /\ work.schema = Target /\ Enough(work.rows)
    /\ pc = "move" => was.exists /\ was.schema # Target /\ Upgraded(work)
    /\ pc = "refresh" => db.exists /\ db.schema = Target
    /\ pc \in {"cleanup", "tidy", "serving"} => db.exists /\ db.schema = Target /\ db.current
    /\ pc = "create" => ~db.exists
    /\ pc = "initialize" => ~was.exists /\ db.exists

StartInv == Starting!TypeOK /\ InPlace /\ AtWork

LEMMA TablesAssumed ==
    First \in Nat \ {0} /\ Target \in Nat /\ First < Target /\ MaxRows \in Nat
  BY UpkeepAssumption DEF Starting!UpgradeAssumption

LEMMA OldTyped ==
    ASSUME NEW schema \in Nat, NEW base \in Starting!Old(schema)
    PROVE  base \in Starting!Database /\ base.exists /\ base.schema = schema
<1>1. PICK current \in {c \in BOOLEAN : c => schema = Target}, language \in BOOLEAN,
           r \in {n \in [Tables -> 0 .. MaxRows] : \A t \in Tables : Starting!Exists(t, schema) \/ n[t] = 0} :
        base = [exists |-> TRUE, schema |-> schema, current |-> current, language |-> language, rows |-> r]
  BY DEF Starting!Old
<1>2. r \in [Tables -> Nat] /\ current \in BOOLEAN
  BY TablesAssumed
<1> QED
  BY <1>1, <1>2 DEF Starting!Database

LEMMA StartInitially == Starting!Init => StartInv
<1> SUFFICES ASSUME Starting!Init PROVE StartInv
  OBVIOUS
<1> USE TablesAssumed DEF Starting!Init
<1>1. was \in Starting!Database /\ (was.exists => was.schema \in Nat \ {0})
  <2>1. CASE was = Starting!NoDatabase
    BY <2>1 DEF Starting!Database, Starting!NoDatabase, Starting!NoRows
  <2>2. CASE was # Starting!NoDatabase
    <3>1. PICK schema \in (First - 1 .. Target + 1) \ {0} : was \in Starting!Old(schema)
      BY <2>2
    <3> QED
      BY <3>1, OldTyped
  <2> QED
    BY <2>1, <2>2
<1>2. Starting!NoDatabase \in Starting!Database /\ Starting!NoRows \in [Tables -> Nat]
  BY DEF Starting!Database, Starting!NoDatabase, Starting!NoRows
<1>3. ~was.exists => was = Starting!NoDatabase
  BY DEF Starting!Old
<1>4. Starting!TypeOK
  BY <1>1, <1>2 DEF Starting!TypeOK, Starting!Database
<1>5. InPlace
  BY <1>1, <1>3 DEF InPlace, Starting!NoDatabase
<1> QED
  BY <1>4, <1>5 DEF StartInv, AtWork

LEMMA StartStep == StartInv /\ [Starting!Next]_starting => StartInv'
<1> SUFFICES ASSUME StartInv, [Starting!Next]_starting PROVE StartInv'
  OBVIOUS
<1> USE TablesAssumed DEF StartInv
<1>1. CASE UNCHANGED starting
  BY <1>1 DEF starting, Starting!TypeOK, InPlace, AtWork, Untouched, Upgraded, Enough, Starting!Watched,
     Starting!Migrated, Starting!Exists
<1>2. CASE Starting!Start
  <2> USE <1>2 DEF Starting!Start
  <2>1. Starting!TypeOK'
    BY DEF Starting!TypeOK, Starting!Journal, Starting!migration
  <2>2. InPlace'
    BY DEF InPlace, Upgraded, Enough, Starting!Watched
  <2>3. AtWork'
    <3>1. db \in Starting!Database /\ ~torn' /\ UNCHANGED <<db, was>>
      BY DEF Starting!TypeOK, Starting!Journal
    <3>2. pc' = "prepare" => /\ db.exists /\ db.schema >= First /\ db.schema # Target
      BY <3>1 DEF Starting!Half, Starting!Database
    <3>3. pc' = "prepare" => was.exists /\ db.schema = was.schema /\ db.rows = was.rows
      BY <3>1, <3>2 DEF InPlace, Upgraded
    <3>4. pc' \in {"create", "down", "refresh", "prepare"}
      BY <3>1 DEF Starting!Half, Starting!Database
    <3>5. pc' = "create" => ~db.exists
      BY <3>1 DEF Starting!Half, Starting!Database
    <3>6. pc' = "refresh" => db.exists /\ db.schema = Target
      BY <3>1 DEF Starting!Half, Starting!Database
    <3> QED
      BY <3>1, <3>2, <3>3, <3>4, <3>5, <3>6 DEF AtWork
  <2> QED
    BY <2>1, <2>2, <2>3
<1>3. CASE Starting!Prepare
  <2>1. pc = "prepare" /\ ~torn
    BY <1>3 DEF Starting!Prepare, AtWork
  <2>2. /\ tmp' = {"dir", "old"} /\ work' = db /\ pc' = IF db.schema < Target THEN "open" ELSE "defaults"
        /\ UNCHANGED <<script, was, db, torn, counts, todo, stops>>
    BY <1>3, <2>1 DEF Starting!Prepare, Starting!Copies, Starting!Emptied
  <2>3. db \in Starting!Database
    BY DEF Starting!TypeOK
  <2>4. Starting!TypeOK'
    BY <2>2, <2>3 DEF Starting!TypeOK
  <2>5. InPlace'
    BY <2>2 DEF InPlace, Upgraded, Enough, Starting!Watched
  <2>6. \A t \in Starting!Watched : was.rows[t] \in Nat
    BY DEF Starting!TypeOK, Starting!Database, Starting!Watched
  <2>7. AtWork'
    BY <2>1, <2>2, <2>3, <2>6 DEF AtWork, InPlace, Untouched, Enough, Starting!Watched, Starting!Database
  <2> QED
    BY <2>4, <2>5, <2>7
<1>4. CASE Starting!Open
  <2>1. pc = "open" /\ work \in Starting!Database /\ Untouched /\ Enough(work.rows)
        /\ was.schema <= work.schema /\ work.schema < Target /\ was.schema \in Nat
    BY <1>4 DEF Starting!Open, AtWork, Starting!TypeOK, InPlace, Untouched
  <2>2. PICK entries : entries = [t \in Tables |-> IF t \in Starting!Migrated(work.schema) THEN work.rows[t] ELSE 0]
    OBVIOUS
  <2>3. /\ counts' = entries /\ work' = [work EXCEPT !.rows = entries]
        /\ todo' = Starting!Migrated(work.schema)
        /\ tmp' = IF work.schema = Target - 1 THEN tmp \cup {"new"} ELSE tmp
        /\ pc' = "migrate" /\ UNCHANGED <<script, was, db, torn, stops>>
    BY <1>4, <2>2 DEF Starting!Open
  <2>4. /\ entries \in [Tables -> Nat] /\ work' \in Starting!Database
        /\ work'.rows = entries /\ work'.schema = work.schema /\ work'.exists = work.exists
        /\ todo' \subseteq Tables
    BY <2>1, <2>2, <2>3 DEF Starting!Database, Starting!Migrated
  <2>5. \A t \in Starting!Watched : entries[t] = work.rows[t]
    <3>1. work.schema \in was.schema .. Target - 1
      BY <2>1 DEF Starting!Database
    <3>2. \A t \in Starting!Watched : t \in Tables /\ t \in Starting!Migrated(work.schema)
      BY <3>1 DEF Starting!Watched
    <3> QED
      BY <2>2, <3>2
  <2>6. Starting!TypeOK'
    BY <2>3, <2>4 DEF Starting!TypeOK
  <2>7. InPlace'
    BY <2>3 DEF InPlace, Upgraded, Enough, Starting!Watched
  <2>8. Enough(counts)'
    BY <2>1, <2>3, <2>5 DEF Enough, Starting!Watched
  <2>9. AtWork'
    BY <2>1, <2>3, <2>4, <2>8 DEF AtWork, Untouched
  <2> QED
    BY <2>6, <2>7, <2>9
<1>5. CASE Starting!MigrateTable
  <2>1. /\ pc = "migrate" /\ work \in Starting!Database /\ Untouched /\ Enough(counts)
        /\ was.schema <= work.schema /\ work.schema < Target
        /\ counts \in [Tables -> Nat] /\ todo \subseteq Tables
        /\ \A t \in todo : work.rows[t] = counts[t]
    BY <1>5 DEF Starting!MigrateTable, AtWork, Starting!TypeOK
  <2>2. PICK t \in todo, added \in {0, 1}, lost \in {0, 1} :
          /\ lost = 1 => counts[t] # 0
          /\ todo' = todo \ {t} /\ work' = [work EXCEPT !.rows[t] = @ + added - lost]
          /\ counts' = [counts EXCEPT ![t] = @ + added]
          /\ pc' \in {"abandon", "migrate"}
    <3>1. PICK t \in todo :
            LET effect == IF counts[t] = 0 THEN "copies" ELSE script[work.schema][t]
                added == IF effect = "adds" THEN 1 ELSE 0
                lost == IF effect = "loses" THEN 1 ELSE 0
            IN /\ todo' = todo \ {t}
               /\ work' = [work EXCEPT !.rows[t] = @ + added - lost]
               /\ counts' = [counts EXCEPT ![t] = @ + added]
               /\ pc' = IF effect = "raises" THEN "abandon" ELSE "migrate"
      BY <1>5 DEF Starting!MigrateTable
    <3>2. PICK effect : effect = IF counts[t] = 0 THEN "copies" ELSE script[work.schema][t]
      OBVIOUS
    <3>3. PICK added \in {0, 1}, lost \in {0, 1} :
            added = (IF effect = "adds" THEN 1 ELSE 0) /\ lost = (IF effect = "loses" THEN 1 ELSE 0)
      OBVIOUS
    <3>4. lost = 1 => counts[t] # 0
      BY <3>2, <3>3
    <3> QED
      BY <3>1, <3>2, <3>3, <3>4
  <2>3. UNCHANGED <<script, was, db, torn, tmp, stops>>
    BY <1>5 DEF Starting!MigrateTable, Starting!disk
  <2>4. counts[t] \in Nat /\ work.rows[t] = counts[t] /\ work.rows \in [Tables -> Nat] /\ t \in Tables
    BY <2>1 DEF Starting!Database
  <2>5. counts[t] + added \in Nat /\ counts[t] + added >= counts[t] /\ work.rows[t] + added - lost \in Nat
    BY <2>2, <2>4
  <2>6. /\ counts' \in [Tables -> Nat] /\ counts'[t] = counts[t] + added
        /\ \A x \in Tables \ {t} : counts'[x] = counts[x]
    BY <2>1, <2>2, <2>4, <2>5
  <2>7. /\ work' \in Starting!Database /\ work'.schema = work.schema /\ work'.exists = work.exists
        /\ \A x \in Tables \ {t} : work'.rows[x] = work.rows[x]
    BY <2>1, <2>2, <2>4, <2>5 DEF Starting!Database
  <2>8. Starting!TypeOK'
    BY <2>1, <2>2, <2>3, <2>6, <2>7 DEF Starting!TypeOK
  <2>9. InPlace'
    BY <2>3 DEF InPlace, Upgraded, Enough, Starting!Watched
  <2>10. Enough(counts)'
    <3>1. \A x \in Starting!Watched : x \in Tables /\ was.rows[x] \in Nat /\ counts[x] \in Nat /\ counts[x] >= was.rows[x]
      BY <2>1 DEF Enough, Starting!Watched, Starting!TypeOK, Starting!Database
    <3>2. Starting!Watched' = Starting!Watched /\ was' = was
      BY <2>3 DEF Starting!Watched
    <3> QED
      BY <2>5, <2>6, <3>1, <3>2 DEF Enough
  <2>11. \A x \in todo' : work'.rows[x] = counts'[x]
    BY <2>1, <2>2, <2>6, <2>7
  <2>12. AtWork'
    BY <2>1, <2>2, <2>3, <2>7, <2>10, <2>11 DEF AtWork, Untouched
  <2> QED
    BY <2>8, <2>9, <2>12
<1>6. CASE Starting!Check
  <2>1. /\ pc = "migrate" /\ todo = {} /\ work \in Starting!Database /\ Untouched /\ Enough(counts)
        /\ was.schema <= work.schema /\ work.schema < Target /\ was.schema \in Nat
    BY <1>6 DEF Starting!Check, AtWork, Starting!TypeOK, InPlace, Untouched
  <2>2. UNCHANGED <<script, was, db, torn, tmp, counts, todo, stops>>
    BY <1>6 DEF Starting!Check, Starting!disk
  <2>3. InPlace'
    BY <2>2 DEF InPlace, Upgraded, Enough, Starting!Watched
  <2>4. CASE Starting!Miscounted # {}
    <3>1. pc' = "abandon" /\ work' = work
      BY <1>6, <2>4 DEF Starting!Check
    <3>2. Starting!TypeOK'
      BY <2>1, <2>2, <3>1 DEF Starting!TypeOK
    <3>3. AtWork'
      BY <2>1, <2>2, <3>1 DEF AtWork
    <3> QED
      BY <2>3, <3>2, <3>3
  <2>5. CASE Starting!Miscounted = {}
    <3>1. /\ work' = [work EXCEPT !.schema = @ + 1]
          /\ pc' = IF work.schema + 1 = Target THEN "defaults" ELSE "open"
      BY <1>6, <2>5 DEF Starting!Check
    <3>2. /\ work' \in Starting!Database /\ work'.schema = work.schema + 1 /\ work'.schema \in Nat
          /\ work'.exists = work.exists /\ work'.rows = work.rows
      BY <2>1, <3>1 DEF Starting!Database
    <3>3. \A t \in Starting!Watched : t \in Starting!Migrated(work.schema) /\ <<work.schema, t>> \notin Unchecked
      BY <2>1 DEF Starting!Watched, Starting!Database
    <3>4. \A t \in Starting!Watched : work.rows[t] = counts[t]
      BY <2>5, <3>3 DEF Starting!Miscounted
    <3>5. Enough(work.rows)'
      BY <2>1, <2>2, <3>2, <3>4 DEF Enough, Starting!Watched
    <3>6. was.schema <= work'.schema /\ work'.schema <= Target /\ (work.schema + 1 # Target => work'.schema < Target)
          /\ was.schema # Target
      BY <2>1, <3>2 DEF Starting!Database
    <3>7. Starting!TypeOK'
      BY <2>1, <2>2, <3>1, <3>2 DEF Starting!TypeOK
    <3>8. AtWork'
      BY <2>1, <2>2, <3>1, <3>2, <3>5, <3>6 DEF AtWork, Untouched
    <3> QED
      BY <2>3, <3>7, <3>8
  <2> QED
    BY <2>4, <2>5
<1>7. CASE Starting!Defaults
  <2>1. /\ pc = "defaults" /\ tmp' = tmp \cup {"new"}
        /\ UNCHANGED <<script, was, db, torn, counts, todo, stops>>
    BY <1>7 DEF Starting!Defaults
  <2>2. InPlace'
    BY <2>1 DEF InPlace, Upgraded, Enough, Starting!Watched
  <2>3. CASE pc' = "abandon" /\ work' = work
    <3>1. Starting!TypeOK'
      BY <2>1, <2>3 DEF Starting!TypeOK
    <3>2. AtWork'
      BY <2>1, <2>3 DEF AtWork
    <3> QED
      BY <2>2, <3>1, <3>2
  <2>4. CASE "new" \in tmp /\ pc' = "move" /\ work' = [work EXCEPT !.current = TRUE]
    <3>1. work \in Starting!Database
      BY DEF Starting!TypeOK
    <3>2. /\ work' \in Starting!Database /\ work'.schema = work.schema /\ work'.current
          /\ work'.exists = work.exists /\ work'.rows = work.rows
      BY <2>4, <3>1 DEF Starting!Database
    <3>3. Starting!TypeOK'
      BY <2>1, <2>4, <3>2 DEF Starting!TypeOK
    <3>4. Upgraded(work)'
      BY <2>1, <2>4, <3>2 DEF AtWork, Untouched, Upgraded, Enough, Starting!Watched
    <3>5. AtWork'
      BY <2>1, <2>4, <3>4 DEF AtWork, Untouched
    <3> QED
      BY <2>2, <3>3, <3>5
  <2> QED
    BY <1>7, <2>3, <2>4 DEF Starting!Defaults
<1>8. CASE Starting!Move
  <2>1. /\ pc = "move" /\ db' = work /\ tmp' = tmp \ {"new"} /\ pc' = "cleanup"
        /\ UNCHANGED <<script, was, torn, work, counts, todo, stops>>
    BY <1>8 DEF Starting!Move, Starting!migration
  <2>2. was.exists /\ was.schema # Target /\ Upgraded(work)
    BY <2>1 DEF AtWork
  <2>3. Starting!TypeOK'
    BY <2>1 DEF Starting!TypeOK
  <2>4. InPlace'
    BY <2>1, <2>2 DEF InPlace, Upgraded, Enough, Starting!Watched
  <2>5. AtWork'
    BY <2>1, <2>2 DEF AtWork, Upgraded
  <2> QED
    BY <2>3, <2>4, <2>5
<1>9. CASE Starting!Cleanup
  <2>1. /\ pc \in {"cleanup", "abandon"} /\ tmp' \subseteq tmp
        /\ pc' \in {pc, "down"} \cup (IF pc = "cleanup" THEN {"tidy"} ELSE {})
        /\ UNCHANGED <<script, was, db, torn, work, counts, todo, stops>>
    BY <1>9 DEF Starting!Cleanup, Starting!migration
  <2>2. Starting!TypeOK'
    BY <2>1 DEF Starting!TypeOK
  <2>3. InPlace'
    BY <2>1 DEF InPlace, Upgraded, Enough, Starting!Watched
  <2>4. AtWork'
    BY <2>1 DEF AtWork
  <2> QED
    BY <2>2, <2>3, <2>4
<1>10. CASE Starting!Refresh
  <2>1. /\ pc = "refresh" /\ pc' \in {"down", "tidy"} /\ db.exists /\ db.schema = Target
        /\ db' = IF db.language THEN db ELSE [db EXCEPT !.current = TRUE]
        /\ pc' = IF db.language THEN "down" ELSE "tidy"
        /\ UNCHANGED <<script, was, torn, tmp, work, counts, todo, stops>>
    BY <1>10 DEF Starting!Refresh, Starting!migration, AtWork
  <2>2. db \in Starting!Database
    BY DEF Starting!TypeOK
  <2>3. /\ db' \in Starting!Database /\ db'.exists /\ db'.schema = Target /\ db'.rows = db.rows
        /\ db.current => db'.current
        /\ ~db.language => db'.current
    BY <2>1, <2>2 DEF Starting!Database
  <2>4. Starting!TypeOK'
    BY <2>1, <2>3 DEF Starting!TypeOK
  <2>5. InPlace'
    BY <2>1, <2>3 DEF InPlace, Upgraded, Enough, Starting!Watched
  <2>6. AtWork'
    BY <2>1, <2>3 DEF AtWork
  <2> QED
    BY <2>4, <2>5, <2>6
<1>11. CASE Starting!Create
  <2>1. /\ pc = "create" /\ ~db.exists /\ pc' = "initialize"
        /\ db' = [Starting!NoDatabase EXCEPT !.exists = TRUE]
        /\ UNCHANGED <<script, was, torn, tmp, work, counts, todo, stops>>
    BY <1>11 DEF Starting!Create, Starting!migration, AtWork
  <2>2. ~was.exists
    BY <2>1 DEF InPlace, Upgraded
  <2>3. db' \in Starting!Database /\ db'.exists /\ db'.schema = 0
    BY <2>1 DEF Starting!Database, Starting!NoDatabase, Starting!NoRows
  <2>4. Starting!TypeOK'
    BY <2>1, <2>3 DEF Starting!TypeOK
  <2>5. InPlace' /\ AtWork'
    BY <2>1, <2>2, <2>3 DEF InPlace, AtWork
  <2> QED
    BY <2>4, <2>5
<1>12. CASE Starting!Initialize
  <2>1. /\ pc = "initialize" /\ ~was.exists /\ db.exists /\ pc' = "serving"
        /\ db' = [db EXCEPT !.schema = Target, !.current = TRUE]
        /\ UNCHANGED <<script, was, torn, tmp, work, counts, todo, stops>>
    BY <1>12 DEF Starting!Initialize, Starting!migration, AtWork
  <2>2. db \in Starting!Database
    BY DEF Starting!TypeOK
  <2>3. db' \in Starting!Database /\ db'.exists /\ db'.schema = Target /\ db'.current
    BY <2>1, <2>2 DEF Starting!Database
  <2>4. Starting!TypeOK'
    BY <2>1, <2>3 DEF Starting!TypeOK
  <2>5. InPlace' /\ AtWork'
    BY <2>1, <2>3 DEF InPlace, AtWork
  <2> QED
    BY <2>4, <2>5
<1>13. CASE Starting!Tidy
  <2>1. pc = "tidy" /\ pc' = "serving" /\ UNCHANGED <<script, was, db, torn, tmp, work, counts, todo, stops>>
    BY <1>13 DEF Starting!Tidy, Starting!disk, Starting!migration
  <2>2. Starting!TypeOK'
    BY <2>1 DEF Starting!TypeOK
  <2>3. InPlace'
    BY <2>1 DEF InPlace, Upgraded, Enough, Starting!Watched
  <2>4. AtWork'
    BY <2>1 DEF AtWork
  <2> QED
    BY <2>2, <2>3, <2>4
<1>14. CASE Starting!Stop
  <2>1. /\ stops' = stops + 1 /\ pc' = "down" /\ work' = Starting!NoDatabase
        /\ counts' = Starting!NoRows /\ todo' = {} /\ UNCHANGED <<script, was, db, tmp>>
        /\ torn' \in {torn, (pc \in {"refresh", "initialize", "tidy", "serving"})}
    BY <1>14 DEF Starting!Stop
  <2>2. Starting!NoDatabase \in Starting!Database /\ Starting!NoRows \in [Tables -> Nat]
    BY DEF Starting!Database, Starting!NoDatabase, Starting!NoRows
  <2>3. torn' \in BOOLEAN
    <3>1. torn \in BOOLEAN
      BY DEF Starting!TypeOK
    <3>2. (pc \in {"refresh", "initialize", "tidy", "serving"}) \in BOOLEAN
      OBVIOUS
    <3>3. PICK half : half = (pc \in {"refresh", "initialize", "tidy", "serving"})
      OBVIOUS
    <3>4. half \in BOOLEAN
      BY <3>2, <3>3, Zenon
    <3>5. torn' \in {torn, half}
      BY <2>1, <3>3, Zenon
    <3> QED
      BY <3>1, <3>4, <3>5
  <2>4. Starting!TypeOK'
    BY <2>1, <2>2, <2>3 DEF Starting!TypeOK
  <2>5. InPlace'
    BY <2>1 DEF InPlace, Upgraded, Enough, Starting!Watched
  <2>6. AtWork'
    BY <2>1 DEF AtWork
  <2> QED
    BY <2>4, <2>5, <2>6
<1> QED
  BY <1>1, <1>2, <1>3, <1>4, <1>5, <1>6, <1>7, <1>8, <1>9, <1>10, <1>11, <1>12, <1>13, <1>14
  DEF Starting!Next, Starting!Run

\* Wherever the machine stops, however often, and whatever the scripts of the versions
\* lose or raise, the file in place is the database as it was before the upgrade or the
\* whole of the migrated one, and what is served has the schema and the data of the code.
THEOREM StartedWhole == MCSpec => []UpgradedAsAWhole
<1>1. MCInit => StartInv
  BY StartInitially DEF MCInit
<1>2. StartInv /\ [MCNext]_allVars => StartInv'
  <2> SUFFICES ASSUME StartInv, [MCNext]_allVars PROVE StartInv'
    OBVIOUS
  <2>1. [Starting!Next]_starting
    BY DEF MCNext, allVars
  <2> QED
    BY <2>1, StartStep
<1>3. StartInv => UpgradedAsAWhole
  BY DEF StartInv, InPlace, AtWork, Upgraded, Enough, UpgradedAsAWhole, Starting!UpgradedAsAWhole
<1> QED
  BY <1>1, <1>2, <1>3, PTL DEF MCSpec

-----------------------------------------------------------------------------
(* Certificates *)

\* No two tenants have the same name, and the copies are of what is stored.
Apart == \A t, u \in Tenants : rows[t].host = rows[u].host => t = u

Copied ==
    \A t \in Tenants :
      /\ memory[t].there = rows[t].active
      /\ memory[t].enabled = (rows[t].active /\ rows[t].enabled)
      /\ rows[t].active /\ (rows[t].enabled \/ rows[t].cert # Tls!NoCert) => memory[t].cert = rows[t].cert

\* What is loaded, or about to be, is loaded under the name of its tenant, but for
\* the names that were given up.
Named ==
    /\ \A t \in Tenants : snimap.configs[t].host \in Hosts \ left => snimap.configs[t].host = rows[t].host
    /\ \A t \in Tenants, h \in Hosts \ left : snimap.contexts[h].tid = t => snimap.configs[t].host = h
    /\ job.state = "renewed" /\ job.conf # Tls!NoConf =>
         job.conf.tid = job.at /\ job.conf.host \in left \cup {rows[job.at].host, Local}

\* Nothing of a tenant changed since it was loaded, or since the job renewed its
\* certificate and is about to load it.
Usable(t) == rows[t].enabled => Tls!Valid(Tls!Stored(t, rows[t]), FALSE)

Fits(t) ==
    IF rows[t].enabled
    THEN /\ rows[t].host \notin left => snimap.contexts[rows[t].host] = Tls!Stored(t, rows[t])
         /\ t = Root => snimap.default = Tls!Stored(t, rows[t])
    ELSE \A h \in Hosts \ left : snimap.contexts[h].tid # t

Loaded ==
    /\ \A t \in Tenants : Tls!Known(t) => Usable(t) /\ Fits(t)
    /\ \A t \in Tenants : Tls!Renewing(t) /\ t \notin exposed =>
         rows[t].active /\ Usable(t) /\ job.conf = Tls!Config(t, rows[t])

\* Certificates are of the name their tenant has, or one had that was renamed, and so
\* are the exchanges; what the job asked for is told from what was stored since by
\* the certificate in the copy, or what was stored since is as new as today.
Pending ==
    /\ \A t \in Tenants : rows[t].cert = Tls!NoCert \/ t \in renamed \/ rows[t].cert.host = rows[t].host
    /\ \A t \in Tenants : order.tid = t => t \in renamed \/ order.host = rows[t].host
    /\ job.state = "asked" =>
         job.conf.tid = job.at /\ (job.at \in renamed \/ job.conf.host = rows[job.at].host)

Meanwhile ==
    job.state = "asked" /\ Tls!Known(job.at) /\ rows[job.at].enabled =>
      memory[job.at].cert = job.conf.cert \/ since[job.at] = day

\* The job has looked at a tenant today.
Passed(t) == job.done \/ (job.state # "idle" /\ t \notin job.todo)

WarnedOf(t) == t \in told \/ since[t] + Notice > rows[t].cert.ends

\* Whoever the job has looked at today is warned of today's ends, and the others of
\* yesterday's.
Warned ==
    /\ job.done => job.state = "idle"
    /\ ~cut => \A t \in Tenants : Tls!Known(t) /\ rows[t].enabled =>
         /\ Passed(t) /\ day + Notice > rows[t].cert.ends => WarnedOf(t)
         /\ day + Notice > rows[t].cert.ends + 1 => WarnedOf(t)

TlsInv == Tls!TypeOK /\ Apart /\ Copied /\ Named /\ Loaded /\ Pending /\ Meanwhile /\ Warned

TenantRow == [active : BOOLEAN, host : Hosts, enabled : BOOLEAN, key : Keys \cup {0}, cert : Tls!Cert, acme : BOOLEAN]
TenantCopy == [there : BOOLEAN, enabled : BOOLEAN, cert : Tls!Cert, acme : BOOLEAN]
Map == [configs : [Tenants -> Tls!Conf], contexts : [Hosts \cup {Local} -> Tls!Conf], default : Tls!Conf]

LEMMA TlsAssumed ==
    /\ Root \in Tenants /\ 0 \notin Tenants /\ Local \notin Hosts
    /\ Home \in [Tenants -> Hosts] /\ \A t, u \in Tenants : Home[t] = Home[u] => t = u
    /\ Keys \subseteq Nat \ {0} /\ Keys # {}
    /\ Kinds \subseteq [Tenants -> {"plain", "ready", "acme"}]
    /\ Life \in Nat /\ Renewal \in Nat /\ Notice \in Nat \ {0} /\ Days \in Nat /\ MaxChanges \in Nat
BY UpkeepAssumption DEF Tls!CertificatesAssumption

LEMMA Certs ==
    /\ Tls!NoCert \in Tls!Cert /\ Tls!NoConf \in Tls!Conf /\ Tls!SelfSigned \in Tls!Conf
    /\ Tls!NoConf.tid = 0 /\ Tls!NoConf.host = Local
    /\ Tls!SelfSigned.tid = Root /\ Tls!SelfSigned.host = Local
    /\ ~Tls!Valid(Tls!NoConf, FALSE)
    /\ \A c \in Tls!Cert : c.key \in Keys \cup {0} /\ c.ends \in Nat
<1>1. Tls!NoCert \in Tls!Cert
  BY TlsAssumed DEF Tls!NoCert, Tls!Cert
<1>2. Tls!NoConf \in Tls!Conf /\ Tls!NoConf.tid = 0 /\ Tls!NoConf.host = Local
  BY <1>1 DEF Tls!NoConf, Tls!Conf
<1>3. Tls!SelfSigned \in Tls!Conf /\ Tls!SelfSigned.tid = Root /\ Tls!SelfSigned.host = Local
  <2>1. PICK c \in Tls!Cert : c = [key |-> 0, host |-> Local, ends |-> Days + Life]
    <3>1. Days + Life \in 0 .. Days + Life
      BY TlsAssumed
    <3>2. [key |-> 0, host |-> Local, ends |-> Days + Life] \in Tls!Cert
      BY <3>1 DEF Tls!Cert
    <3>3. QED BY <3>2
  <2>2. Tls!SelfSigned = [tid |-> Root, host |-> Local, key |-> 0, cert |-> c]
    BY <2>1 DEF Tls!SelfSigned
  <2>3. QED BY <2>2, TlsAssumed DEF Tls!Conf
<1>4. ~Tls!Valid(Tls!NoConf, FALSE)
  <2>1. Tls!NoConf # Tls!SelfSigned
    BY <1>2, <1>3, TlsAssumed
  <2>2. Tls!NoConf.key = 0
    BY DEF Tls!NoConf
  <2>3. QED BY <2>1, <2>2 DEF Tls!Valid
<1>5. \A c \in Tls!Cert : c.key \in Keys \cup {0} /\ c.ends \in Nat
  BY TlsAssumed DEF Tls!Cert
<1>6. QED BY <1>1, <1>2, <1>3, <1>4, <1>5

LEMMA StoredFacts ==
    ASSUME NEW t \in Tenants, NEW row \in TenantRow, NEW conf, conf = Tls!Stored(t, row)
    PROVE  /\ conf \in Tls!Conf /\ conf.tid = t /\ conf.host = row.host /\ conf.key = row.key
           /\ conf.cert = row.cert /\ conf # Tls!SelfSigned /\ conf # Tls!NoConf
<1>1. /\ conf \in Tls!Conf /\ conf.tid = t /\ conf.host = row.host /\ conf.key = row.key /\ conf.cert = row.cert
      /\ row.host \in Hosts
  BY DEF Tls!Stored, Tls!Conf, TenantRow
<1>2. QED BY <1>1, Certs, TlsAssumed

\* What is loaded is as it was but for a tenant and the names it has, or had.
Moved(map, t) ==
    /\ map \in Map
    /\ \A u \in Tenants \ {t} : map.configs[u] = snimap.configs[u]
    /\ map.configs[t].host \in Hosts \ left => map.configs[t].host = rows[t].host
    /\ \A h \in Hosts \ left :
         \/ map.contexts[h] = snimap.contexts[h]
         \/ h = rows[t].host /\ map.contexts[h].tid \in {0, t}
    /\ \A h \in Hosts \ left : map.contexts[h].tid = t => map.configs[t].host = h
    /\ t # Root => map.default = snimap.default

Absent(map, t) == \A h \in Hosts \ left : map.contexts[h].tid # t

LEMMA StaysMoved ==
    ASSUME TlsInv, NEW t \in Tenants
    PROVE  Moved(snimap, t)
BY DEF TlsInv, Tls!TypeOK, Named, Moved, Map

LEMMA UnloadMoved ==
    ASSUME TlsInv, NEW t \in Tenants, NEW map, map = Tls!Unload(snimap, t)
    PROVE  Moved(map, t) /\ Absent(map, t)
<1>1. PICK old \in Map : old = snimap
  BY DEF TlsInv, Tls!TypeOK, Map
<1>2. PICK conf \in Tls!Conf : conf = old.configs[t]
  BY DEF Map
<1>3. conf.host \in Hosts \cup {Local} /\ Tls!NoConf \in Tls!Conf
  BY Certs DEF Tls!Conf
<1>4. PICK cs \in [Tenants -> Tls!Conf] : cs = [old.configs EXCEPT ![t] = Tls!NoConf]
  BY <1>3 DEF Map
<1>5. PICK xs \in [Hosts \cup {Local} -> Tls!Conf] :
        xs = IF conf = Tls!NoConf THEN old.contexts ELSE [old.contexts EXCEPT ![conf.host] = Tls!NoConf]
  BY <1>3 DEF Map
<1>6. PICK de \in Tls!Conf : de = IF t = Root THEN Tls!NoConf ELSE old.default
  BY <1>3 DEF Map
<1>7. map = [configs |-> cs, contexts |-> xs, default |-> de]
  BY <1>1, <1>2, <1>4, <1>5, <1>6 DEF Tls!Unload
<1>8. map \in Map /\ map.configs = cs /\ map.contexts = xs /\ map.default = de
  BY <1>7 DEF Map
<1>9. \A u \in Tenants \ {t} : map.configs[u] = snimap.configs[u]
  BY <1>1, <1>4, <1>8 DEF Map
<1>10. map.configs[t].host = Local /\ Local \notin Hosts
  BY <1>4, <1>8, Certs, TlsAssumed DEF Map
<1>11. /\ conf.host \in Hosts \ left => conf.host = rows[t].host
       /\ \A h \in Hosts \ left : old.contexts[h].tid = t => conf.host = h
  BY <1>1, <1>2 DEF TlsInv, Named
<1>12. \A h \in Hosts : \/ map.contexts[h] = snimap.contexts[h] /\ (conf = Tls!NoConf \/ h # conf.host)
                        \/ h = conf.host /\ map.contexts[h] = Tls!NoConf
  BY <1>1, <1>3, <1>5, <1>8 DEF Map
<1>13. Absent(map, t)
  <2> SUFFICES ASSUME NEW h \in Hosts \ left, map.contexts[h].tid = t PROVE FALSE
    BY DEF Absent
  <2>1. map.contexts[h] # Tls!NoConf
    BY Certs, TlsAssumed
  <2>2. map.contexts[h] = snimap.contexts[h] /\ (conf = Tls!NoConf \/ h # conf.host)
    BY <1>12, <2>1
  <2>3. conf.host = h
    BY <1>1, <1>11, <2>2
  <2>4. conf.host = Local
    BY <2>2, <2>3, Certs
  <2>5. QED BY <2>3, <2>4, TlsAssumed
<1>14. \A h \in Hosts \ left :
         \/ map.contexts[h] = snimap.contexts[h]
         \/ h = rows[t].host /\ map.contexts[h].tid \in {0, t}
  BY <1>11, <1>12, Certs
<1>15. t # Root => map.default = snimap.default
  BY <1>1, <1>6, <1>8
<1>16. QED BY <1>8, <1>9, <1>10, <1>13, <1>14, <1>15 DEF Moved, Absent

\* What is loaded of a tenant when its configuration is.
Put(old, map, t, conf) ==
    /\ Moved(map, t)
    /\ Tls!Valid(conf, FALSE) => map.contexts[conf.host] = conf /\ (t = Root => map.default = conf)
    /\ conf.host = Local /\ Absent(old, t) => Absent(map, t)

LEMMA LoadMoved ==
    ASSUME TlsInv, NEW t \in Tenants, NEW old, Moved(old, t), NEW conf \in Tls!Conf, conf.tid = t,
           conf.host \in left \/ conf.host = rows[t].host \/ conf.host = Local,
           conf.host = rows[t].host \/ Absent(old, t),
           NEW map, map = Tls!Load(old, t, conf)
    PROVE  Put(old, map, t, conf)
<1>1. CASE ~Tls!Valid(conf, FALSE)
  BY <1>1 DEF Tls!Load, Put
<1>2. CASE Tls!Valid(conf, FALSE)
  <2>1. conf.host \in Hosts \cup {Local} /\ old \in Map
    BY DEF Tls!Conf, Moved
  <2>2. PICK cs \in [Tenants -> Tls!Conf] : cs = [old.configs EXCEPT ![t] = conf]
    BY <2>1 DEF Map
  <2>3. PICK xs \in [Hosts \cup {Local} -> Tls!Conf] : xs = [old.contexts EXCEPT ![conf.host] = conf]
    BY <2>1 DEF Map
  <2>4. PICK de \in Tls!Conf : de = IF t = Root THEN conf ELSE old.default
    BY <2>1 DEF Map
  <2>5. map = [configs |-> cs, contexts |-> xs, default |-> de]
    BY <1>2, <2>2, <2>3, <2>4 DEF Tls!Load
  <2>6. map \in Map /\ map.configs = cs /\ map.contexts = xs /\ map.default = de
    BY <2>5 DEF Map
  <2>7. \A u \in Tenants \ {t} : map.configs[u] = snimap.configs[u]
    BY <2>1, <2>2, <2>6 DEF Map, Moved
  <2>8. map.configs[t] = conf /\ map.contexts[conf.host] = conf /\ Local \notin Hosts
    BY <2>1, <2>2, <2>3, <2>6, TlsAssumed DEF Map
  <2>9. \A h \in Hosts : h # conf.host => map.contexts[h] = old.contexts[h]
    BY <2>1, <2>3, <2>6 DEF Map
  <2>10. \A h \in Hosts \ left :
           \/ map.contexts[h] = snimap.contexts[h]
           \/ h = rows[t].host /\ map.contexts[h].tid \in {0, t}
    BY <2>8, <2>9 DEF Moved
  <2>11. \A h \in Hosts \ left : map.contexts[h].tid = t => map.configs[t].host = h
    <3> SUFFICES ASSUME NEW h \in Hosts \ left, map.contexts[h].tid = t, h # conf.host PROVE FALSE
      BY <2>8
    <3>1. old.contexts[h].tid = t
      BY <2>9
    <3>2. old.configs[t].host = h /\ h = rows[t].host
      BY <3>1 DEF Moved
    <3>3. QED BY <3>1, <3>2 DEF Absent
  <2>12. t # Root => map.default = snimap.default
    BY <2>4, <2>6 DEF Moved
  <2>13. Moved(map, t)
    BY <2>6, <2>7, <2>8, <2>10, <2>11, <2>12 DEF Moved
  <2>14. conf.host = Local /\ Absent(old, t) => Absent(map, t)
    BY <2>8, <2>9 DEF Absent
  <2>15. t = Root => map.default = conf
    BY <2>4, <2>6
  <2>16. QED BY <2>8, <2>13, <2>14, <2>15 DEF Put
<1>3. QED BY <1>1, <1>2

\* The types of the variables, apart from those a step is about.
LEMMA TlsTypes ==
    ASSUME TlsInv
    PROVE  /\ rows \in [Tenants -> TenantRow] /\ memory \in [Tenants -> TenantCopy] /\ snimap \in Map
           /\ exposed \subseteq Tenants /\ told \subseteq Tenants /\ left \subseteq Hosts
           /\ day \in Nat /\ day <= Days /\ since \in [Tenants -> 0 .. Days] /\ changes \in 0 .. MaxChanges
           /\ job.at \in Tenants /\ job.conf \in Tls!Conf
           /\ renamed \subseteq Tenants /\ order \in Tls!Conf
BY TlsAssumed DEF TlsInv, Tls!TypeOK, TenantRow, TenantCopy, Map

\* What is stored and asked for stays of the names it is for.
LEMMA PendingKept ==
    ASSUME TlsInv, order' \in {order, Tls!NoConf}, renamed \subseteq renamed',
           job'.state = "asked" => job.state = "asked" /\ job'.at = job.at /\ job'.conf = job.conf,
           \A t \in Tenants \ renamed' :
             /\ rows'[t].host = rows[t].host
             /\ rows'[t].cert \in {rows[t].cert, Tls!NoCert} \/ rows'[t].cert.host = rows'[t].host
    PROVE  Pending'
<1>1. /\ \A t \in Tenants : t \notin renamed' => t \notin renamed /\ rows'[t].host = rows[t].host
      /\ Tls!NoConf.tid \notin Tenants /\ job.at \in Tenants /\ Tls!NoCert' = Tls!NoCert
  BY Certs, TlsAssumed, TlsTypes DEF Tls!NoCert
<1>2. \A t \in Tenants : rows'[t].cert = Tls!NoCert \/ t \in renamed' \/ rows'[t].cert.host = rows'[t].host
  BY <1>1 DEF TlsInv, Pending
<1>3. \A t \in Tenants : order'.tid = t => t \in renamed' \/ order'.host = rows'[t].host
  BY <1>1 DEF TlsInv, Pending
<1>4. job'.state = "asked" =>
        job'.conf.tid = job'.at /\ (job'.at \in renamed' \/ job'.conf.host = rows'[job'.at].host)
  BY <1>1 DEF TlsInv, Pending
<1>5. QED BY <1>1, <1>2, <1>3, <1>4 DEF Pending

\* What is stored of a tenant changes, and the map is not told.
LEMMA StoresStep ==
    ASSUME TlsInv, NEW t \in Tenants, NEW row \in TenantRow, Tls!Untold(t, row),
           UNCHANGED <<day, job, cut>>, changes' \in 0 .. MaxChanges, order' \in {order, Tls!NoConf},
           row.active = rows[t].active, row.enabled = rows[t].enabled,
           left \subseteq left', left' \subseteq Hosts,
           renamed \subseteq renamed', renamed' \subseteq Tenants,
           \/ row.host = rows[t].host
           \/ /\ \A u \in Tenants : rows[u].host # row.host
              /\ Tls!Renewing(t) \/ snimap.configs[t].host = rows[t].host => rows[t].host \in left'
              /\ t \in renamed',
           row.cert \in {rows[t].cert, Tls!NoCert} \/ row.cert.host = row.host \/ t \in renamed',
           NEW copy \in TenantCopy, memory' = [memory EXCEPT ![t] = copy],
           copy.there = row.active, copy.enabled = (row.active /\ row.enabled),
           row.active /\ (row.enabled \/ row.cert # Tls!NoCert) => copy.cert = row.cert
    PROVE  TlsInv'
<1>1. /\ rows' = [rows EXCEPT ![t] = row]
      /\ exposed' = IF rows[t].enabled \/ Tls!Renewing(t) THEN exposed \cup {t} ELSE exposed
      /\ UNCHANGED <<day, job, cut, snimap, told, since>>
  BY DEF Tls!Untold
<1>2. /\ rows \in [Tenants -> TenantRow] /\ memory \in [Tenants -> TenantCopy]
  BY TlsTypes
<1>3. /\ rows'[t] = row /\ \A u \in Tenants \ {t} : rows'[u] = rows[u]
      /\ memory'[t] = copy /\ \A u \in Tenants \ {t} : memory'[u] = memory[u]
      /\ rows' \in [Tenants -> TenantRow] /\ memory' \in [Tenants -> TenantCopy]
  BY <1>1, <1>2
<1>4. Tls!TypeOK'
  <2>1. exposed' \subseteq Tenants
    BY <1>1 DEF TlsInv, Tls!TypeOK
  <2>2. order' \in Tls!Conf
    BY TlsTypes, Certs
  <2>3. QED BY <1>1, <1>3, <2>1, <2>2 DEF TlsInv, Tls!TypeOK, TenantRow, TenantCopy
<1>5. Apart'
  BY <1>3 DEF TlsInv, Apart
<1>6. Copied'
  BY <1>3 DEF TlsInv, Copied, Tls!NoCert
<1>7. Named'
  <2>1. \A u \in Tenants : snimap.configs[u].host \in Hosts \ left' => snimap.configs[u].host = rows'[u].host
    BY <1>3 DEF TlsInv, Named
  <2>2. job.state = "renewed" /\ job.conf # Tls!NoConf =>
          job.conf.tid = job.at /\ job.conf.host \in left' \cup {rows'[job.at].host, Local}
    BY <1>3, TlsTypes DEF TlsInv, Named, Tls!Renewing
  <2>3. \A u \in Tenants, h \in Hosts \ left' : snimap.contexts[h].tid = u => snimap.configs[u].host = h
    BY DEF TlsInv, Named
  <2>4. QED BY <1>1, <2>1, <2>2, <2>3 DEF Named, Tls!NoConf, Tls!NoCert
<1>8. \A u \in Tenants : Tls!Known(u)' => Tls!Known(u) /\ (u = t => ~row.enabled)
  BY <1>1, <1>3 DEF Tls!Known, Tls!Renewing
<1>9. Loaded'
  <2>1. ASSUME NEW u \in Tenants, Tls!Known(u)' PROVE Usable(u)' /\ Fits(u)'
    <3>1. Usable(u) /\ Fits(u)
      BY <1>8, <2>1 DEF TlsInv, Loaded
    <3>2. CASE u = t
      BY <1>1, <1>3, <1>8, <2>1, <3>1, <3>2 DEF Fits, Usable
    <3>3. CASE u # t
      <4>1. rows'[u] = rows[u]
        BY <1>3, <3>3
      <4>2. Usable(u)'
        BY <1>1, <3>1, <4>1 DEF Usable, Tls!Stored, Tls!Valid
      <4>3. QED BY <1>1, <3>1, <4>1, <4>2 DEF Fits, Tls!Stored
    <3>4. QED BY <3>2, <3>3
  <2>2. \A u \in Tenants : Tls!Renewing(u)' /\ u \notin exposed' => Tls!Renewing(u) /\ u \notin exposed /\ u # t
    BY <1>1 DEF Tls!Renewing
  <2>3. ASSUME NEW u \in Tenants, Tls!Renewing(u)', u \notin exposed'
        PROVE  rows'[u].active /\ Usable(u)' /\ job'.conf = Tls!Config(u, rows'[u])
    <3>1. rows'[u] = rows[u] /\ rows[u].active /\ Usable(u) /\ job.conf = Tls!Config(u, rows[u])
      BY <1>3, <2>2, <2>3 DEF TlsInv, Loaded
    <3>2. QED BY <1>1, <3>1 DEF Usable, Tls!Stored, Tls!Valid
  <2>4. QED BY <1>1, <2>1, <2>3 DEF Loaded, Tls!Config, Tls!Stored, Tls!SelfSigned, Tls!NoConf, Tls!NoCert
<1>10. Pending'
  <2>1. ASSUME NEW u \in Tenants \ renamed'
        PROVE  /\ rows'[u].host = rows[u].host
               /\ rows'[u].cert \in {rows[u].cert, Tls!NoCert} \/ rows'[u].cert.host = rows'[u].host
    BY <1>3
  <2>2. job'.state = "asked" => job.state = "asked" /\ job'.at = job.at /\ job'.conf = job.conf
    BY <1>1
  <2>3. QED BY <2>1, <2>2, PendingKept
<1>11. Meanwhile'
  BY <1>1, <1>3, <1>8, TlsTypes DEF TlsInv, Meanwhile
<1>12. Warned'
  <2>1. \A u \in Tenants : Tls!Known(u)' /\ rows'[u].enabled => Tls!Known(u) /\ rows'[u] = rows[u]
    BY <1>3, <1>8
  <2>2. QED BY <1>1, <2>1 DEF TlsInv, Warned, WarnedOf, Passed
<1>13. QED BY <1>4, <1>5, <1>6, <1>7, <1>9, <1>10, <1>11, <1>12 DEF TlsInv

\* What is stored fits what is loaded after the step.
FitsIn(map, t, row) ==
    IF row.enabled
    THEN /\ Tls!Valid(Tls!Stored(t, row), FALSE)
         /\ row.host \notin left => map.contexts[row.host] = Tls!Stored(t, row)
         /\ t = Root => map.default = Tls!Stored(t, row)
    ELSE Absent(map, t)

LEMMA OthersFit ==
    ASSUME TlsInv, NEW t \in Tenants, Moved(snimap', t), UNCHANGED left,
           NEW u \in Tenants \ {t}, rows'[u] = rows[u], Fits(u)
    PROVE  Fits(u)'
<1>1. \A h \in Hosts \ left : h # rows[t].host => snimap'.contexts[h] = snimap.contexts[h]
  BY DEF Moved
<1>2. rows[u].host # rows[t].host /\ rows[u].host \in Hosts
  BY TlsTypes DEF TlsInv, Apart, TenantRow
<1>3. \A h \in Hosts \ left : snimap.contexts[h].tid # u => snimap'.contexts[h].tid # u
  BY TlsAssumed DEF Moved
<1>4. u = Root => snimap'.default = snimap.default
  BY DEF Moved
<1>5. CASE rows[u].enabled
  BY <1>1, <1>2, <1>4, <1>5 DEF Fits, Tls!Stored
<1>6. CASE ~rows[u].enabled
  BY <1>3, <1>6 DEF Fits
<1>7. QED BY <1>5, <1>6

LEMMA MovedNamed ==
    ASSUME TlsInv, NEW t \in Tenants, Moved(snimap', t), UNCHANGED left,
           \A u \in Tenants : rows'[u].host = rows[u].host
    PROVE  /\ \A u \in Tenants : snimap'.configs[u].host \in Hosts \ left => snimap'.configs[u].host = rows'[u].host
           /\ \A u \in Tenants, h \in Hosts \ left : snimap'.contexts[h].tid = u => snimap'.configs[u].host = h
<1>1. \A u \in Tenants : snimap'.configs[u].host \in Hosts \ left => snimap'.configs[u].host = rows'[u].host
  BY DEF TlsInv, Named, Moved
<1>2. ASSUME NEW u \in Tenants, NEW h \in Hosts \ left, snimap'.contexts[h].tid = u
      PROVE  snimap'.configs[u].host = h
  <2>1. CASE u = t
    BY <1>2, <2>1 DEF Moved
  <2>2. CASE u # t
    <3>1. snimap'.contexts[h] = snimap.contexts[h] /\ snimap'.configs[u] = snimap.configs[u]
      BY <1>2, <2>2, TlsAssumed DEF Moved
    <3>2. QED BY <1>2, <3>1 DEF TlsInv, Named
  <2>3. QED BY <2>1, <2>2
<1>3. QED BY <1>1, <1>2

\* An administrator changes what a tenant is served with.
LEMMA ServesStep ==
    ASSUME TlsInv, NEW t \in Tenants, NEW row \in TenantRow, NEW copy \in TenantCopy, NEW map,
           Tls!Serves(t, row, copy, map), Moved(map, t), FitsIn(map, t, row),
           row.active = rows[t].active, row.host = rows[t].host, row.cert \in {rows[t].cert, Tls!NoCert},
           copy.there = row.active, copy.enabled = (row.active /\ row.enabled),
           row.active /\ (row.enabled \/ row.cert # Tls!NoCert) => copy.cert = row.cert
    PROVE  TlsInv'
<1>1. /\ rows' = [rows EXCEPT ![t] = row] /\ memory' = [memory EXCEPT ![t] = copy] /\ snimap' = map
      /\ exposed' = IF Tls!Renewing(t) THEN exposed \cup {t} ELSE exposed \ {t}
      /\ told' = told \ {t} /\ since' = [since EXCEPT ![t] = day]
      /\ changes < MaxChanges /\ changes' = changes + 1
      /\ UNCHANGED <<day, job, cut, left, order, renamed>>
  BY DEF Tls!Serves, Tls!Request
<1>2. /\ rows \in [Tenants -> TenantRow] /\ memory \in [Tenants -> TenantCopy]
      /\ since \in [Tenants -> 0 .. Days] /\ day \in 0 .. Days
  BY TlsTypes, TlsAssumed
<1>3. /\ rows'[t] = row /\ \A u \in Tenants \ {t} : rows'[u] = rows[u]
      /\ memory'[t] = copy /\ \A u \in Tenants \ {t} : memory'[u] = memory[u]
      /\ since'[t] = day /\ \A u \in Tenants \ {t} : since'[u] = since[u]
      /\ rows' \in [Tenants -> TenantRow] /\ memory' \in [Tenants -> TenantCopy] /\ since' \in [Tenants -> 0 .. Days]
  BY <1>1, <1>2
<1>4. Moved(snimap', t)
  BY <1>1
<1>5. Tls!TypeOK'
  <2>1. changes' \in 0 .. MaxChanges
    BY <1>1, TlsAssumed DEF TlsInv, Tls!TypeOK
  <2>2. exposed' \subseteq Tenants /\ told' \subseteq Tenants
    BY <1>1 DEF TlsInv, Tls!TypeOK
  <2>3. snimap' \in Map
    BY <1>4 DEF Moved
  <2>4. QED BY <1>1, <1>3, <2>1, <2>2, <2>3 DEF TlsInv, Tls!TypeOK, TenantRow, TenantCopy, Map
<1>6. Apart'
  BY <1>3 DEF TlsInv, Apart
<1>7. Copied'
  BY <1>3 DEF TlsInv, Copied, Tls!NoCert
<1>8. \A u \in Tenants : rows'[u].host = rows[u].host
  BY <1>3
<1>9. Named'
  <2>1. job.state = "renewed" /\ job.conf # Tls!NoConf =>
          job.conf.tid = job.at /\ job.conf.host \in left \cup {rows'[job.at].host, Local}
    BY <1>8, TlsTypes DEF TlsInv, Named
  <2>2. /\ \A u \in Tenants : snimap'.configs[u].host \in Hosts \ left => snimap'.configs[u].host = rows'[u].host
        /\ \A u \in Tenants, h \in Hosts \ left : snimap'.contexts[h].tid = u => snimap'.configs[u].host = h
    BY <1>1, <1>4, <1>8, MovedNamed
  <2>3. QED BY <1>1, <2>1, <2>2 DEF Named, Tls!NoConf, Tls!NoCert
<1>10. \A u \in Tenants \ {t} : Tls!Known(u)' => Tls!Known(u)
  BY <1>1, <1>3 DEF Tls!Known, Tls!Renewing
<1>11. Loaded'
  <2>1. ASSUME NEW u \in Tenants, Tls!Known(u)' PROVE Usable(u)' /\ Fits(u)'
    <3>1. CASE u = t
      <4>1. Usable(u)'
        BY <1>1, <1>3, <3>1 DEF FitsIn, Usable, Tls!Stored, Tls!Valid
      <4>2. Fits(u)'
        BY <1>1, <1>3, <1>8, <3>1 DEF FitsIn, Fits, Tls!Stored, Absent
      <4>3. QED BY <4>1, <4>2
    <3>2. CASE u # t
      <4>1. Usable(u) /\ Fits(u)
        BY <1>10, <2>1, <3>2 DEF TlsInv, Loaded
      <4>2. Usable(u)'
        BY <1>1, <1>3, <3>2, <4>1 DEF Usable, Tls!Stored, Tls!Valid
      <4>3. Fits(u)'
        BY <1>1, <1>3, <1>4, <3>2, <4>1, OthersFit
      <4>4. QED BY <4>2, <4>3
    <3>3. QED BY <3>1, <3>2
  <2>2. \A u \in Tenants : Tls!Renewing(u)' /\ u \notin exposed' => Tls!Renewing(u) /\ u \notin exposed /\ u # t
    BY <1>1 DEF Tls!Renewing
  <2>3. ASSUME NEW u \in Tenants, Tls!Renewing(u)', u \notin exposed'
        PROVE  rows'[u].active /\ Usable(u)' /\ job'.conf = Tls!Config(u, rows'[u])
    <3>1. rows'[u] = rows[u] /\ rows[u].active /\ Usable(u) /\ job.conf = Tls!Config(u, rows[u])
      BY <1>3, <2>2, <2>3 DEF TlsInv, Loaded
    <3>2. QED BY <1>1, <3>1 DEF Usable, Tls!Stored, Tls!Valid
  <2>4. QED BY <1>1, <2>1, <2>3 DEF Loaded, Tls!Config, Tls!Stored, Tls!SelfSigned, Tls!NoConf, Tls!NoCert
<1>12. Pending'
  <2>1. ASSUME NEW u \in Tenants
        PROVE  /\ rows'[u].host = rows[u].host
               /\ rows'[u].cert \in {rows[u].cert, Tls!NoCert} \/ rows'[u].cert.host = rows'[u].host
    BY <1>3
  <2>2. job'.state = "asked" => job.state = "asked" /\ job'.at = job.at /\ job'.conf = job.conf
    BY <1>1
  <2>3. order' \in {order, Tls!NoConf} /\ renamed \subseteq renamed'
    BY <1>1
  <2>4. QED BY <2>1, <2>2, <2>3, PendingKept
<1>13. Meanwhile'
  <2>1. CASE job.at = t
    BY <1>1, <1>3, <2>1 DEF Meanwhile
  <2>2. CASE job.at # t
    BY <1>1, <1>3, <1>10, <2>2, TlsTypes DEF TlsInv, Meanwhile
  <2>3. QED BY <2>1, <2>2
<1>14. Warned'
  <2>1. ASSUME NEW u \in Tenants, Tls!Known(u)', rows'[u].enabled, ~cut
        PROVE  /\ Passed(u) /\ day + Notice > rows'[u].cert.ends => WarnedOf(u)'
               /\ day + Notice > rows'[u].cert.ends + 1 => WarnedOf(u)'
    <3>1. CASE u = t
      <4>1. rows'[t].cert.ends \in Nat
        BY <1>3, Certs DEF TenantRow
      <4>2. QED BY <1>2, <1>3, <3>1, <4>1, TlsAssumed DEF WarnedOf
    <3>2. CASE u # t
      <4>1. WarnedOf(u) => WarnedOf(u)'
        BY <1>1, <1>3, <3>2 DEF WarnedOf
      <4>2. QED BY <1>3, <1>10, <2>1, <3>2, <4>1 DEF TlsInv, Warned
    <3>3. QED BY <3>1, <3>2
  <2>2. QED BY <1>1, <2>1 DEF TlsInv, Warned, Passed
<1>15. QED BY <1>5, <1>6, <1>7, <1>9, <1>11, <1>12, <1>13, <1>14 DEF TlsInv

LEMMA IssuedFacts ==
    ASSUME TlsInv, NEW asked \in Tls!Conf
    PROVE  /\ Tls!Issued(asked) \in Tls!Cert /\ Tls!Issued(asked).key = asked.key
           /\ Tls!Issued(asked).host = asked.host
<1>1. day + Life \in 0 .. Days + Life
  BY TlsTypes, TlsAssumed
<1>2. asked.key \in Keys \cup {0} /\ asked.host \in Hosts \cup {Local}
  BY DEF Tls!Conf
<1>3. PICK c : c = [key |-> asked.key, host |-> asked.host, ends |-> day + Life]
  OBVIOUS
<1>4. c \in Tls!Cert /\ c.key = asked.key /\ c.host = asked.host
  BY <1>1, <1>2, <1>3 DEF Tls!Cert
<1>5. c = Tls!Issued(asked)
  BY <1>3 DEF Tls!Issued
<1>6. QED BY <1>4, <1>5

LEMMA FilesSteps ==
    ASSUME TlsInv, NEW t \in Tenants,
           Tls!LoadKey(t) \/ Tls!LoadCert(t) \/ Tls!DeleteKey(t) \/ Tls!DeleteCert(t) \/ Tls!AcmeStored(t)
    PROVE  TlsInv'
<1>1. PICK old \in TenantRow : old = rows[t]
  BY TlsTypes
<1>2. PICK seen \in TenantCopy : seen = memory[t]
  BY TlsTypes
<1>3. /\ seen.there = old.active /\ seen.enabled = (old.active /\ old.enabled)
      /\ old.active /\ (old.enabled \/ old.cert # Tls!NoCert) => seen.cert = old.cert
  BY <1>1, <1>2 DEF TlsInv, Copied
<1>4. memory = [memory EXCEPT ![t] = seen]
  BY <1>2, TlsTypes
<1>5. left \subseteq Hosts /\ renamed \subseteq Tenants
  BY TlsTypes
<1>6. ASSUME NEW row, Tls!Stores(t, row)
       PROVE  /\ Tls!Untold(t, row)
              /\ UNCHANGED <<day, job, cut>> /\ changes' \in 0 .. MaxChanges /\ order' = order
  BY <1>6, TlsAssumed DEF Tls!Stores, Tls!Request, TlsInv, Tls!TypeOK
<1>7. ASSUME NEW key \in Keys \cup {0}, NEW row, row = [old EXCEPT !.key = key], Tls!Stores(t, row),
             UNCHANGED <<memory, left, renamed>>
      PROVE  TlsInv'
  <2>1. /\ row \in TenantRow /\ row.active = old.active /\ row.enabled = old.enabled /\ row.host = old.host
        /\ row.cert = old.cert
    BY <1>7 DEF TenantRow
  <2>2. row.active = rows[t].active /\ row.enabled = rows[t].enabled /\ row.host = rows[t].host
    BY <1>1, <2>1
  <2>3. left \subseteq left' /\ left' \subseteq Hosts /\ memory' = [memory EXCEPT ![t] = seen]
    BY <1>4, <1>5, <1>7
  <2>4. /\ seen.there = row.active /\ seen.enabled = (row.active /\ row.enabled)
        /\ row.active /\ (row.enabled \/ row.cert # Tls!NoCert) => seen.cert = row.cert
    BY <1>3, <2>1
  <2>5. row.cert \in {rows[t].cert, Tls!NoCert} /\ renamed \subseteq renamed' /\ renamed' \subseteq Tenants
    BY <1>1, <1>5, <1>7, <2>1
  <2>6. QED BY <1>7, <1>6, <2>1, <2>2, <2>3, <2>4, <2>5, StoresStep
<1>8. ASSUME NEW cert \in Tls!Cert, NEW acme \in BOOLEAN,
             cert = Tls!NoCert \/ t \in renamed \/ cert.host = old.host,
             NEW row, row = [old EXCEPT !.acme = acme, !.cert = cert], Tls!Untold(t, row),
             UNCHANGED <<day, job, cut, left, renamed>>, changes' \in 0 .. MaxChanges, order' \in {order, Tls!NoConf},
             NEW copy, copy = [seen EXCEPT !.cert = cert], memory' = [memory EXCEPT ![t] = copy]
      PROVE  TlsInv'
  <2>1. /\ row \in TenantRow /\ row.active = old.active /\ row.enabled = old.enabled /\ row.host = old.host
        /\ row.cert = cert
    BY <1>8 DEF TenantRow
  <2>2. copy \in TenantCopy /\ copy.there = seen.there /\ copy.enabled = seen.enabled /\ copy.cert = cert
    BY <1>8 DEF TenantCopy
  <2>3. row.active = rows[t].active /\ row.enabled = rows[t].enabled /\ row.host = rows[t].host
    BY <1>1, <2>1
  <2>4. left \subseteq left' /\ left' \subseteq Hosts /\ renamed \subseteq renamed' /\ renamed' \subseteq Tenants
    BY <1>5, <1>8
  <2>5. /\ copy.there = row.active /\ copy.enabled = (row.active /\ row.enabled)
        /\ row.active /\ (row.enabled \/ row.cert # Tls!NoCert) => copy.cert = row.cert
    BY <1>3, <2>1, <2>2
  <2>6. row.cert \in {rows[t].cert, Tls!NoCert} \/ row.cert.host = row.host \/ t \in renamed'
    BY <1>8, <2>1
  <2>7. QED BY <1>8, <2>1, <2>2, <2>3, <2>4, <2>5, <2>6, StoresStep
<1>9. ASSUME NEW cert \in Tls!Cert, cert = Tls!NoCert \/ cert.host = rows[t].host,
             NEW row, row = [rows[t] EXCEPT !.cert = cert], Tls!Stores(t, row),
             memory' = [memory EXCEPT ![t].cert = cert], UNCHANGED <<left, renamed>>
      PROVE  TlsInv'
  <2>1. PICK copy : copy = [seen EXCEPT !.cert = cert]
    OBVIOUS
  <2>2. memory' = [memory EXCEPT ![t] = copy]
    BY <1>2, <1>9, <2>1, TlsTypes
  <2>3. PICK acme \in BOOLEAN : acme = old.acme
    BY DEF TenantRow
  <2>4. row = [old EXCEPT !.acme = acme, !.cert = cert]
    BY <1>1, <1>9, <2>3 DEF TenantRow
  <2>5. QED BY <1>1, <1>8, <1>9, <1>6, <2>1, <2>2, <2>4
<1>10. CASE Tls!LoadKey(t)
  <2>1. PICK key \in Keys : Tls!Stores(t, [rows[t] EXCEPT !.key = key]) /\ UNCHANGED <<memory, left, renamed>>
    BY <1>10 DEF Tls!LoadKey
  <2>2. PICK row : row = [old EXCEPT !.key = key]
    OBVIOUS
  <2>3. QED BY <1>1, <1>7, <2>1, <2>2
<1>11. CASE Tls!DeleteKey(t)
  <2>1. PICK row : row = [old EXCEPT !.key = 0]
    OBVIOUS
  <2>2. QED BY <1>1, <1>7, <1>11, <2>1 DEF Tls!DeleteKey
<1>12. CASE Tls!LoadCert(t)
  <2>1. PICK ends \in {day, Days} :
          /\ Tls!Stores(t, [rows[t] EXCEPT !.cert = [key |-> rows[t].key, host |-> rows[t].host, ends |-> ends]])
          /\ memory' = [memory EXCEPT ![t].cert = [key |-> rows[t].key, host |-> rows[t].host, ends |-> ends]]
          /\ UNCHANGED <<left, renamed>>
    BY <1>12 DEF Tls!LoadCert
  <2>2. PICK cert \in Tls!Cert : cert = [key |-> rows[t].key, host |-> rows[t].host, ends |-> ends]
    <3>1. ends \in 0 .. Days + Life
      BY TlsTypes, TlsAssumed
    <3>2. rows[t].key \in Keys \cup {0} /\ rows[t].host \in Hosts
      BY <1>1 DEF TenantRow
    <3>3. QED BY <3>1, <3>2 DEF Tls!Cert
  <2>3. PICK row : row = [rows[t] EXCEPT !.cert = cert]
    OBVIOUS
  <2>4. cert.host = rows[t].host
    BY <2>2
  <2>5. QED BY <1>9, <2>1, <2>2, <2>3, <2>4
<1>13. CASE Tls!DeleteCert(t)
  <2>1. PICK row : row = [rows[t] EXCEPT !.cert = Tls!NoCert]
    OBVIOUS
  <2>2. QED BY <1>9, <1>13, <2>1, Certs DEF Tls!DeleteCert
<1>14. CASE Tls!AcmeStored(t)
  <2>1. order \in Tls!Conf /\ order.tid = t /\ (t \in renamed \/ order.host = old.host)
    BY <1>1, <1>14, TlsTypes DEF Tls!AcmeStored, Tls!Obtains, TlsInv, Pending
  <2>2. PICK cert \in Tls!Cert : cert = Tls!Issued(order) /\ cert.host = order.host
    BY <2>1, IssuedFacts
  <2>3. PICK row : row = [old EXCEPT !.acme = TRUE, !.cert = cert]
    OBVIOUS
  <2>4. PICK copy : copy = [seen EXCEPT !.cert = cert]
    OBVIOUS
  <2>5. row = Tls!Renewed(t, order)
    BY <1>1, <2>2, <2>3 DEF Tls!Renewed
  <2>6. Tls!Untold(t, row) /\ UNCHANGED <<day, job, cut, left, renamed, changes>> /\ order' = Tls!NoConf
    BY <1>14, <2>5 DEF Tls!AcmeStored
  <2>7. memory' = [memory EXCEPT ![t] = copy]
    BY <1>2, <1>14, <2>2, <2>4, TlsTypes DEF Tls!AcmeStored, Tls!Obtains
  <2>8. cert = Tls!NoCert \/ t \in renamed \/ cert.host = old.host
    BY <2>1, <2>2
  <2>9. changes' \in 0 .. MaxChanges
    BY <2>6, TlsTypes
  <2>10. QED BY <1>8, <2>3, <2>4, <2>6, <2>7, <2>8, <2>9
<1>15. QED BY <1>10, <1>11, <1>12, <1>13, <1>14

LEMMA CopyFacts ==
    ASSUME NEW row \in TenantRow, NEW copy, copy = Tls!Copy(row)
    PROVE  /\ copy \in TenantCopy
           /\ copy.there = row.active /\ copy.enabled = (row.active /\ row.enabled)
           /\ row.active => copy.cert = row.cert
<1>1. PICK cert \in Tls!Cert : cert = IF row.active THEN row.cert ELSE Tls!NoCert
  BY Certs DEF TenantRow
<1>2. copy = [there |-> row.active, enabled |-> row.active /\ row.enabled, cert |-> cert, acme |-> row.active /\ row.acme]
  BY <1>1 DEF Tls!Copy
<1>3. row.active \in BOOLEAN /\ (row.active /\ row.enabled) \in BOOLEAN /\ (row.active /\ row.acme) \in BOOLEAN
  BY DEF TenantRow
<1>4. QED BY <1>1, <1>2, <1>3 DEF TenantCopy

LEMMA RenameStep ==
    ASSUME TlsInv, NEW t \in Tenants, Tls!Rename(t)
    PROVE  TlsInv'
<1>1. PICK h \in Hosts : /\ \A u \in Tenants : rows[u].host # h
                         /\ Tls!Stores(t, [rows[t] EXCEPT !.host = h])
  BY DEF Tls!Rename
<1>2. PICK old \in TenantRow : old = rows[t]
  BY TlsTypes
<1>3. PICK row : row = [old EXCEPT !.host = h]
  OBVIOUS
<1>4. row \in TenantRow /\ row.active = old.active /\ row.enabled = old.enabled /\ row.host = h /\ row.cert = old.cert
  BY <1>3 DEF TenantRow
<1>5. Tls!Stores(t, row)
  BY <1>1, <1>2, <1>3
<1>6. rows'[t] = row
  BY <1>5, TlsTypes DEF Tls!Stores, Tls!Untold
<1>7. PICK copy : copy = Tls!Copy(row)
  OBVIOUS
<1>8. copy \in TenantCopy /\ copy.there = row.active /\ copy.enabled = (row.active /\ row.enabled)
      /\ (row.active /\ (row.enabled \/ row.cert # Tls!NoCert) => copy.cert = row.cert)
  BY <1>4, <1>7, CopyFacts
<1>9. memory' = [memory EXCEPT ![t] = copy]
  <2>1. memory' = [memory EXCEPT ![t] = Tls!Copy(rows'[t])]
    BY DEF Tls!Rename, Tls!Copy
  <2>2. QED BY <2>1, <1>6, <1>7
<1>10. left' = IF Tls!Renewing(t) \/ snimap.configs[t].host = rows[t].host THEN left \cup {rows[t].host} ELSE left
  BY DEF Tls!Rename
<1>11. rows[t].host \in Hosts /\ left \subseteq Hosts
  BY <1>2, TlsTypes DEF TenantRow
<1>12. left \subseteq left' /\ left' \subseteq Hosts
       /\ (Tls!Renewing(t) \/ snimap.configs[t].host = rows[t].host => rows[t].host \in left')
  BY <1>10, <1>11
<1>13. row.active = rows[t].active /\ row.enabled = rows[t].enabled /\ \A u \in Tenants : rows[u].host # row.host
  BY <1>1, <1>2, <1>4
<1>14. /\ Tls!Untold(t, row) /\ UNCHANGED <<day, job, cut>> /\ changes' \in 0 .. MaxChanges /\ order' = order
       /\ renamed' = renamed \cup {t}
  BY <1>5, TlsAssumed DEF Tls!Rename, Tls!Stores, Tls!Request, TlsInv, Tls!TypeOK
<1>15. renamed \subseteq renamed' /\ renamed' \subseteq Tenants /\ t \in renamed'
  BY <1>14, TlsTypes
<1>16. QED BY <1>4, <1>8, <1>9, <1>12, <1>13, <1>14, <1>15, StoresStep

LEMMA EnableStep ==
    ASSUME TlsInv, NEW t \in Tenants, Tls!Enable(t)
    PROVE  TlsInv'
<1>1. PICK old \in TenantRow : old = rows[t]
  BY TlsTypes
<1>2. PICK seen \in TenantCopy : seen = memory[t]
  BY TlsTypes
<1>3. PICK row : row = [old EXCEPT !.enabled = TRUE]
  OBVIOUS
<1>4. PICK copy : copy = [seen EXCEPT !.enabled = TRUE]
  OBVIOUS
<1>5. PICK conf : conf = Tls!Stored(t, old)
  OBVIOUS
<1>6. PICK map : map = Tls!Load(snimap, t, conf)
  OBVIOUS
<1>7. Tls!Valid(conf, TRUE) /\ Tls!Serves(t, row, copy, map)
  BY <1>1, <1>2, <1>3, <1>4, <1>5, <1>6 DEF Tls!Enable
<1>8. /\ row \in TenantRow /\ row.active = old.active /\ row.enabled /\ row.host = old.host
      /\ row.cert = old.cert /\ row.key = old.key
  BY <1>3 DEF TenantRow
<1>9. copy \in TenantCopy /\ copy.there = seen.there /\ copy.enabled /\ copy.cert = seen.cert
  BY <1>4 DEF TenantCopy
<1>10. /\ conf \in Tls!Conf /\ conf.tid = t /\ conf.host = old.host /\ conf.key = old.key
       /\ conf.cert = old.cert /\ conf # Tls!SelfSigned /\ conf # Tls!NoConf
  BY <1>5, StoredFacts
<1>11. Tls!Valid(conf, FALSE) /\ old.cert # Tls!NoCert
  BY <1>7, <1>10 DEF Tls!Valid
<1>12. Moved(map, t) /\ map.contexts[conf.host] = conf /\ (t = Root => map.default = conf)
  <2>1. PICK base : base = snimap
    OBVIOUS
  <2>2. Moved(base, t) /\ conf.host = rows[t].host /\ map = Tls!Load(base, t, conf)
    BY <1>1, <1>6, <1>10, <2>1, StaysMoved
  <2>3. /\ conf \in Tls!Conf /\ conf.tid = t
        /\ conf.host \in left \/ conf.host = rows[t].host \/ conf.host = Local
        /\ conf.host = rows[t].host \/ Absent(base, t)
    BY <1>10, <2>2
  <2>4. Put(base, map, t, conf)
    BY <2>2, <2>3, LoadMoved
  <2>5. QED BY <1>11, <2>4 DEF Put
<1>13. conf = Tls!Stored(t, row)
  BY <1>5, <1>8 DEF Tls!Stored
<1>14. FitsIn(map, t, row)
  BY <1>8, <1>10, <1>11, <1>12, <1>13 DEF FitsIn
<1>15. seen.there /\ seen.there = old.active /\ seen.cert = old.cert
  BY <1>1, <1>2, <1>7, <1>11 DEF Tls!Serves, Tls!Request, TlsInv, Copied
<1>16. /\ row.active = rows[t].active /\ row.host = rows[t].host /\ row.cert \in {rows[t].cert, Tls!NoCert}
       /\ copy.there = row.active /\ copy.enabled = (row.active /\ row.enabled) /\ copy.cert = row.cert
  BY <1>1, <1>8, <1>9, <1>15
<1>17. QED BY <1>7, <1>8, <1>9, <1>12, <1>14, <1>16, ServesStep

LEMMA DisableStep ==
    ASSUME TlsInv, NEW t \in Tenants, Tls!Disable(t)
    PROVE  TlsInv'
<1>1. PICK old \in TenantRow : old = rows[t]
  BY TlsTypes
<1>2. PICK seen \in TenantCopy : seen = memory[t]
  BY TlsTypes
<1>3. PICK row : row = [old EXCEPT !.enabled = FALSE]
  OBVIOUS
<1>4. PICK copy : copy = [seen EXCEPT !.enabled = FALSE]
  OBVIOUS
<1>5. PICK map : map = Tls!Unload(snimap, t)
  OBVIOUS
<1>6. Tls!Serves(t, row, copy, map) /\ old.enabled
  BY <1>1, <1>2, <1>3, <1>4, <1>5 DEF Tls!Disable
<1>7. /\ row \in TenantRow /\ row.active = old.active /\ ~row.enabled /\ row.host = old.host
      /\ row.cert = old.cert
  BY <1>3 DEF TenantRow
<1>8. copy \in TenantCopy /\ copy.there = seen.there /\ copy.enabled = FALSE /\ copy.cert = seen.cert
  BY <1>4 DEF TenantCopy
<1>9. Moved(map, t) /\ FitsIn(map, t, row)
  BY <1>5, <1>7, UnloadMoved DEF FitsIn
<1>10. seen.there = old.active /\ (old.active => seen.cert = old.cert)
  BY <1>1, <1>2, <1>6 DEF TlsInv, Copied
<1>11. /\ row.active = rows[t].active /\ row.host = rows[t].host /\ row.cert \in {rows[t].cert, Tls!NoCert}
       /\ copy.there = row.active /\ copy.enabled = (row.active /\ row.enabled)
       /\ (row.active => copy.cert = row.cert)
  BY <1>1, <1>7, <1>8, <1>10
<1>12. QED BY <1>6, <1>7, <1>8, <1>9, <1>11, ServesStep

LEMMA ResetStep ==
    ASSUME TlsInv, NEW t \in Tenants, Tls!Reset(t)
    PROVE  TlsInv'
<1>1. PICK old \in TenantRow : old = rows[t]
  BY TlsTypes
<1>2. PICK seen \in TenantCopy : seen = memory[t]
  BY TlsTypes
<1>3. PICK row : row = [old EXCEPT !.enabled = FALSE, !.key = 0, !.cert = Tls!NoCert, !.acme = FALSE]
  OBVIOUS
<1>4. PICK copy : copy = [seen EXCEPT !.enabled = FALSE]
  OBVIOUS
<1>5. PICK bare : bare = Tls!Unload(snimap, t)
  OBVIOUS
<1>6. PICK conf : conf = Tls!Config(t, row)
  OBVIOUS
<1>7. PICK map : map = Tls!Load(bare, t, conf)
  OBVIOUS
<1>8. Tls!Serves(t, row, copy, map)
  BY <1>1, <1>2, <1>3, <1>4, <1>5, <1>6, <1>7 DEF Tls!Reset
<1>9. /\ row \in TenantRow /\ row.active = old.active /\ ~row.enabled /\ row.host = old.host
      /\ row.cert = Tls!NoCert
  BY <1>3, Certs DEF TenantRow
<1>10. copy \in TenantCopy /\ copy.there = seen.there /\ copy.enabled = FALSE
  BY <1>4 DEF TenantCopy
<1>11. Moved(bare, t) /\ Absent(bare, t)
  BY <1>5, UnloadMoved
<1>12. Moved(map, t) /\ Absent(map, t)
  <2>1. CASE t = Root
    <3>1. conf \in Tls!Conf /\ conf.tid = t /\ conf.host = Local
      BY <1>6, <1>9, <2>1, Certs DEF Tls!Config
    <3>2. Put(bare, map, t, conf)
      BY <1>7, <1>11, <3>1, LoadMoved
    <3>3. QED BY <1>11, <3>1, <3>2 DEF Put
  <2>2. CASE t # Root
    <3>1. conf = Tls!NoConf
      BY <1>6, <1>9, <2>2 DEF Tls!Config
    <3>2. map = bare
      BY <1>7, <3>1, Certs DEF Tls!Load
    <3>3. QED BY <1>11, <3>2
  <2>3. QED BY <2>1, <2>2
<1>13. FitsIn(map, t, row)
  BY <1>9, <1>12 DEF FitsIn
<1>14. seen.there = old.active
  BY <1>1, <1>2 DEF TlsInv, Copied
<1>15. /\ row.active = rows[t].active /\ row.host = rows[t].host /\ row.cert \in {rows[t].cert, Tls!NoCert}
       /\ copy.there = row.active /\ copy.enabled = (row.active /\ row.enabled)
       /\ ~(row.enabled \/ row.cert # Tls!NoCert)
  BY <1>1, <1>9, <1>10, <1>14
<1>16. QED BY <1>8, <1>9, <1>10, <1>12, <1>13, <1>15, ServesStep

LEMMA ActivateStep ==
    ASSUME TlsInv, NEW t \in Tenants, Tls!Activate(t)
    PROVE  TlsInv'
<1>1. PICK old \in TenantRow : old = rows[t]
  BY TlsTypes
<1>2. PICK row : row = [old EXCEPT !.active = ~@]
  OBVIOUS
<1>3. row \in TenantRow /\ row.host = old.host /\ row.cert = old.cert
  BY <1>2 DEF TenantRow
<1>4. PICK copy : copy = Tls!Copy(row)
  OBVIOUS
<1>5. copy \in TenantCopy /\ copy.there = row.active /\ copy.enabled = (row.active /\ row.enabled)
      /\ (row.active => copy.cert = row.cert)
  BY <1>3, <1>4, CopyFacts
<1>6. rows' = [rows EXCEPT ![t] = row]
  BY <1>1, <1>2, TlsTypes DEF Tls!Activate
<1>7. memory' = [memory EXCEPT ![t] = copy]
  <2>1. rows'[t] = row
    BY <1>6, TlsTypes
  <2>2. memory' = [memory EXCEPT ![t] = Tls!Copy(rows'[t])]
    BY DEF Tls!Activate, Tls!Copy
  <2>3. QED BY <1>4, <2>1, <2>2
<1>8. /\ changes < MaxChanges /\ changes' = changes + 1 /\ exposed' = exposed \cup {t}
      /\ UNCHANGED <<day, job, order, left, renamed, told, since, cut>>
  BY DEF Tls!Activate
<1>9. Moved(snimap', t)
  <2>1. snimap' = IF rows[t].active THEN Tls!Unload(snimap, t) ELSE snimap
    BY DEF Tls!Activate
  <2>2. PICK map : map = Tls!Unload(snimap, t)
    OBVIOUS
  <2>3. Moved(map, t) /\ Moved(snimap, t)
    BY <2>2, UnloadMoved, StaysMoved
  <2>4. QED BY <2>1, <2>2, <2>3
<1>10. /\ rows'[t] = row /\ \A u \in Tenants \ {t} : rows'[u] = rows[u]
       /\ memory'[t] = copy /\ \A u \in Tenants \ {t} : memory'[u] = memory[u]
       /\ rows' \in [Tenants -> TenantRow] /\ memory' \in [Tenants -> TenantCopy]
  BY <1>3, <1>5, <1>6, <1>7, TlsTypes
<1>11. Tls!TypeOK'
  <2>1. changes' \in 0 .. MaxChanges
    BY <1>8, TlsAssumed DEF TlsInv, Tls!TypeOK
  <2>2. exposed' \subseteq Tenants
    BY <1>8 DEF TlsInv, Tls!TypeOK
  <2>3. snimap' \in Map
    BY <1>9 DEF Moved
  <2>4. QED BY <1>8, <1>10, <2>1, <2>2, <2>3 DEF TlsInv, Tls!TypeOK, TenantRow, TenantCopy, Map
<1>12. \A u \in Tenants : rows'[u].host = rows[u].host
  BY <1>1, <1>3, <1>10
<1>13. Apart'
  BY <1>12 DEF TlsInv, Apart
<1>14. Copied'
  BY <1>5, <1>10 DEF TlsInv, Copied, Tls!NoCert
<1>15. Named'
  <2>1. job.state = "renewed" /\ job.conf # Tls!NoConf =>
          job.conf.tid = job.at /\ job.conf.host \in left \cup {rows'[job.at].host, Local}
    BY <1>12, TlsTypes DEF TlsInv, Named
  <2>2. /\ \A u \in Tenants : snimap'.configs[u].host \in Hosts \ left => snimap'.configs[u].host = rows'[u].host
        /\ \A u \in Tenants, h \in Hosts \ left : snimap'.contexts[h].tid = u => snimap'.configs[u].host = h
    BY <1>8, <1>9, <1>12, MovedNamed
  <2>3. QED BY <1>8, <2>1, <2>2 DEF Named, Tls!NoConf, Tls!NoCert
<1>16. \A u \in Tenants : Tls!Known(u)' => Tls!Known(u) /\ u # t
  BY <1>8, <1>10 DEF Tls!Known, Tls!Renewing
<1>17. Loaded'
  <2>1. ASSUME NEW u \in Tenants, Tls!Known(u)' PROVE Usable(u)' /\ Fits(u)'
    <3>1. Usable(u) /\ Fits(u) /\ u # t
      BY <1>16, <2>1 DEF TlsInv, Loaded
    <3>2. Usable(u)'
      BY <1>8, <1>10, <3>1 DEF Usable, Tls!Stored, Tls!Valid
    <3>3. Fits(u)'
      BY <1>8, <1>9, <1>10, <3>1, OthersFit
    <3>4. QED BY <3>2, <3>3
  <2>2. \A u \in Tenants : Tls!Renewing(u)' /\ u \notin exposed' => Tls!Renewing(u) /\ u \notin exposed /\ u # t
    BY <1>8 DEF Tls!Renewing
  <2>3. ASSUME NEW u \in Tenants, Tls!Renewing(u)', u \notin exposed'
        PROVE  rows'[u].active /\ Usable(u)' /\ job'.conf = Tls!Config(u, rows'[u])
    <3>1. rows'[u] = rows[u] /\ rows[u].active /\ Usable(u) /\ job.conf = Tls!Config(u, rows[u])
      BY <1>10, <2>2, <2>3 DEF TlsInv, Loaded
    <3>2. QED BY <1>8, <3>1 DEF Usable, Tls!Stored, Tls!Valid
  <2>4. QED BY <1>8, <2>1, <2>3 DEF Loaded, Tls!Config, Tls!Stored, Tls!SelfSigned, Tls!NoConf, Tls!NoCert
<1>18. Pending'
  <2>1. \A u \in Tenants : rows'[u].host = rows[u].host /\ rows'[u].cert = rows[u].cert
    BY <1>1, <1>3, <1>10
  <2>2. job'.state = "asked" => job.state = "asked" /\ job'.at = job.at /\ job'.conf = job.conf
    BY <1>8
  <2>3. order' \in {order, Tls!NoConf} /\ renamed \subseteq renamed'
    BY <1>8
  <2>4. QED BY <2>1, <2>2, <2>3, PendingKept
<1>19. Meanwhile'
  BY <1>8, <1>10, <1>16, TlsTypes DEF TlsInv, Meanwhile
<1>20. Warned'
  BY <1>8, <1>10, <1>16 DEF TlsInv, Warned, WarnedOf, Passed
<1>21. QED BY <1>11, <1>13, <1>14, <1>15, <1>17, <1>18, <1>19, <1>20 DEF TlsInv

\* What is loaded when the program starts.
Fresh(map, rs) ==
    /\ map \in Map
    /\ \A t \in Tenants : map.configs[t].host \in Hosts => map.configs[t].host = rs[t].host
    /\ \A t \in Tenants, h \in Hosts : map.contexts[h].tid = t => map.configs[t].host = h
    /\ \A t \in Tenants : rs[t].active =>
         IF rs[t].enabled
         THEN Tls!Valid(Tls!Stored(t, rs[t]), FALSE) =>
                /\ map.contexts[rs[t].host] = Tls!Stored(t, rs[t])
                /\ t = Root => map.default = Tls!Stored(t, rs[t])
         ELSE \A h \in Hosts : map.contexts[h].tid # t

LEMMA InitializedFacts ==
    ASSUME NEW rs \in [Tenants -> TenantRow], \A t, u \in Tenants : rs[t].host = rs[u].host => t = u,
           NEW map, map = Tls!Initialized(rs)
    PROVE  Fresh(map, rs)
<1>1. PICK conf : conf = [t \in Tenants |-> IF rs[t].active THEN Tls!Config(t, rs[t]) ELSE Tls!NoConf]
  OBVIOUS
<1>2. \A t \in Tenants :
        \/ conf[t] = Tls!NoConf /\ ~(rs[t].active /\ rs[t].enabled)
        \/ conf[t] = Tls!SelfSigned /\ t = Root /\ ~(rs[t].active /\ rs[t].enabled)
        \/ conf[t] = Tls!Stored(t, rs[t]) /\ rs[t].active /\ rs[t].enabled
  BY <1>1 DEF Tls!Config
<1>3. \A t \in Tenants : /\ Tls!Stored(t, rs[t]) \in Tls!Conf /\ Tls!Stored(t, rs[t]).tid = t
                         /\ Tls!Stored(t, rs[t]).host = rs[t].host /\ rs[t].host \in Hosts
  <2> SUFFICES ASSUME NEW t \in Tenants
               PROVE  /\ Tls!Stored(t, rs[t]) \in Tls!Conf /\ Tls!Stored(t, rs[t]).tid = t
                      /\ Tls!Stored(t, rs[t]).host = rs[t].host /\ rs[t].host \in Hosts
    OBVIOUS
  <2>1. PICK row \in TenantRow : row = rs[t]
    OBVIOUS
  <2>2. PICK c : c = Tls!Stored(t, row)
    OBVIOUS
  <2>3. c \in Tls!Conf /\ c.tid = t /\ c.host = row.host /\ row.host \in Hosts
    BY <2>2, StoredFacts DEF TenantRow
  <2>4. QED BY <2>1, <2>2, <2>3
<1>4. PICK loaded \in SUBSET Tenants : loaded = {t \in Tenants : Tls!Valid(conf[t], FALSE)}
  OBVIOUS
<1>5. \A t \in Tenants : conf[t] \in Tls!Conf
  BY <1>2, <1>3, Certs
<1>6. \A t \in loaded :
        /\ conf[t].tid = t
        /\ conf[t].host \in Hosts => conf[t].host = rs[t].host /\ rs[t].enabled
  <2> SUFFICES ASSUME NEW t \in loaded
               PROVE  /\ conf[t].tid = t
                      /\ conf[t].host \in Hosts => conf[t].host = rs[t].host /\ rs[t].enabled
    OBVIOUS
  <2>1. conf[t] # Tls!NoConf
    BY <1>4, Certs
  <2>2. \/ conf[t] = Tls!SelfSigned /\ t = Root
        \/ conf[t] = Tls!Stored(t, rs[t]) /\ rs[t].enabled
    BY <1>2, <2>1
  <2>3. QED BY <1>3, <2>2, Certs, TlsAssumed
<1>7. PICK cs \in [Tenants -> Tls!Conf] : cs = [t \in Tenants |-> IF t \in loaded THEN conf[t] ELSE Tls!NoConf]
  BY <1>5, Certs
<1>8. PICK xs : xs = [h \in Hosts \cup {Local} |->
                        IF \E t \in loaded : conf[t].host = h
                        THEN conf[CHOOSE t \in loaded : conf[t].host = h] ELSE Tls!NoConf]
  OBVIOUS
<1>9. \A h \in Hosts \cup {Local} :
        IF \E t \in loaded : conf[t].host = h
        THEN \E t \in loaded : conf[t].host = h /\ xs[h] = conf[t]
        ELSE xs[h] = Tls!NoConf
  BY <1>8
<1>10. xs \in [Hosts \cup {Local} -> Tls!Conf]
  <2>1. \A h \in Hosts \cup {Local} : xs[h] \in Tls!Conf
    BY <1>5, <1>9, Certs
  <2>2. QED BY <1>8, <2>1
<1>11. PICK de \in Tls!Conf : de = IF Root \in loaded THEN conf[Root] ELSE Tls!NoConf
  BY <1>5, Certs, TlsAssumed
<1>12. map = [configs |-> cs, contexts |-> xs, default |-> de]
  BY <1>1, <1>4, <1>7, <1>8, <1>11 DEF Tls!Initialized
<1>13. map \in Map /\ map.configs = cs /\ map.contexts = xs /\ map.default = de
  BY <1>10, <1>12 DEF Map
<1>14. \A t \in Tenants : map.configs[t].host \in Hosts => map.configs[t].host = rs[t].host
  BY <1>6, <1>7, <1>13, Certs, TlsAssumed
<1>15. \A t \in Tenants, h \in Hosts : map.contexts[h].tid = t => t \in loaded /\ conf[t].host = h
  BY <1>6, <1>9, <1>13, Certs, TlsAssumed
<1>16. \A t \in Tenants, h \in Hosts : map.contexts[h].tid = t => map.configs[t].host = h
  BY <1>7, <1>13, <1>15
<1>17. ASSUME NEW t \in Tenants, rs[t].active, rs[t].enabled, Tls!Valid(Tls!Stored(t, rs[t]), FALSE)
       PROVE  /\ map.contexts[rs[t].host] = Tls!Stored(t, rs[t])
              /\ t = Root => map.default = Tls!Stored(t, rs[t])
  <2>1. conf[t] = Tls!Stored(t, rs[t]) /\ t \in loaded
    BY <1>2, <1>4, <1>17
  <2>2. conf[t].host = rs[t].host /\ rs[t].host \in Hosts
    BY <1>3, <2>1
  <2>3. PICK u \in loaded : conf[u].host = rs[t].host /\ xs[rs[t].host] = conf[u]
    BY <1>9, <2>1, <2>2
  <2>4. u = t
    BY <1>6, <2>2, <2>3
  <2>5. QED BY <1>11, <1>13, <2>1, <2>3, <2>4
<1>18. ASSUME NEW t \in Tenants, rs[t].active, ~rs[t].enabled, NEW h \in Hosts
       PROVE  map.contexts[h].tid # t
  BY <1>6, <1>15, <1>18
<1>19. QED BY <1>13, <1>14, <1>16, <1>17, <1>18 DEF Fresh

LEMMA FreshFits ==
    ASSUME Fresh(snimap, rows), left = {}, NEW t \in Tenants, rows[t].active,
           rows[t].enabled => Tls!Valid(Tls!Stored(t, rows[t]), FALSE)
    PROVE  Fits(t)
BY DEF Fresh, Fits

\* What a tenant has at first
LEMMA FirstRowFacts ==
    ASSUME NEW t \in Tenants, NEW kind \in {"plain", "ready", "acme"}
    PROVE  \E row \in TenantRow :
             /\ row = Tls!FirstRow(t, kind) /\ row.active /\ row.host = Home[t]
             /\ row.cert = Tls!NoCert \/ row.cert.host = row.host
             /\ row.enabled => row.key # 0 /\ row.cert # Tls!NoCert /\ row.cert.key = row.key /\ row.cert.ends = Life
<1>1. PICK key \in Keys \cup {0} : /\ key = IF kind = "plain" THEN 0 ELSE CHOOSE k \in Keys : TRUE
                                   /\ key = 0 <=> kind = "plain"
  BY TlsAssumed
<1>2. PICK h \in Hosts : h = Home[t]
  BY TlsAssumed
<1>3. PICK cert \in Tls!Cert : /\ cert = IF key = 0 THEN Tls!NoCert ELSE [key |-> key, host |-> h, ends |-> Life]
                               /\ key # 0 => cert.key = key /\ cert.ends = Life /\ cert.host = h
  <2>1. Life \in 0 .. Days + Life
    BY TlsAssumed
  <2>2. [key |-> key, host |-> h, ends |-> Life] \in Tls!Cert
    BY <2>1 DEF Tls!Cert
  <2>3. QED BY <2>2, Certs
<1>4. PICK on \in BOOLEAN : on = (kind = "acme")
  OBVIOUS
<1>5. PICK row : row = [active |-> TRUE, host |-> h, enabled |-> on, acme |-> on, key |-> key, cert |-> cert]
  OBVIOUS
<1>6. row \in TenantRow /\ row.active /\ row.host = h /\ row.enabled = on /\ row.key = key /\ row.cert = cert
  BY <1>5 DEF TenantRow
<1>7. row = Tls!FirstRow(t, kind)
  BY <1>1, <1>2, <1>3, <1>4, <1>5 DEF Tls!FirstRow
<1>8. key = 0 => cert = Tls!NoCert
  BY <1>3
<1>9. on => key # 0 /\ cert # Tls!NoCert
  BY <1>1, <1>3, <1>4 DEF Tls!NoCert
<1>10. QED BY <1>2, <1>3, <1>6, <1>7, <1>8, <1>9

LEMMA TlsBegin ==
    ASSUME Tls!Init
    PROVE  TlsInv
<1>1. PICK kind \in Kinds : rows = [t \in Tenants |-> Tls!FirstRow(t, kind[t])]
  BY DEF Tls!Init
<1>2. \A t \in Tenants : kind[t] \in {"plain", "ready", "acme"}
  BY TlsAssumed
<1>3. /\ \A t \in Tenants : /\ rows[t] \in TenantRow /\ rows[t].active /\ rows[t].host = Home[t]
                            /\ rows[t].cert = Tls!NoCert \/ rows[t].cert.host = rows[t].host
                            /\ rows[t].enabled => /\ rows[t].key # 0 /\ rows[t].cert # Tls!NoCert
                                                  /\ rows[t].cert.key = rows[t].key /\ rows[t].cert.ends = Life
      /\ rows \in [Tenants -> TenantRow]
  <2>1. ASSUME NEW t \in Tenants
        PROVE  /\ rows[t] \in TenantRow /\ rows[t].active /\ rows[t].host = Home[t]
               /\ rows[t].cert = Tls!NoCert \/ rows[t].cert.host = rows[t].host
               /\ rows[t].enabled => /\ rows[t].key # 0 /\ rows[t].cert # Tls!NoCert
                                     /\ rows[t].cert.key = rows[t].key /\ rows[t].cert.ends = Life
    <3>1. PICK k \in {"plain", "ready", "acme"} : k = kind[t]
      BY <1>2
    <3>2. rows[t] = Tls!FirstRow(t, k)
      BY <1>1, <3>1
    <3>3. QED BY <3>2, FirstRowFacts
  <2>2. QED BY <1>1, <2>1
<1>4. \A t \in Tenants : /\ memory[t] \in TenantCopy /\ memory[t].there = rows[t].active
                         /\ memory[t].enabled = (rows[t].active /\ rows[t].enabled)
                         /\ rows[t].active => memory[t].cert = rows[t].cert
  <2> SUFFICES ASSUME NEW t \in Tenants
               PROVE  /\ memory[t] \in TenantCopy /\ memory[t].there = rows[t].active
                      /\ memory[t].enabled = (rows[t].active /\ rows[t].enabled)
                      /\ rows[t].active => memory[t].cert = rows[t].cert
    OBVIOUS
  <2>1. PICK row \in TenantRow : row = rows[t]
    BY <1>3
  <2>2. PICK copy : copy = Tls!Copy(row)
    OBVIOUS
  <2>3. memory[t] = copy
    BY <2>1, <2>2 DEF Tls!Init
  <2>4. copy \in TenantCopy /\ copy.there = row.active /\ copy.enabled = (row.active /\ row.enabled)
        /\ (row.active => copy.cert = row.cert)
    BY <2>2, CopyFacts
  <2>5. QED BY <2>1, <2>3, <2>4
<1>5. Apart
  BY <1>3, TlsAssumed DEF Apart
<1>6. Fresh(snimap, rows)
  <2>1. PICK rs \in [Tenants -> TenantRow] : rs = rows
    BY <1>3
  <2>2. PICK map : map = Tls!Initialized(rs)
    OBVIOUS
  <2>3. \A t, u \in Tenants : rs[t].host = rs[u].host => t = u
    BY <1>5, <2>1 DEF Apart
  <2>4. Fresh(map, rs)
    BY <2>2, <2>3, InitializedFacts
  <2>5. snimap = map
    BY <2>1, <2>2 DEF Tls!Init
  <2>6. QED BY <2>1, <2>4, <2>5
<1>7. /\ day = 0 /\ changes = 0 /\ job = Tls!NoRun /\ exposed = {} /\ left = {} /\ told = {}
       /\ order = Tls!NoConf /\ renamed = {}
       /\ since = [t \in Tenants |-> 0] /\ cut = FALSE
  BY DEF Tls!Init
<1>8. /\ job.state = "idle" /\ ~job.done
       /\ job \in [state : {"idle", "running", "asked", "renewed"}, at : Tenants, todo : SUBSET Tenants,
                   seen : SUBSET Tenants, conf : Tls!Conf, done : BOOLEAN]
  BY <1>7, Certs, TlsAssumed DEF Tls!NoRun
<1>9. Tls!TypeOK
  <2>1. memory \in [Tenants -> TenantCopy]
    BY <1>4 DEF Tls!Init
  <2>2. snimap \in Map
    BY <1>6 DEF Fresh
  <2>3. day \in 0 .. Days /\ changes \in 0 .. MaxChanges /\ since \in [Tenants -> 0 .. Days]
    BY <1>7, TlsAssumed
  <2>4. QED BY <1>3, <1>7, <1>8, <2>1, <2>2, <2>3, Certs DEF Tls!TypeOK, TenantRow, TenantCopy, Map
<1>10. Copied
  BY <1>4 DEF Copied
<1>11. Named
  BY <1>6, <1>7, <1>8 DEF Fresh, Named
<1>12. Loaded
  <2>1. ASSUME NEW t \in Tenants PROVE Usable(t) /\ Fits(t)
    <3>1. Usable(t)
      BY <1>3 DEF Usable, Tls!Valid, Tls!Stored
    <3>2. Fits(t)
      BY <1>3, <1>6, <1>7, <3>1, FreshFits DEF Usable
    <3>3. QED BY <3>1, <3>2
  <2>2. QED BY <1>8, <2>1 DEF Loaded, Tls!Renewing
<1>13. Warned
  <2>1. ~\E t \in Tenants : rows[t].enabled /\ day + Notice > rows[t].cert.ends + 1
    <3> SUFFICES ASSUME NEW t \in Tenants, rows[t].enabled PROVE ~(day + Notice > rows[t].cert.ends + 1)
      OBVIOUS
    <3>1. rows[t].cert.ends = Life
      BY <1>3
    <3>2. Notice <= Life
      BY UpkeepAssumption DEF Tls!CertificatesAssumption
    <3>3. QED BY <1>7, <3>1, <3>2, TlsAssumed
  <2>2. QED BY <1>8, <2>1 DEF Warned, Passed
<1>14. Pending /\ Meanwhile
  <2>1. order.tid \notin Tenants
    BY <1>7, Certs, TlsAssumed
  <2>2. QED BY <1>3, <1>8, <2>1 DEF Pending, Meanwhile
<1>15. QED BY <1>5, <1>9, <1>10, <1>11, <1>12, <1>13, <1>14 DEF TlsInv

LEMMA RestartStep ==
    ASSUME TlsInv, Tls!Restart
    PROVE  TlsInv'
<1>1. /\ changes < MaxChanges /\ changes' = changes + 1
      /\ memory' = [t \in Tenants |-> Tls!Copy(rows[t])]
      /\ exposed' = {t \in Tenants : rows[t].enabled /\ ~Tls!Valid(Tls!Stored(t, rows[t]), FALSE)}
      /\ left' = {} /\ job' = [Tls!NoRun EXCEPT !.done = TRUE] /\ cut' = (cut \/ ~job.done)
      /\ since' = [t \in Tenants |-> day] /\ told' = {} /\ order' = Tls!NoConf
      /\ UNCHANGED <<rows, day, renamed>>
  BY DEF Tls!Restart, Tls!Copy
<1>2. rows \in [Tenants -> TenantRow] /\ day \in 0 .. Days
  BY TlsTypes, TlsAssumed
<1>3. \A t \in Tenants : /\ memory'[t] \in TenantCopy /\ memory'[t].there = rows[t].active
                         /\ memory'[t].enabled = (rows[t].active /\ rows[t].enabled)
                         /\ rows[t].active => memory'[t].cert = rows[t].cert
  <2> SUFFICES ASSUME NEW t \in Tenants
               PROVE  /\ memory'[t] \in TenantCopy /\ memory'[t].there = rows[t].active
                      /\ memory'[t].enabled = (rows[t].active /\ rows[t].enabled)
                      /\ rows[t].active => memory'[t].cert = rows[t].cert
    OBVIOUS
  <2>1. PICK row \in TenantRow : row = rows[t]
    BY <1>2
  <2>2. PICK copy : copy = Tls!Copy(row)
    OBVIOUS
  <2>3. memory'[t] = copy
    BY <1>1, <2>1, <2>2
  <2>4. copy \in TenantCopy /\ copy.there = row.active /\ copy.enabled = (row.active /\ row.enabled)
        /\ (row.active => copy.cert = row.cert)
    BY <2>2, CopyFacts
  <2>5. QED BY <2>1, <2>3, <2>4
<1>4. Fresh(snimap, rows)'
  <2>1. PICK rs \in [Tenants -> TenantRow] : rs = rows
    BY <1>2
  <2>2. PICK map : map = Tls!Initialized(rs)
    OBVIOUS
  <2>3. \A t, u \in Tenants : rs[t].host = rs[u].host => t = u
    BY <2>1 DEF TlsInv, Apart
  <2>4. Fresh(map, rs)
    BY <2>2, <2>3, InitializedFacts
  <2>5. snimap' = map /\ rows' = rs
    BY <1>1, <2>1, <2>2 DEF Tls!Restart
  <2>6. QED BY <2>4, <2>5 DEF Fresh, Tls!Valid
<1>5. /\ job'.state = "idle" /\ job'.done
      /\ job' \in [state : {"idle", "running", "asked", "renewed"}, at : Tenants, todo : SUBSET Tenants,
                   seen : SUBSET Tenants, conf : Tls!Conf, done : BOOLEAN]
  BY <1>1, Certs, TlsAssumed DEF Tls!NoRun
<1>6. Tls!TypeOK'
  <2>1. memory' \in [Tenants -> TenantCopy]
    BY <1>1, <1>3
  <2>2. snimap' \in Map
    BY <1>4 DEF Fresh
  <2>3. changes' \in 0 .. MaxChanges
    BY <1>1, TlsAssumed DEF TlsInv, Tls!TypeOK
  <2>4. since' \in [Tenants -> 0 .. Days] /\ exposed' \subseteq Tenants /\ told' \subseteq Tenants /\ left' \subseteq Hosts
    BY <1>1, <1>2
  <2>5. cut' \in BOOLEAN /\ order' \in Tls!Conf /\ renamed' \subseteq Tenants
    BY <1>1, Certs, TlsTypes
  <2>6. QED BY <1>1, <1>2, <1>5, <2>1, <2>2, <2>3, <2>4, <2>5 DEF Tls!TypeOK, TenantRow, TenantCopy, Map
<1>7. Apart'
  BY <1>1 DEF TlsInv, Apart
<1>8. Copied'
  BY <1>1, <1>3 DEF Copied, Tls!NoCert
<1>9. Named'
  BY <1>1, <1>4, <1>5 DEF Fresh, Named
<1>10. Loaded'
  <2>1. ASSUME NEW t \in Tenants, Tls!Known(t)' PROVE Usable(t)' /\ Fits(t)'
    <3>1. rows[t].active /\ (rows[t].enabled => Tls!Valid(Tls!Stored(t, rows[t]), FALSE))
      BY <1>1, <2>1 DEF Tls!Known
    <3>2. Usable(t)'
      BY <1>1, <3>1 DEF Usable, Tls!Stored, Tls!Valid
    <3>3. CASE rows[t].enabled
      BY <1>1, <1>4, <3>1, <3>2, <3>3 DEF Fresh, Fits, Tls!Stored, Tls!Valid
    <3>4. CASE ~rows[t].enabled
      BY <1>1, <1>4, <3>1, <3>2, <3>4 DEF Fresh, Fits
    <3>5. QED BY <3>3, <3>4
  <2>2. QED BY <1>5, <2>1 DEF Loaded, Tls!Renewing
<1>11. Warned'
  <2>1. \A t \in Tenants : day + Notice > rows[t].cert.ends => WarnedOf(t)'
    BY <1>1, <1>2, TlsAssumed DEF WarnedOf
  <2>2. \A t \in Tenants : day + Notice > rows[t].cert.ends + 1 => day + Notice > rows[t].cert.ends
    <3> SUFFICES ASSUME NEW t \in Tenants PROVE day + Notice > rows[t].cert.ends + 1 => day + Notice > rows[t].cert.ends
      OBVIOUS
    <3>1. rows[t].cert.ends \in Nat
      BY <1>2, Certs DEF TenantRow
    <3>3. QED BY <1>2, <3>1, TlsAssumed
  <2>3. QED BY <1>1, <1>5, <2>1, <2>2 DEF Warned
<1>12. Pending' /\ Meanwhile'
  <2>1. job'.state # "asked"
    BY <1>5
  <2>2. order' \in {order, Tls!NoConf} /\ renamed \subseteq renamed'
        /\ \A t \in Tenants : rows'[t].host = rows[t].host /\ rows'[t].cert = rows[t].cert
    BY <1>1
  <2>3. Pending'
    BY <2>1, <2>2, PendingKept
  <2>4. QED BY <2>1, <2>3 DEF Meanwhile
<1>13. QED BY <1>6, <1>7, <1>8, <1>9, <1>10, <1>11, <1>12 DEF TlsInv

JobRun == [state : {"idle", "running", "asked", "renewed"}, at : Tenants, todo : SUBSET Tenants,
           seen : SUBSET Tenants, conf : Tls!Conf, done : BOOLEAN]

LEMMA AskedFacts ==
    ASSUME TlsInv, NEW t \in Tenants
    PROVE  /\ Tls!Asked(t) \in Tls!Conf /\ Tls!Asked(t).tid = t /\ Tls!Asked(t).host = rows[t].host
           /\ Tls!Asked(t).cert = memory[t].cert
<1>1. rows[t] \in TenantRow /\ memory[t] \in TenantCopy
  BY TlsTypes
<1>2. rows[t].host \in Hosts /\ rows[t].key \in Keys \cup {0} /\ memory[t].cert \in Tls!Cert
  BY <1>1 DEF TenantRow, TenantCopy
<1>3. QED BY <1>2 DEF Tls!Asked, Tls!Conf

\* The job goes on, and warns of some.
LEMMA JobStep ==
    ASSUME TlsInv, NEW j \in JobRun, job' = j, j.state # "renewed", job.state # "renewed",
           j.state = "asked" => j.conf = Tls!Asked(j.at),
           UNCHANGED <<rows, memory, snimap, exposed, since, day, changes, left, order, renamed>>,
           told \subseteq told', told' \subseteq Tenants, cut' \in BOOLEAN, cut => cut',
           j.done => j.state = "idle",
           ~cut' => \A t \in Tenants : Tls!Known(t) /\ rows[t].enabled /\ Passed(t)' =>
                      (day + Notice > rows[t].cert.ends => WarnedOf(t)')
    PROVE  TlsInv'
<1>1. Tls!TypeOK'
  BY DEF TlsInv, Tls!TypeOK, JobRun
<1>2. Apart' /\ Copied' /\ Named'
  BY DEF TlsInv, Apart, Copied, Named, Tls!NoCert
<1>3. \A t \in Tenants : Tls!Known(t)' => Tls!Known(t) /\ rows[t].active
  BY DEF Tls!Known, Tls!Renewing
<1>4. Loaded'
  <2>1. ASSUME NEW t \in Tenants, Tls!Known(t)' PROVE Usable(t)' /\ Fits(t)'
    <3>1. Usable(t) /\ Fits(t)
      BY <1>3, <2>1 DEF TlsInv, Loaded
    <3>2. Usable(t)'
      BY <3>1 DEF Usable, Tls!Stored, Tls!Valid
    <3>3. Fits(t)'
      BY <3>1 DEF Fits, Tls!Stored
    <3>4. QED BY <3>2, <3>3
  <2>2. QED BY <2>1 DEF Loaded, Tls!Renewing
<1>5. Pending'
  <2>1. j.at \in Tenants /\ (j.state = "asked" => j.conf.tid = j.at /\ j.conf.host = rows[j.at].host)
    BY AskedFacts DEF JobRun
  <2>2. QED BY <2>1 DEF TlsInv, Pending, Tls!NoCert
<1>6. Meanwhile'
  <2>1. j.at \in Tenants /\ (j.state = "asked" => j.conf.cert = memory[j.at].cert)
    BY AskedFacts DEF JobRun
  <2>2. QED BY <2>1 DEF Meanwhile
<1>7. Warned'
  <2>1. \A t \in Tenants : WarnedOf(t) => WarnedOf(t)'
    BY DEF WarnedOf
  <2>2. ASSUME NEW t \in Tenants, Tls!Known(t)', rows[t].enabled, ~cut'
        PROVE  /\ Passed(t)' /\ day + Notice > rows[t].cert.ends => WarnedOf(t)'
               /\ day + Notice > rows[t].cert.ends + 1 => WarnedOf(t)'
    <3>1. Passed(t)' /\ day + Notice > rows[t].cert.ends => WarnedOf(t)'
      BY <1>3, <2>2
    <3>2. day + Notice > rows[t].cert.ends + 1 => WarnedOf(t)
      BY <1>3, <2>2 DEF TlsInv, Warned
    <3>3. QED BY <2>1, <3>1, <3>2
  <2>3. QED BY <2>2 DEF Warned
<1>8. QED BY <1>1, <1>2, <1>4, <1>5, <1>6, <1>7 DEF TlsInv

LEMMA CopyAgrees ==
    ASSUME TlsInv, NEW t \in Tenants, rows[t].active
    PROVE  /\ memory[t].there /\ memory[t].enabled = rows[t].enabled
           /\ rows[t].enabled => memory[t].cert = rows[t].cert
<1>1. rows[t].enabled \in BOOLEAN
  BY TlsTypes DEF TenantRow
<1>2. QED BY <1>1 DEF TlsInv, Copied

LEMMA RunSteps ==
    ASSUME TlsInv, Tls!BeginRun \/ Tls!EndRun
    PROVE  TlsInv'
<1>1. PICK there \in SUBSET Tenants : there = {t \in Tenants : memory[t].there}
  OBVIOUS
<1>2. job \in JobRun /\ cut \in BOOLEAN /\ told \subseteq Tenants
  BY DEF TlsInv, Tls!TypeOK, JobRun
<1>3. CASE Tls!BeginRun
  <2>1. PICK j : j = [job EXCEPT !.state = "running", !.todo = there, !.seen = there]
    OBVIOUS
  <2>2. /\ job' = j /\ job.state = "idle" /\ ~job.done
        /\ UNCHANGED <<rows, memory, snimap, exposed, told, since, cut, day, changes, left, order, renamed>>
    BY <1>1, <1>3, <2>1 DEF Tls!BeginRun, Tls!JobKeeps, Tls!There
  <2>3. j \in JobRun /\ j.state = "running" /\ j.todo = there /\ j.done = job.done
    BY <1>2, <2>1 DEF JobRun
  <2>4. \A t \in Tenants : Tls!Known(t) => ~Passed(t)'
    BY <1>1, <2>2, <2>3, CopyAgrees DEF Passed, Tls!Known
  <2>5. QED BY <1>2, <2>2, <2>3, <2>4, JobStep
<1>4. CASE Tls!EndRun
  <2>1. PICK j : j = [Tls!NoRun EXCEPT !.done = TRUE]
    OBVIOUS
  <2>2. /\ job' = j /\ job.state = "running" /\ (job.todo = {} \/ there # job.seen)
        /\ cut' = (cut \/ there # job.seen)
        /\ UNCHANGED <<rows, memory, snimap, exposed, told, since, day, changes, left, order, renamed>>
    BY <1>1, <1>4, <2>1 DEF Tls!EndRun, Tls!Ends, Tls!JobKeeps, Tls!There
  <2>3. j \in JobRun /\ j.state = "idle" /\ j.done
    BY <2>1, Certs, TlsAssumed DEF JobRun, Tls!NoRun
  <2>4. ASSUME ~cut', NEW t \in Tenants, Tls!Known(t), rows[t].enabled, day + Notice > rows[t].cert.ends
        PROVE  WarnedOf(t)'
    <3>1. ~cut /\ job.todo = {}
      BY <2>2, <2>4
    <3>2. Passed(t)
      BY <2>2, <3>1 DEF Passed
    <3>3. WarnedOf(t)
      BY <2>4, <3>1, <3>2 DEF TlsInv, Warned
    <3>4. QED BY <2>2, <3>3 DEF WarnedOf
  <2>5. QED BY <1>2, <2>2, <2>3, <2>4, JobStep
<1>5. QED BY <1>3, <1>4

LEMMA LookSteps ==
    ASSUME TlsInv, NEW t \in job.todo, job.state = "running", Tls!JobKeeps,
           Tls!Unreadable(t) \/ Tls!Notify(t) \/ Tls!Ask(t)
    PROVE  TlsInv'
<1>1. job \in JobRun /\ cut \in BOOLEAN /\ told \subseteq Tenants /\ t \in Tenants
  BY DEF TlsInv, Tls!TypeOK, JobRun
<1>2. UNCHANGED <<rows, memory, snimap, exposed, since, day, changes, left, order, renamed>>
  BY DEF Tls!JobKeeps, Tls!Unreadable, Tls!Notify, Tls!Ask
<1>3. CASE Tls!Unreadable(t)
  <2>1. PICK j : j = [Tls!NoRun EXCEPT !.done = TRUE]
    OBVIOUS
  <2>2. job' = j /\ cut' = TRUE /\ told' = told
    BY <1>3, <2>1 DEF Tls!Unreadable, Tls!Ends
  <2>3. j \in JobRun /\ j.state = "idle" /\ j.done
    BY <2>1, Certs, TlsAssumed DEF JobRun, Tls!NoRun
  <2>4. QED BY <1>1, <1>2, <2>2, <2>3, JobStep
<1>4. CASE Tls!Notify(t)
  <2>1. PICK j : j = [job EXCEPT !.todo = @ \ {t}]
    OBVIOUS
  <2>2. job' = j /\ cut' = cut
    BY <1>4, <2>1 DEF Tls!Notify
  <2>3. j \in JobRun /\ j.state = "running" /\ j.todo = job.todo \ {t} /\ j.done = job.done
    BY <1>1, <2>1 DEF JobRun
  <2>4. ~job.done
    BY DEF TlsInv, Warned
  <2>5. told' = told \/ told' = told \cup {t}
    BY <1>4 DEF Tls!Notify
  <2>6. ASSUME ~cut, NEW u \in Tenants, Tls!Known(u), rows[u].enabled, Passed(u)', day + Notice > rows[u].cert.ends
        PROVE  WarnedOf(u)'
    <3>1. CASE u = t
      <4>1. memory[t].enabled /\ memory[t].cert = rows[t].cert
        BY <1>1, <2>6, <3>1, CopyAgrees DEF Tls!Known
      <4>2. Tls!DueForNotice(memory[t].cert)
        BY <2>6, <3>1, <4>1 DEF Tls!DueForNotice
      <4>3. t \in told'
        BY <1>4, <4>1, <4>2 DEF Tls!Notify
      <4>4. QED BY <3>1, <4>3 DEF WarnedOf
    <3>2. CASE u # t
      <4>1. Passed(u)
        BY <2>2, <2>3, <2>6, <3>2 DEF Passed
      <4>2. WarnedOf(u)
        BY <2>6, <4>1 DEF TlsInv, Warned
      <4>3. QED BY <1>2, <2>5, <4>2 DEF WarnedOf
    <3>3. QED BY <3>1, <3>2
  <2>7. told \subseteq told' /\ told' \subseteq Tenants
    BY <1>1, <2>5
  <2>8. QED BY <1>1, <1>2, <2>2, <2>3, <2>4, <2>6, <2>7, JobStep
<1>5. CASE Tls!Ask(t)
  <2>1. PICK conf \in Tls!Conf : conf = Tls!Asked(t)
    BY <1>1, AskedFacts
  <2>2. PICK j : j = [job EXCEPT !.state = "asked", !.at = t, !.conf = conf]
    OBVIOUS
  <2>3. job' = j /\ cut' = cut /\ told' = told
    BY <1>5, <2>1, <2>2 DEF Tls!Ask
  <2>4. /\ j \in JobRun /\ j.state = "asked" /\ j.at = t /\ j.conf = conf
        /\ j.todo = job.todo /\ j.done = job.done
    BY <1>1, <2>2 DEF JobRun
  <2>5. ~job.done
    BY DEF TlsInv, Warned
  <2>6. ASSUME ~cut, NEW u \in Tenants, Tls!Known(u), rows[u].enabled, Passed(u)', day + Notice > rows[u].cert.ends
        PROVE  WarnedOf(u)'
    <3>1. Passed(u)
      BY <2>3, <2>4, <2>6 DEF Passed
    <3>2. WarnedOf(u)
      BY <2>6, <3>1 DEF TlsInv, Warned
    <3>3. QED BY <1>2, <2>3, <3>2 DEF WarnedOf
  <2>7. QED BY <1>1, <1>2, <2>1, <2>3, <2>4, <2>5, <2>6, JobStep
<1>6. QED BY <1>3, <1>4, <1>5

\* The exchange fails: whoever holds another certificate by now was served with it today.
LEMMA NotRenewedStep ==
    ASSUME TlsInv, NEW t \in Tenants, Tls!NotRenewed(t)
    PROVE  TlsInv'
<1>1. job \in JobRun /\ cut \in BOOLEAN /\ told \subseteq Tenants /\ since \in [Tenants -> 0 .. Days]
  BY DEF TlsInv, Tls!TypeOK, JobRun
<1>2. PICK j : j = [job EXCEPT !.state = "running", !.todo = @ \ {t}, !.conf = Tls!NoConf]
  OBVIOUS
<1>3. /\ job' = j /\ job.state = "asked" /\ t = job.at
      /\ told' = IF Tls!DueForNotice(job.conf.cert) /\ memory[t].cert = job.conf.cert THEN told \cup {t} ELSE told
      /\ UNCHANGED <<rows, memory, snimap, exposed, since, cut, day, changes, left, order, renamed>>
  BY <1>2 DEF Tls!NotRenewed, Tls!JobKeeps
<1>4. j \in JobRun /\ j.state = "running" /\ j.todo = job.todo \ {t} /\ j.done = job.done
  BY <1>1, <1>2, Certs DEF JobRun
<1>5. ~job.done
  BY <1>3 DEF TlsInv, Warned
<1>6. ASSUME ~cut, NEW u \in Tenants, Tls!Known(u), rows[u].enabled, Passed(u)', day + Notice > rows[u].cert.ends
      PROVE  WarnedOf(u)'
  <2>1. CASE u = t /\ memory[t].cert = job.conf.cert
    <3>1. memory[t].cert = rows[t].cert
      BY <1>6, <2>1, CopyAgrees DEF Tls!Known
    <3>2. Tls!DueForNotice(job.conf.cert)
      BY <1>6, <2>1, <3>1 DEF Tls!DueForNotice
    <3>3. t \in told'
      BY <1>3, <2>1, <3>2
    <3>4. QED BY <2>1, <3>3 DEF WarnedOf
  <2>2. CASE u = t /\ memory[t].cert # job.conf.cert
    <3>1. since[t] = day
      BY <1>3, <1>6, <2>2 DEF TlsInv, Meanwhile
    <3>2. QED BY <1>3, <1>6, <2>2, <3>1 DEF WarnedOf
  <2>3. CASE u # t
    <3>1. Passed(u)
      BY <1>3, <1>4, <1>6, <2>3 DEF Passed
    <3>2. WarnedOf(u)
      BY <1>6, <3>1 DEF TlsInv, Warned
    <3>3. QED BY <1>3, <3>2 DEF WarnedOf
  <2>4. QED BY <2>1, <2>2, <2>3
<1>7. told \subseteq told' /\ told' \subseteq Tenants
  BY <1>1, <1>3
<1>8. QED BY <1>1, <1>3, <1>4, <1>5, <1>6, <1>7, JobStep

\* An administrator asks, or is answered with a failure.
LEMMA AcmeSteps ==
    ASSUME TlsInv, Tls!AcmeFailed \/ \E t \in Tenants : Tls!Acme(t)
    PROVE  TlsInv'
<1>1. UNCHANGED <<rows, memory, snimap, day, job, exposed, left, renamed, told, since, cut>>
  BY DEF Tls!Acme, Tls!AcmeFailed
<1>2. /\ order' \in Tls!Conf /\ changes' \in 0 .. MaxChanges
      /\ order' = Tls!NoConf \/ \E t \in Tenants : order'.tid = t /\ order'.host = rows[t].host
  <2>1. CASE Tls!AcmeFailed
    BY <2>1, Certs DEF Tls!AcmeFailed, TlsInv, Tls!TypeOK
  <2>2. ASSUME NEW t \in Tenants, Tls!Acme(t)
        PROVE  order' \in Tls!Conf /\ changes' \in 0 .. MaxChanges /\ order'.tid = t /\ order'.host = rows[t].host
    BY <2>2, AskedFacts, TlsAssumed DEF Tls!Acme, TlsInv, Tls!TypeOK
  <2>3. QED BY <2>1, <2>2
<1>3. Tls!TypeOK'
  BY <1>1, <1>2 DEF TlsInv, Tls!TypeOK
<1>4. Apart' /\ Copied' /\ Named'
  BY <1>1 DEF TlsInv, Apart, Copied, Named, Tls!NoCert, Tls!NoConf
<1>5. Loaded'
  BY <1>1 DEF TlsInv, Loaded, Usable, Fits, Tls!Known, Tls!Renewing, Tls!Stored, Tls!Valid, Tls!Config,
              Tls!SelfSigned, Tls!NoConf, Tls!NoCert
<1>6. Pending'
  <2>1. \A t \in Tenants : order'.tid = t => order'.host = rows[t].host
    BY <1>2, Certs, TlsAssumed
  <2>2. QED BY <1>1, <2>1 DEF TlsInv, Pending, Tls!NoCert
<1>7. Meanwhile' /\ Warned'
  BY <1>1 DEF TlsInv, Meanwhile, Warned, WarnedOf, Passed, Tls!Known, Tls!Renewing
<1>8. QED BY <1>3, <1>4, <1>5, <1>6, <1>7 DEF TlsInv

LEMMA RenewStep ==
    ASSUME TlsInv, NEW t \in Tenants, Tls!Renew(t)
    PROVE  TlsInv'
<1>1. job \in JobRun /\ rows \in [Tenants -> TenantRow] /\ memory \in [Tenants -> TenantCopy]
  BY TlsTypes DEF TlsInv, Tls!TypeOK, JobRun
<1>2. PICK old \in TenantRow : old = rows[t]
  BY <1>1
<1>3. PICK seen \in TenantCopy : seen = memory[t]
  BY <1>1
<1>4. PICK asked \in Tls!Conf : asked = job.conf
  BY TlsTypes
<1>5. /\ job.state = "asked" /\ asked.tid = t /\ asked.key # 0 /\ seen.there
      /\ t = job.at /\ (t \in renamed \/ asked.host = old.host)
  BY <1>2, <1>3, <1>4 DEF Tls!Renew, Tls!Obtains, TlsInv, Pending
<1>6. PICK cert \in Tls!Cert : cert = Tls!Issued(asked) /\ cert.key = asked.key /\ cert.host = asked.host
  BY IssuedFacts
<1>7. PICK row : row = [old EXCEPT !.acme = TRUE, !.cert = cert]
  OBVIOUS
<1>8. PICK copy : copy = [seen EXCEPT !.cert = cert]
  OBVIOUS
<1>9. PICK conf : conf = Tls!Config(t, row)
  OBVIOUS
<1>10. PICK j : j = [job EXCEPT !.state = "renewed", !.todo = @ \ {t}, !.conf = conf]
  OBVIOUS
<1>11. row = Tls!Renewed(t, job.conf)
  BY <1>2, <1>4, <1>6, <1>7 DEF Tls!Renewed
<1>12. /\ rows' = [rows EXCEPT ![t] = row] /\ job' = j
       /\ exposed' = IF old.key # asked.key THEN exposed \cup {t} ELSE exposed
       /\ UNCHANGED <<snimap, told, since, cut, day, changes, left, order, renamed>>
  BY <1>2, <1>4, <1>9, <1>10, <1>11 DEF Tls!Renew, Tls!JobKeeps
<1>13. memory' = [memory EXCEPT ![t] = copy]
  BY <1>1, <1>3, <1>4, <1>6, <1>8 DEF Tls!Renew, Tls!Obtains
<1>14. /\ row \in TenantRow /\ row.active = old.active /\ row.enabled = old.enabled /\ row.host = old.host
       /\ row.cert = cert /\ row.key = old.key
  BY <1>7 DEF TenantRow
<1>15. copy \in TenantCopy /\ copy.there = seen.there /\ copy.enabled = seen.enabled /\ copy.cert = cert
  BY <1>8 DEF TenantCopy
<1>16. old.active /\ seen.there = old.active /\ seen.enabled = (old.active /\ old.enabled)
  BY <1>1, <1>2, <1>3, <1>5 DEF TlsInv, Copied
<1>17. PICK stored : stored = Tls!Stored(t, row)
  OBVIOUS
<1>18. /\ stored \in Tls!Conf /\ stored.tid = t /\ stored.host = old.host /\ stored.key = old.key /\ stored.cert = cert
  BY <1>14, <1>17, StoredFacts
<1>19. /\ conf \in Tls!Conf
       /\ conf # Tls!NoConf => conf.tid = t /\ conf.host \in {old.host, Local}
  BY <1>9, <1>17, <1>18, Certs DEF Tls!Config
<1>20. old.key = asked.key => Tls!Valid(stored, FALSE)
  BY <1>5, <1>6, <1>18 DEF Tls!Valid, Tls!NoCert
<1>21. /\ j \in JobRun /\ j.state = "renewed" /\ j.at = t /\ j.conf = conf /\ j.todo = job.todo \ {t} /\ j.done = job.done
  BY <1>1, <1>5, <1>10, <1>19 DEF JobRun
<1>22. /\ rows'[t] = row /\ \A u \in Tenants \ {t} : rows'[u] = rows[u]
       /\ memory'[t] = copy /\ \A u \in Tenants \ {t} : memory'[u] = memory[u]
       /\ rows' \in [Tenants -> TenantRow] /\ memory' \in [Tenants -> TenantCopy]
  BY <1>1, <1>12, <1>13, <1>14, <1>15
<1>23. Tls!TypeOK'
  <2>1. exposed' \subseteq Tenants
    BY <1>12, TlsTypes
  <2>2. QED BY <1>12, <1>21, <1>22, <2>1 DEF TlsInv, Tls!TypeOK, TenantRow, TenantCopy, Map, JobRun
<1>24. \A u \in Tenants : rows'[u].host = rows[u].host
  BY <1>2, <1>14, <1>22
<1>25. Apart'
  BY <1>24 DEF TlsInv, Apart
<1>26. Copied'
  <2>1. /\ copy.there = row.active /\ copy.enabled = (row.active /\ row.enabled) /\ copy.cert = row.cert
    BY <1>14, <1>15, <1>16
  <2>2. QED BY <1>22, <2>1 DEF TlsInv, Copied, Tls!NoCert
<1>27. Named'
  <2>1. \A u \in Tenants : snimap.configs[u].host \in Hosts \ left => snimap.configs[u].host = rows'[u].host
    BY <1>24 DEF TlsInv, Named
  <2>2. \A u \in Tenants, h \in Hosts \ left : snimap.contexts[h].tid = u => snimap.configs[u].host = h
    BY DEF TlsInv, Named
  <2>3. j.conf # Tls!NoConf => j.conf.tid = j.at /\ j.conf.host \in {rows'[j.at].host, Local}
    BY <1>14, <1>19, <1>21, <1>22
  <2>4. QED BY <1>12, <2>1, <2>2, <2>3 DEF Named, Tls!NoConf, Tls!NoCert
<1>28. \A u \in Tenants : Tls!Known(u)' => Tls!Known(u) /\ u # t
  BY <1>5, <1>12, <1>21, <1>22 DEF Tls!Known, Tls!Renewing
<1>29. Loaded'
  <2>1. ASSUME NEW u \in Tenants, Tls!Known(u)' PROVE Usable(u)' /\ Fits(u)'
    <3>1. Usable(u) /\ Fits(u) /\ rows'[u] = rows[u]
      BY <1>22, <1>28, <2>1 DEF TlsInv, Loaded
    <3>2. Usable(u)'
      BY <1>12, <3>1 DEF Usable, Tls!Stored, Tls!Valid
    <3>3. Fits(u)'
      BY <1>12, <3>1 DEF Fits, Tls!Stored
    <3>4. QED BY <3>2, <3>3
  <2>2. \A u \in Tenants : Tls!Renewing(u)' /\ u \notin exposed' => u = t /\ old.key = asked.key
    BY <1>12, <1>21 DEF Tls!Renewing
  <2>3. rows'[t].active /\ j.conf = Tls!Config(t, rows'[t])
    BY <1>9, <1>14, <1>16, <1>21, <1>22
  <2>4. old.key = asked.key => Usable(t)'
    BY <1>12, <1>17, <1>20, <1>22 DEF Usable, Tls!Stored, Tls!Valid
  <2>5. QED BY <1>12, <2>1, <2>2, <2>3, <2>4 DEF Loaded, Tls!Config, Tls!Stored, Tls!SelfSigned, Tls!NoConf, Tls!NoCert
<1>30. Pending'
  <2>1. ASSUME NEW u \in Tenants \ renamed'
        PROVE  /\ rows'[u].host = rows[u].host
               /\ rows'[u].cert \in {rows[u].cert, Tls!NoCert} \/ rows'[u].cert.host = rows'[u].host
    BY <1>2, <1>5, <1>6, <1>12, <1>14, <1>22
  <2>2. job'.state # "asked" /\ order' \in {order, Tls!NoConf} /\ renamed \subseteq renamed'
    BY <1>12, <1>21
  <2>3. QED BY <2>1, <2>2, PendingKept
<1>31. Meanwhile'
  BY <1>12, <1>21 DEF Meanwhile
<1>32. Warned'
  <2>1. ~job.done
    BY <1>5 DEF TlsInv, Warned
  <2>2. \A u \in Tenants : Tls!Known(u)' => rows'[u] = rows[u] /\ (Passed(u)' => Passed(u)) /\ WarnedOf(u)' = WarnedOf(u)
    BY <1>5, <1>12, <1>21, <1>22, <1>28 DEF Passed, WarnedOf
  <2>3. QED BY <1>12, <1>21, <1>28, <2>1, <2>2 DEF TlsInv, Warned
<1>33. QED BY <1>23, <1>25, <1>26, <1>27, <1>29, <1>30, <1>31, <1>32 DEF TlsInv

LEMMA ReloadStep ==
    ASSUME TlsInv, Tls!Reload
    PROVE  TlsInv'
<1>1. PICK t \in Tenants : t = job.at
  BY TlsTypes
<1>2. PICK conf \in Tls!Conf : conf = job.conf
  BY TlsTypes
<1>3. PICK bare : bare = Tls!Unload(snimap, t)
  OBVIOUS
<1>4. PICK map : map = Tls!Load(bare, t, conf)
  OBVIOUS
<1>5. PICK j : j = [job EXCEPT !.state = "running", !.conf = Tls!NoConf]
  OBVIOUS
<1>6. /\ job.state = "renewed" /\ snimap' = map /\ job' = j
      /\ told' = told \ {t} /\ since' = [since EXCEPT ![t] = day]
      /\ UNCHANGED <<rows, memory, exposed, cut, day, changes, left, order, renamed>>
  BY <1>1, <1>2, <1>3, <1>4, <1>5 DEF Tls!Reload, Tls!Reloaded, Tls!JobKeeps
<1>7. conf # Tls!NoConf => conf.tid = t /\ conf.host \in left \cup {rows[t].host, Local}
  BY <1>1, <1>2, <1>6 DEF TlsInv, Named
<1>8. Moved(bare, t) /\ Absent(bare, t)
  BY <1>3, UnloadMoved
<1>9. /\ conf # Tls!NoConf => Put(bare, map, t, conf)
      /\ conf = Tls!NoConf => map = bare
  <2>1. CASE conf # Tls!NoConf
    BY <1>4, <1>7, <1>8, <2>1, LoadMoved
  <2>2. CASE conf = Tls!NoConf
    BY <1>4, <2>2, Certs DEF Tls!Load
  <2>3. QED BY <2>1, <2>2
<1>10. Moved(snimap', t)
  BY <1>6, <1>8, <1>9 DEF Put
<1>11. /\ job \in JobRun /\ since \in [Tenants -> 0 .. Days] /\ day \in 0 .. Days
  BY TlsTypes DEF TlsInv, Tls!TypeOK, JobRun
<1>12. /\ j \in JobRun /\ j.state = "running" /\ j.todo = job.todo /\ j.done = job.done
  BY <1>5, <1>11, Certs DEF JobRun
<1>13. /\ since'[t] = day /\ \A u \in Tenants \ {t} : since'[u] = since[u]
       /\ since' \in [Tenants -> 0 .. Days]
  BY <1>6, <1>11
<1>14. Tls!TypeOK'
  <2>1. told' \subseteq Tenants
    BY <1>6 DEF TlsInv, Tls!TypeOK
  <2>2. snimap' \in Map
    BY <1>10 DEF Moved
  <2>3. QED BY <1>6, <1>12, <1>13, <2>1, <2>2 DEF TlsInv, Tls!TypeOK, Map, JobRun
<1>15. Apart' /\ Copied'
  BY <1>6 DEF TlsInv, Apart, Copied, Tls!NoCert
<1>16. Named'
  <2>1. /\ \A u \in Tenants : snimap'.configs[u].host \in Hosts \ left => snimap'.configs[u].host = rows'[u].host
        /\ \A u \in Tenants, h \in Hosts \ left : snimap'.contexts[h].tid = u => snimap'.configs[u].host = h
    BY <1>6, <1>10, MovedNamed
  <2>2. QED BY <1>6, <1>12, <2>1 DEF Named
<1>17. \A u \in Tenants : Tls!Known(u)' => rows[u].active /\ u \notin exposed /\ (u # t => Tls!Known(u))
  BY <1>1, <1>6 DEF Tls!Known, Tls!Renewing
<1>18. Loaded'
  <2>1. ASSUME Tls!Known(t)' PROVE Usable(t)' /\ Fits(t)'
    <3>1. Usable(t) /\ conf = Tls!Config(t, rows[t])
      BY <1>1, <1>2, <1>6, <1>17, <2>1 DEF TlsInv, Loaded, Tls!Renewing
    <3>2. Usable(t)'
      BY <1>6, <3>1 DEF Usable, Tls!Stored, Tls!Valid
    <3>3. CASE rows[t].enabled
      <4>1. conf = Tls!Stored(t, rows[t]) /\ Tls!Valid(conf, FALSE)
        BY <3>1, <3>3 DEF Tls!Config, Usable
      <4>2. conf # Tls!NoConf
        BY <4>1, Certs
      <4>3. map.contexts[conf.host] = conf /\ (t = Root => map.default = conf)
        BY <1>9, <4>1, <4>2 DEF Put
      <4>4. conf.host = rows[t].host
        BY <4>1 DEF Tls!Stored
      <4>5. Fits(t)'
        BY <1>6, <3>3, <4>1, <4>3, <4>4 DEF Fits, Tls!Stored
      <4>6. QED BY <3>2, <4>5
    <3>4. CASE ~rows[t].enabled
      <4>1. conf = Tls!NoConf \/ conf = Tls!SelfSigned
        BY <3>1, <3>4 DEF Tls!Config
      <4>2. conf # Tls!NoConf => conf.host = Local
        BY <4>1, Certs
      <4>3. Absent(map, t)
        BY <1>8, <1>9, <4>2 DEF Put
      <4>4. Fits(t)'
        BY <1>6, <3>4, <4>3 DEF Fits, Absent
      <4>5. QED BY <3>2, <4>4
    <3>5. QED BY <3>3, <3>4
  <2>2. ASSUME NEW u \in Tenants, u # t, Tls!Known(u)' PROVE Usable(u)' /\ Fits(u)'
    <3>1. Usable(u) /\ Fits(u)
      BY <1>17, <2>2 DEF TlsInv, Loaded
    <3>2. Usable(u)'
      BY <1>6, <3>1 DEF Usable, Tls!Stored, Tls!Valid
    <3>3. Fits(u)'
      BY <1>6, <1>10, <2>2, <3>1, OthersFit
    <3>4. QED BY <3>2, <3>3
  <2>3. QED BY <1>6, <1>12, <2>1, <2>2 DEF Loaded, Tls!Renewing
<1>19. Pending' /\ Meanwhile'
  <2>1. job'.state # "asked" /\ order' \in {order, Tls!NoConf} /\ renamed \subseteq renamed'
        /\ \A u \in Tenants : rows'[u].host = rows[u].host /\ rows'[u].cert = rows[u].cert
    BY <1>6, <1>12
  <2>2. Pending'
    BY <2>1, PendingKept
  <2>3. QED BY <2>1, <2>2 DEF Meanwhile
<1>20. Warned'
  <2>1. ASSUME NEW u \in Tenants, Tls!Known(u)', rows[u].enabled, ~cut
        PROVE  /\ Passed(u)' /\ day + Notice > rows[u].cert.ends => WarnedOf(u)'
               /\ day + Notice > rows[u].cert.ends + 1 => WarnedOf(u)'
    <3>1. CASE u = t
      <4>1. rows[t].cert.ends \in Nat
        BY TlsTypes, Certs DEF TenantRow
      <4>2. QED BY <1>6, <1>11, <1>13, <3>1, <4>1, TlsAssumed DEF WarnedOf
    <3>2. CASE u # t
      <4>1. Tls!Known(u) /\ (Passed(u)' => Passed(u)) /\ (WarnedOf(u) => WarnedOf(u)')
        BY <1>6, <1>12, <1>13, <1>17, <2>1, <3>2 DEF Passed, WarnedOf
      <4>2. QED BY <2>1, <4>1 DEF TlsInv, Warned
    <3>3. QED BY <3>1, <3>2
  <2>2. j.done => j.state = "idle"
    BY <1>6, <1>12 DEF TlsInv, Warned
  <2>3. QED BY <1>6, <2>1, <2>2 DEF Warned
<1>21. QED BY <1>14, <1>15, <1>16, <1>18, <1>19, <1>20 DEF TlsInv

LEMMA NextDayStep ==
    ASSUME TlsInv, Tls!NextDay
    PROVE  TlsInv'
<1>1. /\ day < Days /\ day' = day + 1 /\ job.state = "idle" /\ job.done /\ job' = Tls!NoRun
      /\ UNCHANGED <<rows, memory, snimap, order, changes, exposed, left, renamed, told, since, cut>>
  BY DEF Tls!NextDay
<1>2. job' \in JobRun /\ job'.state = "idle" /\ ~job'.done
  BY <1>1, Certs, TlsAssumed DEF Tls!NoRun, JobRun
<1>3. Tls!TypeOK'
  <2>1. day' \in 0 .. Days
    BY <1>1, TlsTypes, TlsAssumed
  <2>2. QED BY <1>1, <1>2, <2>1 DEF TlsInv, Tls!TypeOK, JobRun
<1>4. Apart' /\ Copied'
  BY <1>1 DEF TlsInv, Apart, Copied, Tls!NoCert
<1>5. Named'
  BY <1>1, <1>2 DEF TlsInv, Named
<1>6. \A u \in Tenants : Tls!Known(u)' => Tls!Known(u)
  BY <1>1 DEF Tls!Known, Tls!Renewing
<1>7. Loaded'
  <2>1. ASSUME NEW u \in Tenants, Tls!Known(u)' PROVE Usable(u)' /\ Fits(u)'
    <3>1. Usable(u) /\ Fits(u)
      BY <1>6, <2>1 DEF TlsInv, Loaded
    <3>2. Usable(u)'
      BY <1>1, <3>1 DEF Usable, Tls!Stored, Tls!Valid
    <3>3. Fits(u)'
      BY <1>1, <3>1 DEF Fits, Tls!Stored
    <3>4. QED BY <3>2, <3>3
  <2>2. QED BY <1>2, <2>1 DEF Loaded, Tls!Renewing
<1>8. Warned'
  <2>1. ASSUME NEW u \in Tenants, Tls!Known(u), rows[u].enabled, ~cut, day' + Notice > rows[u].cert.ends + 1
        PROVE  WarnedOf(u)
    <3>1. rows[u].cert.ends \in Nat
      BY TlsTypes, Certs DEF TenantRow
    <3>2. day + Notice > rows[u].cert.ends
      BY <1>1, <2>1, <3>1, TlsTypes, TlsAssumed
    <3>3. Passed(u)
      BY <1>1 DEF Passed
    <3>4. QED BY <2>1, <3>2, <3>3 DEF TlsInv, Warned
  <2>2. QED BY <1>1, <1>2, <1>6, <2>1 DEF Warned, WarnedOf, Passed
<1>9. Pending' /\ Meanwhile'
  <2>1. job'.state # "asked" /\ order' \in {order, Tls!NoConf} /\ renamed \subseteq renamed'
        /\ \A u \in Tenants : rows'[u].host = rows[u].host /\ rows'[u].cert = rows[u].cert
    BY <1>1, <1>2
  <2>2. Pending'
    BY <2>1, PendingKept
  <2>3. QED BY <2>1, <2>2 DEF Meanwhile
<1>10. QED BY <1>3, <1>4, <1>5, <1>7, <1>8, <1>9 DEF TlsInv

LEMMA TlsStep ==
    ASSUME TlsInv, [Tls!Next]_tls
    PROVE  TlsInv'
<1>1. CASE UNCHANGED tls
  <2>1. Tls!TypeOK' /\ Apart' /\ Copied' /\ Named'
    BY <1>1 DEF tls, TlsInv, Tls!TypeOK, Apart, Copied, Named, Tls!NoCert, Tls!NoConf
  <2>2. Loaded'
    BY <1>1 DEF tls, TlsInv, Loaded, Usable, Fits, Tls!Known, Tls!Renewing, Tls!Stored, Tls!Valid, Tls!Config,
                Tls!SelfSigned, Tls!NoConf, Tls!NoCert
  <2>3. Warned' /\ Pending' /\ Meanwhile'
    BY <1>1 DEF tls, TlsInv, Warned, WarnedOf, Passed, Pending, Meanwhile, Tls!Known, Tls!Renewing, Tls!NoCert
  <2>4. QED BY <2>1, <2>2, <2>3 DEF TlsInv
<1>2. ASSUME NEW t \in Tenants,
             \/ Tls!LoadKey(t) \/ Tls!LoadCert(t) \/ Tls!DeleteKey(t) \/ Tls!DeleteCert(t) \/ Tls!AcmeStored(t)
             \/ Tls!Enable(t) \/ Tls!Disable(t) \/ Tls!Reset(t) \/ Tls!Rename(t) \/ Tls!Activate(t)
             \/ Tls!NotRenewed(t) \/ Tls!Renew(t)
      PROVE  TlsInv'
  BY <1>2, FilesSteps, EnableStep, DisableStep, ResetStep, RenameStep, ActivateStep, NotRenewedStep, RenewStep
<1>3. CASE Tls!Look
  BY <1>3, LookSteps DEF Tls!Look
<1>4. CASE Tls!AcmeFailed \/ \E t \in Tenants : Tls!Acme(t)
  BY <1>4, AcmeSteps
<1>5. QED BY <1>1, <1>2, <1>3, <1>4, RestartStep, RunSteps, ReloadStep, NextDayStep DEF Tls!Next

LEMMA TlsServed ==
    ASSUME TlsInv
    PROVE  Tls!ServedAsConfigured /\ Tls!NeverEndsUnannounced
<1>1. Tls!ServedAsConfigured
  <2>1. \A t \in Tenants : memory[t].enabled = (rows[t].active /\ rows[t].enabled)
    BY DEF TlsInv, Copied
  <2>2. ASSUME NEW t \in Tenants, Tls!Known(t), rows[t].enabled
        PROVE  /\ rows[t].host \notin left => Tls!Served(t) = Tls!Stored(t, rows[t]) /\ Tls!Valid(Tls!Served(t), FALSE)
               /\ rows[t].host \notin left /\ t \notin renamed => Tls!Served(t).cert.host = rows[t].host
               /\ t = Root => snimap.default = Tls!Stored(t, rows[t])
    <3>1. Usable(t) /\ Fits(t)
      BY <2>2 DEF TlsInv, Loaded
    <3>2. /\ rows[t].host \notin left => Tls!Served(t) = Tls!Stored(t, rows[t])
          /\ t = Root => snimap.default = Tls!Stored(t, rows[t])
      BY <2>2, <3>1 DEF Fits, Tls!Served
    <3>3. Tls!Valid(Tls!Stored(t, rows[t]), FALSE)
      BY <2>2, <3>1 DEF Usable
    <3>4. PICK row \in TenantRow : row = rows[t]
      BY TlsTypes
    <3>5. PICK conf : conf = Tls!Stored(t, row)
      OBVIOUS
    <3>6. conf.cert = row.cert /\ conf # Tls!SelfSigned
      BY <3>5, StoredFacts
    <3>7. row.cert # Tls!NoCert
      BY <3>3, <3>4, <3>5, <3>6 DEF Tls!Valid
    <3>8. t \notin renamed => conf.cert.host = rows[t].host
      BY <3>4, <3>6, <3>7 DEF TlsInv, Pending
    <3>9. QED BY <3>2, <3>3, <3>4, <3>5, <3>8
  <2>3. \A t \in Tenants : Tls!Known(t) /\ ~rows[t].enabled => \A h \in Hosts \ left : snimap.contexts[h].tid # t
    BY DEF TlsInv, Loaded, Fits
  <2>4. QED BY <2>1, <2>2, <2>3 DEF Tls!ServedAsConfigured
<1>2. Tls!NeverEndsUnannounced
  <2> SUFFICES ASSUME NEW t \in Tenants, Tls!Known(t), rows[t].enabled, rows[t].host \notin left, ~cut,
                      Tls!Served(t).cert.ends < day
               PROVE  t \in told \/ since[t] + Notice > Tls!Served(t).cert.ends
    BY DEF Tls!NeverEndsUnannounced
  <2>1. Tls!Served(t) = Tls!Stored(t, rows[t])
    BY DEF TlsInv, Loaded, Fits, Tls!Served
  <2>2. Tls!Served(t).cert = rows[t].cert
    BY <2>1 DEF Tls!Stored
  <2>3. rows[t].cert.ends \in Nat
    BY TlsTypes, Certs DEF TenantRow
  <2>4. day + Notice > rows[t].cert.ends + 1
    BY <2>2, <2>3, TlsTypes, TlsAssumed
  <2>5. WarnedOf(t)
    BY <2>4 DEF TlsInv, Warned
  <2>6. QED BY <2>2, <2>5 DEF WarnedOf
<1>3. QED BY <1>1, <1>2

\* Tenants are served as they are configured, and no certificate ends without a
\* warning, whatever the administrators do while the job goes over the tenants.
THEOREM CertificatesKept == MCSpec => []CertificatesServed
<1>1. MCInit => TlsInv
  BY TlsBegin DEF MCInit
<1>2. TlsInv /\ [MCNext]_allVars => TlsInv'
  <2> SUFFICES ASSUME TlsInv, [MCNext]_allVars PROVE TlsInv'
    OBVIOUS
  <2>1. [Tls!Next]_tls
    BY DEF MCNext, allVars
  <2> QED
    BY <2>1, TlsStep
<1>3. TlsInv => CertificatesServed
  BY TlsServed DEF CertificatesServed
<1> QED
  BY <1>1, <1>2, <1>3, PTL DEF MCSpec

=============================================================================
