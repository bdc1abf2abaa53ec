--------------------------- MODULE AbsenceLeaves ---------------------------
(***************************************************************************)
(* What an employee's absence costs him (ivis_leaves_enhancement, the leave *)
(* pages of ivis_user_portal): a day on which he was absent is covered by a *)
(* leave he asked for, booked as a leave by create_lwp_for_absent_days, or  *)
(* deducted by the payslip, which knows covered days by on_leave.           *)
(*                                                                          *)
(* A day's status is the stored one, as module Attendance makes it; being   *)
(* absent stands for every status that is booked, a whole day for a half.   *)
(* Left out: the balance (which decides between paid and unpaid leave),     *)
(* weekends and holidays, other employees.                                  *)
(***************************************************************************)
EXTENDS Integers, FiniteSets

CONSTANTS LeaveDays, MaxLeaves

ASSUME AbsenceAssumption == LeaveDays \in Nat /\ MaxLeaves \in Nat

VARIABLES
    day,        \* of each day: has it a record, and the record's status
    onLeave,    \* the days with on_leave
    leaves,     \* hr.leave: a function of the numbers 1..n
    booking,    \* [todo, at, fresh]: the days listed, the one looked at, and
                \* whether its row is as it was then; at 0, the job does not run
    deducted    \* the days that the payslip counted

absenceVars == <<day, onLeave, leaves, booking, deducted>>

AllDays == 1..LeaveDays
NoBooking == [todo |-> {}, at |-> 0, fresh |-> TRUE]
Covers(l, d) == leaves[l].from <= d /\ d <= leaves[l].to
OnValidLeave(d) == \E l \in DOMAIN leaves : leaves[l].state = "validate" /\ Covers(l, d)
Overlapping(d) == \E l \in DOMAIN leaves : leaves[l].state # "refuse" /\ Covers(l, d)
WithLeave(from, to, state) ==
    [l \in 1..Cardinality(DOMAIN leaves) + 1 |->
        IF l \in DOMAIN leaves THEN leaves[l] ELSE [from |-> from, to |-> to, state |-> state]]
\* Somebody else writes the rows of these days.
Touched(days) == [booking EXCEPT !.fresh = @ /\ booking.at \notin days]
-----------------------------------------------------------------------------
(* The records *)

RecordDay(d) ==
    /\ day[d] = "no record" /\ day' = [day EXCEPT ![d] = "open"]
    /\ UNCHANGED <<onLeave, leaves, booking, deducted>>

\* The status is stored, by the job or with a correction, and check_if_on_leave
\* runs with it.
StoreStatus(d, status) ==
    /\ day[d] \in IF status = "present" THEN {"open", "absent"} ELSE {"open"}
    /\ day' = [day EXCEPT ![d] = status]
    /\ onLeave' = onLeave \cup {e \in {d} : OnValidLeave(e)}
    /\ booking' = Touched({d})
    /\ UNCHANGED <<leaves, deducted>>
-----------------------------------------------------------------------------
(* The employee and his manager *)

AskLeave(from, to) ==
    /\ Cardinality(DOMAIN leaves) < MaxLeaves /\ from <= to
    /\ leaves' = WithLeave(from, to, "confirm")
    /\ UNCHANGED <<day, onLeave, booking, deducted>>

\* action_approve: the records that are there are marked, all of a leave's days.
\* Variant: only the first of them.
Marked_First(l) == {leaves[l].from}
Marked(l) == {d \in AllDays : Covers(l, d)}
ApproveLeave(l) ==
    /\ leaves[l].state = "confirm"
    /\ LET rows == {d \in Marked(l) : day[d] # "no record"} IN
          onLeave' = onLeave \cup rows /\ booking' = Touched(rows)
    /\ leaves' = [leaves EXCEPT ![l].state = "validate"]
    /\ UNCHANGED <<day, deducted>>

\* The marks of a leave that is refused afterwards stay.
RefuseLeave(l) ==
    /\ leaves[l].state \in {"confirm", "validate"}
    /\ leaves' = [leaves EXCEPT ![l].state = "refuse"]
    /\ UNCHANGED <<day, onLeave, booking, deducted>>
-----------------------------------------------------------------------------
(* create_lwp_for_absent_days, which commits after each day *)

StartBooking ==
    /\ booking = NoBooking
    /\ booking' = [NoBooking EXCEPT !.todo = {d \in AllDays : day[d] = "absent" /\ d \notin onLeave}]
    /\ UNCHANGED <<day, onLeave, leaves, deducted>>

\* A day of the list, as it is by now.
\* Variant: the list is believed.
Due_Listed(d) == ~Overlapping(d)
Due(d) == ~Overlapping(d) /\ day[d] = "absent"
LookAtDay(d) ==
    /\ booking.at = 0 /\ d \in booking.todo
    /\ booking' = [todo |-> booking.todo \ {d}, at |-> IF Due(d) THEN d ELSE 0, fresh |-> TRUE]
    /\ UNCHANGED <<day, onLeave, leaves, deducted>>

\* The leave is made and approved at once.  If its day's row was written since,
\* the database refuses the mark and the leave with it.  An approval that raises
\* is caught before the row is written: whatever the day is by then, the request
\* is committed and waits.
BookLeave ==
    /\ booking.at # 0 /\ Cardinality(DOMAIN leaves) < MaxLeaves
    /\ booking' = [booking EXCEPT !.at = 0]
    /\ \/ ~booking.fresh /\ UNCHANGED <<leaves, onLeave>>
       \/ booking.fresh /\ leaves' = WithLeave(booking.at, booking.at, "validate") /\ onLeave' = onLeave \cup {booking.at}
       \/ leaves' = WithLeave(booking.at, booking.at, "confirm") /\ UNCHANGED onLeave
    /\ UNCHANGED <<day, deducted>>

EndBooking ==
    /\ booking # NoBooking /\ booking' = NoBooking
    /\ UNCHANGED <<day, onLeave, leaves, deducted>>
-----------------------------------------------------------------------------
(* get_attendance_with_absent_count: leaves of one day are looked up, then     *)
(* what is absent and not marked is counted.                                   *)

CountAbsences ==
    LET decided == {d \in AllDays : day[d] \in {"absent", "present"}}
        found == {d \in decided \ onLeave : \E l \in DOMAIN leaves :
                     leaves[l] = [from |-> d, to |-> d, state |-> "validate"]}
    IN /\ onLeave' = onLeave \cup found
       /\ booking' = Touched(found)
       /\ deducted' = {d \in AllDays : day[d] = "absent"} \ onLeave'
       /\ UNCHANGED <<day, leaves>>
-----------------------------------------------------------------------------
AbsenceInit ==
    /\ day = [d \in AllDays |-> "no record"] /\ onLeave = {} /\ deducted = {}
    /\ leaves = [l \in {} |-> NoBooking] /\ booking = NoBooking

AbsenceNext ==
    \/ \E d \in AllDays : \/ RecordDay(d) \/ LookAtDay(d)
                          \/ \E status \in {"absent", "present", "off_day"} : StoreStatus(d, status)
                          \/ \E e \in AllDays : AskLeave(d, e)
    \/ \E l \in DOMAIN leaves : ApproveLeave(l) \/ RefuseLeave(l)
    \/ StartBooking \/ BookLeave \/ EndBooking \/ CountAbsences

AbsenceSpec == AbsenceInit /\ [][AbsenceNext]_absenceVars
-----------------------------------------------------------------------------
\* The type invariant.
AbsenceTypeOK ==
    /\ day \in [AllDays -> {"no record", "open", "absent", "present", "off_day"}]
    /\ onLeave \subseteq {d \in AllDays : day[d] # "no record"} /\ deducted \subseteq AllDays
    /\ DOMAIN leaves = 1..Cardinality(DOMAIN leaves)
    /\ \A l \in DOMAIN leaves :
          leaves[l] \in [from : AllDays, to : AllDays, state : {"confirm", "validate", "refuse"}]
    /\ booking \in [todo : SUBSET AllDays, at : AllDays \cup {0}, fresh : BOOLEAN]

\* What a leave pays for is not deducted as well: the payslip counts no day that
\* a leave validated by then covers, be the leave long or short, validated before
\* there was a record, before the record was decided, or afterwards.  (A leave
\* that is booked or approved after the payslip has counted takes the day again.)
LeaveIsNotDeducted ==
    [][deducted' # deducted => \A d \in deducted' : ~OnValidLeave(d)]_absenceVars

\* No leave is taken at once for a day that has been corrected meanwhile: between
\* the list and the booking the day is read again, and after that the database
\* notices.  (A request that could not be approved may be left for such a day.)
NoLeaveForWorkedDay ==
    [][\A l \in DOMAIN leaves' \ DOMAIN leaves : leaves'[l].state = "validate" =>
          \A d \in leaves'[l].from..leaves'[l].to : day[d] = "absent"]_absenceVars
=============================================================================
