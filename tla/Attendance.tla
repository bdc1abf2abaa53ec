----------------------------- MODULE Attendance -----------------------------
(***************************************************************************)
(* One employee's attendance (ivis_attendance, hr_zk_attendance): he       *)
(* punches at a machine, which is read now and then; a cron job makes one  *)
(* record a day of the punches and commits after each of its phases; what  *)
(* the records say wrong is put right by change requests.                  *)
(*                                                                         *)
(* A day has the times 1 to LastTime, at which he may punch; those up to   *)
(* LastCheckIn lie in the first seven hours of the shift.  0 as check_in   *)
(* is the midnight that stands in for none.  The shift is the same every   *)
(* day and has hours; lateness, overtime, the other machines and the other *)
(* employees are left out.                                                 *)
(***************************************************************************)
EXTENDS Integers, FiniteSets, FiniteSetsExt

CONSTANTS LastDay, LastTime, LastCheckIn,
          Calendars,      \* sets of days that are his days off or public holidays
          Corrections,    \* [in, out], what a change request may ask for
          PunchDays,      \* bound: the days on which he may punch
          RequestDays,    \* the days he asks to have corrected
          MaxPunches

Days == 1..LastDay
Times == 1..LastTime
CheckInTimes == 1..LastCheckIn

ASSUME AttendanceAssumption ==
    /\ LastDay \in Nat \ {0} /\ MaxPunches \in Nat
    /\ LastTime \in Nat /\ LastCheckIn \in 0..LastTime
    /\ \A c \in Calendars : c \subseteq Days
    /\ PunchDays \cup RequestDays \subseteq Days
    /\ Corrections \subseteq [in : Times, out : Times]

Punches == Days \X Times

VARIABLES
    offDays,        \* the calendar
    date, clock,   \* the day, and the times of it that are over
    punched,        \* what the machines remember
    fetched,        \* zk.machine.attendance
    processed,      \* the ones of them that a record has taken
    attendance,     \* hr.attendance, of the days that have one
    cron,           \* [phase, days]: the job, and the days it has to compute the status of
    lost,           \* the days whose status a crash has left uncomputed
    correction         \* my.change.request, of the days that have one

attendanceVars == <<offDays, date, clock, punched, fetched, processed, attendance, cron, lost, correction>>

Idle == [phase |-> "idle", days |-> {}]
Dated == DOMAIN attendance
-----------------------------------------------------------------------------
(* The day, and the machines *)

Punch(t) ==
    /\ date \in PunchDays /\ t = clock /\ <<date, t>> \notin punched /\ Cardinality(punched) < MaxPunches
    /\ punched' = punched \cup {<<date, t>>}
    /\ UNCHANGED <<offDays, date, clock, fetched, processed, attendance, cron, lost, correction>>

Pass ==
    /\ \/ \E t \in Times : t > clock /\ clock' = Min({u \in Times : u > clock}) /\ UNCHANGED date
       \/ /\ \A t \in Times : t <= clock
          /\ date < LastDay /\ date' = date + 1 /\ clock' = 0
    /\ UNCHANGED <<offDays, punched, fetched, processed, attendance, cron, lost, correction>>

\* A machine keeps what it has, and what is known already is skipped.  When it
\* cannot be reached nothing is fetched.
DownloadAttendance ==
    /\ fetched' = punched
    /\ UNCHANGED <<offDays, date, clock, punched, processed, attendance, cron, lost, correction>>
-----------------------------------------------------------------------------
(* What a day's punches make of it *)

Unprocessed(d) == {t \in Times : <<d, t>> \in fetched \ processed}
CheckIns(d) == Unprocessed(d) \cap CheckInTimes
CheckOuts(d) == Unprocessed(d) \ CheckInTimes
Earliest(times) == IF times = {} THEN 0 ELSE Min(times)
Latest(times) == IF times = {} THEN 0 ELSE Max(times)

\* A new record; without a check-in it gets the check-out, or midnight.
Created(d) ==
    LET in == Earliest(CheckIns(d))  out == Latest(CheckOuts(d)) IN
    [state |-> IF in # 0 /\ out # 0 THEN "done" ELSE "draft",
     in |-> IF in = 0 THEN out ELSE in, out |-> out, machineIn |-> in, machineOut |-> out,
     off |-> FALSE, status |-> "none"]
TakenFirst(d) == {<<d, Earliest(CheckIns(d))>>, <<d, Latest(CheckOuts(d))>>} \cap Punches

\* prev_attendance.  A record always has a check_in, so that all it can still
\* take is a check-out.
\* Variant: another check-out replaces the one there is.
TakesOut_Again(d) == CheckOuts(d) # {}
TakesOut(d) == attendance[d].out = 0 /\ CheckOuts(d) # {}
Settled(d) ==
    LET a == attendance[d] IN
    IF TakesOut(d) THEN [a EXCEPT !.state = "done", !.out = Latest(CheckOuts(d)), !.machineOut = Latest(CheckOuts(d))]
    ELSE IF d >= date THEN a
    ELSE IF a.machineIn # 0 \/ a.machineOut # 0 THEN [a EXCEPT !.state = "done", !.out = IF @ = 0 THEN a.in ELSE @]
    ELSE [a EXCEPT !.state = "done", !.off = d \in offDays]
TakenLater(d) == IF TakesOut(d) THEN {<<d, Latest(CheckOuts(d))>>} ELSE {}

\* _get_status
StatusOf(a) ==
    IF a.state # "done" THEN a.status
    ELSE IF a.off THEN "off_day"
    ELSE IF a.out = 0 THEN "absent"
    ELSE IF a.in = a.out THEN "missed_check"
    ELSE IF a.in < a.out THEN "present"
    ELSE a.status
WithStatus(a) == [a EXCEPT !.status = StatusOf(a)]
-----------------------------------------------------------------------------
(* The job: process_attendance_ivis.  Each phase is committed by itself. *)

StartProcessing ==
    /\ cron = Idle /\ cron' = [Idle EXCEPT !.phase = "previous"]
    /\ UNCHANGED <<offDays, date, clock, punched, fetched, processed, attendance, lost, correction>>

\* Variant: only the newest record is looked at.
Undecided_Newest == {d \in Dated : d = Max(Dated) /\ attendance[d].state # "done"}
Undecided == {d \in Dated : d <= date /\ attendance[d].state # "done"}
ProcessPrevious ==
    /\ cron.phase = "previous"
    /\ LET changed == {d \in Undecided : Settled(d) # attendance[d]} IN
          /\ attendance' = [d \in Dated |-> IF d \in changed THEN Settled(d) ELSE attendance[d]]
          /\ processed' = processed \cup UNION {TakenLater(d) : d \in changed}
          /\ cron' = [phase |-> IF changed = {} THEN "create" ELSE "status of previous", days |-> changed]
    /\ UNCHANGED <<offDays, date, clock, punched, fetched, lost, correction>>

\* records_to_create: the days after the newest record, or from the first punch on.
\* Variant: only today, as if the job ran every day.
LastRecorded_Yesterday == IF date \in Dated THEN date ELSE date - 1
PunchedDays == {p[1] : p \in fetched \ processed}
LastRecorded == IF Dated # {} THEN Max(Dated)
                ELSE IF PunchedDays # {} THEN Min(PunchedDays) - 1 ELSE date - 1
CreateRecords ==
    /\ cron.phase = "create"
    /\ LET new == (LastRecorded + 1)..date IN
          /\ attendance' = [d \in Dated \cup new |-> IF d \in new THEN Created(d) ELSE attendance[d]]
          /\ processed' = processed \cup UNION {TakenFirst(d) : d \in new}
          /\ cron' = IF new = {} THEN Idle ELSE [phase |-> "status of new", days |-> new]
    /\ UNCHANGED <<offDays, date, clock, punched, fetched, lost, correction>>

StatusPhases == {"status of previous", "status of new"}
\* Variant: the status of the new ones is left to the next run.
RecomputeStatus_Previous ==
    /\ cron.phase \in StatusPhases
    /\ attendance' = [d \in Dated |-> IF d \in cron.days /\ cron.phase = "status of previous"
                                      THEN WithStatus(attendance[d]) ELSE attendance[d]]
    /\ cron' = IF cron.phase = "status of new" THEN Idle ELSE [phase |-> "create", days |-> {}]
    /\ UNCHANGED <<offDays, date, clock, punched, fetched, processed, lost, correction>>
RecomputeStatus ==
    /\ cron.phase \in StatusPhases
    /\ attendance' = [d \in Dated |-> IF d \in cron.days THEN WithStatus(attendance[d]) ELSE attendance[d]]
    /\ cron' = IF cron.phase = "status of new" THEN Idle ELSE [phase |-> "create", days |-> {}]
    /\ UNCHANGED <<offDays, date, clock, punched, fetched, processed, lost, correction>>

\* The server is restarted, or an exception (another employee's) ends the run.
\* A record that is done is not looked at again.
Crash ==
    /\ cron # Idle /\ cron' = Idle
    /\ lost' = lost \cup {d \in cron.days : attendance[d].state = "done"}
    /\ UNCHANGED <<offDays, date, clock, punched, fetched, processed, attendance, correction>>

\* trigger_computes, the button Recompute.
RecomputeDay(d) ==
    /\ d \in Dated
    /\ attendance' = [attendance EXCEPT ![d] = WithStatus(@)]
    /\ lost' = lost \ {d}
    /\ UNCHANGED <<offDays, date, clock, punched, fetched, processed, cron, correction>>
-----------------------------------------------------------------------------
(* Change requests.  No handler asks for the state; shown says whether HR has *)
(* been offered the request, on a page that may be old by now.                *)

Ask(d, asked) ==
    /\ d \in Dated \cap RequestDays /\ d \notin DOMAIN correction
    /\ correction' = [e \in DOMAIN correction \cup {d} |->
                      IF e = d THEN [state |-> "first", asked |-> asked, shown |-> FALSE, applied |-> FALSE]
                      ELSE correction[e]]
    /\ UNCHANGED <<offDays, date, clock, punched, fetched, processed, attendance, cron, lost>>

ValidateRequestManager(d) ==
    /\ correction' = [correction EXCEPT ![d].state = "second", ![d].shown = TRUE]
    /\ UNCHANGED <<offDays, date, clock, punched, fetched, processed, attendance, cron, lost>>
RejectCorrection(d) ==
    /\ correction' = [correction EXCEPT ![d].state = "rejected"]
    /\ UNCHANGED <<offDays, date, clock, punched, fetched, processed, attendance, cron, lost>>
\* The status is recomputed with the times.
ValidateRequestHr(d) ==
    /\ correction[d].shown
    /\ correction' = [correction EXCEPT ![d].state = "done", ![d].applied = TRUE]
    /\ attendance' = [attendance EXCEPT ![d] = WithStatus([@ EXCEPT !.in = correction[d].asked.in,
                                                                    !.out = correction[d].asked.out])]
    /\ lost' = lost \ {d}
    /\ UNCHANGED <<offDays, date, clock, punched, fetched, processed, cron>>
-----------------------------------------------------------------------------
AttendanceInit ==
    /\ offDays \in Calendars /\ date = 1 /\ clock = 0 /\ cron = Idle /\ lost = {}
    /\ punched = {} /\ fetched = {} /\ processed = {}
    /\ attendance = [d \in {} |-> Idle] /\ correction = [d \in {} |-> Idle]

AttendanceCron == StartProcessing \/ ProcessPrevious \/ CreateRecords \/ RecomputeStatus
AttendanceNext ==
    \/ Pass \/ (\E t \in Times : Punch(t)) \/ DownloadAttendance
    \/ AttendanceCron \/ Crash
    \/ \E d \in Days : RecomputeDay(d) \/ \E c \in Corrections : Ask(d, c)
    \/ \E d \in DOMAIN correction : ValidateRequestManager(d) \/ RejectCorrection(d) \/ ValidateRequestHr(d)

AttendanceSpec == AttendanceInit /\ [][AttendanceNext]_attendanceVars
-----------------------------------------------------------------------------
\* The type invariant.
Attendances ==
    [state : {"draft", "done"}, in : Times \cup {0}, out : Times \cup {0}, machineIn : CheckInTimes \cup {0},
     machineOut : (Times \ CheckInTimes) \cup {0}, off : BOOLEAN,
     status : {"none", "off_day", "absent", "missed_check", "present"}]
Requests == [state : {"first", "second", "done", "rejected"}, asked : Corrections, shown : BOOLEAN, applied : BOOLEAN]
AttendanceTypeOK ==
    /\ offDays \in Calendars /\ date \in Days /\ clock \in Times \cup {0}
    /\ punched \subseteq Punches /\ fetched \subseteq punched /\ processed \subseteq fetched
    /\ Dated \subseteq 1..date /\ \A d \in Dated : attendance[d] \in Attendances
    /\ DOMAIN correction \subseteq Dated /\ \A d \in DOMAIN correction : correction[d] \in Requests
    /\ cron \in [phase : {"idle", "previous", "create"} \cup StatusPhases, days : SUBSET Dated]
    /\ lost \subseteq Dated

\* What HR validated stays, whatever is fetched and processed afterwards.
CorrectionStays ==
    \A d \in DOMAIN correction :
        correction[d].applied => /\ attendance[d].in = correction[d].asked.in
                              /\ attendance[d].out = correction[d].asked.out

\* The stored status is the one of the record's times, through the phases of
\* the job, corrections and late punches.  Only a crash between the records
\* and their status separates the two, until somebody recomputes the day.
StatusFollows ==
    \A d \in Dated : d \notin cron.days \cup lost => attendance[d].status = StatusOf(attendance[d])

\* A run that gets to its end.
RunEnds == (CreateRecords \/ RecomputeStatus) /\ cron' = Idle

\* As long as runs get to their end now and then, every day since the first
\* record is decided once it is over: also the days on which the job did not run
\* at all, and those after which it crashed between its phases.
DaysAreDecided ==
    []<><<RunEnds>>_attendanceVars =>
        \A d \in 1..LastDay - 1 : (Dated # {} /\ Min(Dated) <= d /\ d < date)
                            ~> (d \in Dated /\ attendance[d].state = "done")
=============================================================================
