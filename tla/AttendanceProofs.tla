-------------------------- MODULE AttendanceProofs --------------------------
(***************************************************************************)
(* The attendance records and the absences that follow from them.          *)
(*                                                                         *)
(* A validated correction stays and the stored status is that of the       *)
(* record's times, for any number of days, times and punches, any calendar *)
(* and any corrections.                                                    *)
(*                                                                         *)
(* Why: the records are consecutive days, so that new ones never replace   *)
(* old ones; a corrected day has a check_out, so that the job has nothing  *)
(* left to put into it; and every step that writes a record's times either *)
(* stores its status or leaves the day among those the job has yet to      *)
(* compute or a crash has lost.                                            *)
(***************************************************************************)
EXTENDS Attendance, AbsenceLeaves, FiniteSetTheorems, WellFoundedInduction, TLAPS

Consecutive == Dated = {} \/ \E first, last \in Nat : first <= last /\ Dated = first..last
NothingLeft == cron.phase \notin StatusPhases => cron.days = {}

\* The inductive invariant.
AttendanceInv == AttendanceTypeOK /\ Consecutive /\ NothingLeft /\ CorrectionStays /\ StatusFollows
-----------------------------------------------------------------------------
(* Smallest and largest *)

\* A set of natural numbers has a smallest element.
LEMMA Smallest ==
    ASSUME NEW T, T \subseteq Nat, T # {}
    PROVE  Min(T) \in T /\ \A t \in T : Min(T) <= t
<1> DEFINE R == OpToRel(<, Nat)
<1>1. IsWellFoundedOn(R, Nat)
  BY NatLessThanWellFounded
<1>2. \A x, y \in Nat : <<y, x>> \in R <=> y < x
  BY DEF OpToRel
<1> HIDE DEF R
<1>3. PICK x \in T : \A y \in T : ~ (<<y, x>> \in R)
  BY <1>1, WFMin
<1>4. \A y \in T : x =< y
  <2> TAKE y \in T
  <2>1. x \in Nat /\ y \in Nat /\ ~ (y < x)
    BY <1>2, <1>3
  <2> QED BY <2>1
<1> QED BY <1>4 DEF Min

\* A set of natural numbers with a bound has a largest element.
LEMMA Largest ==
    ASSUME NEW n \in Nat, NEW T, T \subseteq 0..n, T # {}
    PROVE  Max(T) \in T /\ \A t \in T : t <= Max(T)
<1> DEFINE rest == {n - t : t \in T}
<1>1. rest \subseteq Nat /\ rest # {}
  <2>1. \A t \in T : n - t \in Nat
    OBVIOUS
  <2>2. PICK t \in T : TRUE
    OBVIOUS
  <2> QED BY <2>1, <2>2
<1>2. Min(rest) \in rest /\ \A r \in rest : Min(rest) <= r
  BY <1>1, Smallest
<1>3. PICK x \in T : Min(rest) = n - x
  BY <1>2
<1>4. \A t \in T : n - x <= n - t
  BY <1>2, <1>3
<1>5. \A t \in T : x >= t
  BY <1>4
<1>6. \E y \in T : \A t \in T : y >= t
  BY <1>5
<1>7. Max(T) \in T /\ \A t \in T : Max(T) >= t
  BY <1>6 DEF Max
<1> QED BY <1>7
-----------------------------------------------------------------------------
(* What the punches make of a day *)

\* The earliest and the latest of some times are among them, or 0.
LEMMA AmongTimes ==
    ASSUME NEW T, T \subseteq Times
    PROVE  /\ T # {} => Earliest(T) \in T /\ Latest(T) \in T
           /\ T = {} => Earliest(T) = 0 /\ Latest(T) = 0
<1>1. LastTime \in Nat /\ T \subseteq 0..LastTime /\ T \subseteq Nat
  BY AttendanceAssumption DEF Times
<1> QED BY <1>1, Smallest, Largest DEF Earliest, Latest

\* Times that were taken were fetched.
LEMMA UnprocessedTimes ==
    ASSUME NEW d
    PROVE  /\ CheckIns(d) \subseteq CheckInTimes /\ CheckIns(d) \subseteq Times
           /\ CheckOuts(d) \subseteq Times \ CheckInTimes
           /\ \A t \in CheckIns(d) \cup CheckOuts(d) : <<d, t>> \in fetched
BY DEF CheckIns, CheckOuts, Unprocessed

\* What a record looks like when it is created.
LEMMA CreatedRecord ==
    ASSUME NEW d
    PROVE  Created(d) \in Attendances /\ TakenFirst(d) \subseteq fetched
<1> DEFINE in == Earliest(CheckIns(d))  out == Latest(CheckOuts(d))
<1>1. in \in CheckInTimes \cup {0} /\ in \in Times \cup {0} /\ (in # 0 => <<d, in>> \in fetched)
  BY AmongTimes, UnprocessedTimes
<1>2. out \in (Times \ CheckInTimes) \cup {0} /\ (out # 0 => <<d, out>> \in fetched)
  BY AmongTimes, UnprocessedTimes
<1>3. 0 \notin Times
  BY AttendanceAssumption DEF Times
<1>4. Created(d) = [state |-> IF in # 0 /\ out # 0 THEN "done" ELSE "draft", in |-> IF in = 0 THEN out ELSE in,
                    out |-> out, machineIn |-> in, machineOut |-> out, off |-> FALSE, status |-> "none"]
  BY DEF Created
<1>5. TakenFirst(d) = {<<d, in>>, <<d, out>>} \cap Punches
  BY DEF TakenFirst
<1> HIDE DEF in, out
<1>6. Created(d) \in Attendances
  BY <1>1, <1>2, <1>4 DEF Attendances
<1>7. TakenFirst(d) \subseteq fetched
  BY <1>1, <1>2, <1>3, <1>5 DEF Punches
<1> QED BY <1>6, <1>7

\* A record that has a check_out keeps its times.
LEMMA SettledRecord ==
    ASSUME NEW d, attendance[d] \in Attendances
    PROVE  /\ Settled(d) \in Attendances /\ TakenLater(d) \subseteq fetched
           /\ attendance[d].out # 0 => Settled(d).in = attendance[d].in /\ Settled(d).out = attendance[d].out
<1> DEFINE a == attendance[d]  out == Latest(CheckOuts(d))
<1>0. a \in Attendances
  OBVIOUS
<1>1. TakesOut(d) => out \in Times \ CheckInTimes /\ <<d, out>> \in fetched
  BY AmongTimes, UnprocessedTimes DEF TakesOut
<1>2. a.out # 0 => ~TakesOut(d)
  BY DEF TakesOut
<1>3. TakenLater(d) \subseteq fetched
  BY <1>1 DEF TakenLater
<1>4. CASE TakesOut(d)
  <2>1. Settled(d) = [a EXCEPT !.state = "done", !.out = out, !.machineOut = out]
    BY <1>4 DEF Settled
  <2> HIDE DEF a, out
  <2>2. [a EXCEPT !.state = "done", !.out = out, !.machineOut = out] \in Attendances
    BY <1>0, <1>1, <1>4 DEF Attendances
  <2> QED BY <1>2, <1>3, <1>4, <2>1, <2>2 DEF a
<1>5. CASE ~TakesOut(d) /\ d >= date
  BY <1>3, <1>5 DEF Settled
<1>6. CASE ~TakesOut(d) /\ ~(d >= date) /\ (a.machineIn # 0 \/ a.machineOut # 0)
  <2>1. Settled(d) = [a EXCEPT !.state = "done", !.out = IF @ = 0 THEN a.in ELSE @]
    BY <1>6 DEF Settled
  <2> HIDE DEF a, out
  <2>2. /\ [a EXCEPT !.state = "done", !.out = IF @ = 0 THEN a.in ELSE @] \in Attendances
        /\ [a EXCEPT !.state = "done", !.out = IF @ = 0 THEN a.in ELSE @].in = a.in
        /\ a.out # 0 => [a EXCEPT !.state = "done", !.out = IF @ = 0 THEN a.in ELSE @].out = a.out
    BY <1>0 DEF Attendances
  <2> QED BY <1>3, <2>1, <2>2 DEF a
<1>7. CASE ~TakesOut(d) /\ ~(d >= date) /\ ~(a.machineIn # 0 \/ a.machineOut # 0)
  <2> DEFINE off == d \in offDays
  <2>1. Settled(d) = [a EXCEPT !.state = "done", !.off = off] /\ off \in BOOLEAN
    BY <1>7 DEF Settled
  <2> HIDE DEF a, out, off
  <2>2. /\ [a EXCEPT !.state = "done", !.off = off] \in Attendances
        /\ [a EXCEPT !.state = "done", !.off = off].in = a.in
        /\ [a EXCEPT !.state = "done", !.off = off].out = a.out
    BY <1>0, <2>1 DEF Attendances
  <2> QED BY <1>3, <2>1, <2>2 DEF a
<1> QED BY <1>4, <1>5, <1>6, <1>7

\* The status of a record that is not decided stays.
LEMMA NothingToStore ==
    ASSUME NEW a \in Attendances, a.state # "done"
    PROVE  StatusOf(a) = a.status
BY DEF StatusOf, Attendances

\* To store the status changes nothing else, and no second time.
LEMMA StoredStatus ==
    ASSUME NEW a \in Attendances
    PROVE  /\ WithStatus(a) \in Attendances
           /\ WithStatus(a).in = a.in /\ WithStatus(a).out = a.out
           /\ WithStatus(a).status = StatusOf(WithStatus(a))
<1>1. StatusOf(a) \in {"none", "off_day", "absent", "missed_check", "present"}
  BY DEF StatusOf, Attendances
<1>2. /\ WithStatus(a) \in Attendances /\ WithStatus(a).state = a.state /\ WithStatus(a).off = a.off
      /\ WithStatus(a).in = a.in /\ WithStatus(a).out = a.out /\ WithStatus(a).status = StatusOf(a)
  BY <1>1 DEF WithStatus, Attendances
<1> DEFINE b == WithStatus(a)
<1> HIDE DEF b
<1>3. b.state = a.state /\ b.off = a.off /\ b.in = a.in /\ b.out = a.out /\ b.status = StatusOf(a)
  BY <1>2 DEF b
<1>4. StatusOf(b) = StatusOf(a)
  <2>1. CASE a.state # "done"
    BY <1>3, <2>1 DEF StatusOf
  <2>2. CASE a.state = "done" /\ a.off
    BY <1>3, <2>2 DEF StatusOf
  <2>3. CASE a.state = "done" /\ ~a.off /\ a.out = 0
    BY <1>3, <2>3 DEF StatusOf
  <2>4. CASE a.state = "done" /\ ~a.off /\ a.out # 0
    BY <1>3, <2>4 DEF StatusOf
  <2>5. a.off \in BOOLEAN
    BY DEF Attendances
  <2> QED BY <2>1, <2>2, <2>3, <2>4, <2>5
<1> QED BY <1>2, <1>3, <1>4 DEF b
-----------------------------------------------------------------------------
(* The steps *)

\* The invariant holds at the start.
LEMMA AttendanceInitially == AttendanceInit => AttendanceInv
<1> SUFFICES ASSUME AttendanceInit PROVE AttendanceInv
  OBVIOUS
<1>1. Dated = {} /\ DOMAIN correction = {}
  BY DEF AttendanceInit, Dated
<1>2. cron.phase = "idle" /\ cron.days = {} /\ cron = [phase |-> "idle", days |-> {}]
  BY DEF AttendanceInit, Idle
<1>3. date \in Days /\ clock \in Times \cup {0}
  BY AttendanceAssumption DEF AttendanceInit, Days
<1>4. AttendanceTypeOK
  BY <1>1, <1>2, <1>3 DEF AttendanceInit, AttendanceTypeOK
<1> QED BY <1>1, <1>2, <1>4 DEF AttendanceInv, Consecutive, NothingLeft, CorrectionStays, StatusFollows

\* The day and the machines leave the records alone.
LEMMA Outside ==
    ASSUME AttendanceInv, Pass \/ (\E t \in Times : Punch(t)) \/ DownloadAttendance \/ StartProcessing
           \/ UNCHANGED attendanceVars
    PROVE  AttendanceInv'
<1>1. UNCHANGED <<attendance, correction, lost, offDays>> /\ cron'.days = cron.days
  BY DEF AttendanceInv, NothingLeft, StatusPhases, Pass, Punch, DownloadAttendance, StartProcessing, Idle, attendanceVars
<1>2. Dated' = Dated
  BY <1>1 DEF Dated
<1>3. AttendanceTypeOK'
  <2>1. date \in Nat /\ LastDay \in Nat /\ date <= LastDay /\ date \in Days
    BY AttendanceAssumption DEF AttendanceInv, AttendanceTypeOK, Days
  <2>2. date' \in Days /\ date <= date'
    <3>1. date' = date \/ (date < LastDay /\ date' = date + 1)
      BY DEF Pass, Punch, DownloadAttendance, StartProcessing, attendanceVars
    <3> QED BY <2>1, <3>1 DEF Days
  <2>3. clock' \in Times \cup {0}
    <3>1. \A t \in Times : t > clock => Min({u \in Times : u > clock}) \in Times
      <4> TAKE t \in Times
      <4> HAVE t > clock
      <4>1. {u \in Times : u > clock} \subseteq Nat /\ {u \in Times : u > clock} # {}
        BY AttendanceAssumption DEF Times
      <4> QED BY <4>1, Smallest
    <3> QED BY <3>1 DEF AttendanceInv, AttendanceTypeOK, Pass, Punch, DownloadAttendance, StartProcessing, attendanceVars
  <2>4. punched' \subseteq Punches /\ fetched' \subseteq punched' /\ processed' \subseteq fetched'
    <3>1. \A t \in Times : <<date, t>> \in Punches
      BY <2>1 DEF Punches
    <3> QED BY <3>1 DEF AttendanceInv, AttendanceTypeOK, Pass, Punch, DownloadAttendance, StartProcessing, attendanceVars
  <2>5. cron' \in [phase : {"idle", "previous", "create"} \cup StatusPhases, days : SUBSET Dated']
    BY <1>2 DEF AttendanceInv, AttendanceTypeOK, Pass, Punch, DownloadAttendance, StartProcessing, attendanceVars, Idle
  <2>6. Dated' \subseteq 1..date'
    BY <1>2, <2>1, <2>2 DEF AttendanceInv, AttendanceTypeOK, Days
  <2> QED BY <1>1, <1>2, <2>2, <2>3, <2>4, <2>5, <2>6 DEF AttendanceInv, AttendanceTypeOK
<1>4. NothingLeft'
  BY DEF AttendanceInv, NothingLeft, StatusPhases, Pass, Punch, DownloadAttendance, StartProcessing, Idle, attendanceVars
<1>5. Consecutive' /\ CorrectionStays' /\ StatusFollows'
  BY <1>1, <1>2 DEF AttendanceInv, Consecutive, CorrectionStays, StatusFollows, StatusOf
<1> QED BY <1>3, <1>4, <1>5 DEF AttendanceInv

\* A record that is not decided keeps its status, so that there is nothing to lose.
LEMMA Interrupted == ASSUME AttendanceInv, Crash PROVE AttendanceInv'
<1>1. UNCHANGED <<offDays, date, clock, punched, fetched, processed, attendance, correction>> /\ Dated' = Dated
      /\ lost' = lost \cup {d \in cron.days : attendance[d].state = "done"}
  BY DEF Crash, Dated
<1>2. cron' = [phase |-> "idle", days |-> {}]
  BY DEF Crash, Idle
<1>3. cron.days \subseteq Dated
  BY DEF AttendanceInv, AttendanceTypeOK
<1>4. AttendanceTypeOK'
  BY <1>1, <1>2, <1>3 DEF AttendanceInv, AttendanceTypeOK
<1>5. StatusFollows'
  <2> SUFFICES ASSUME NEW d \in Dated, d \notin lost'
               PROVE  attendance[d].status = StatusOf(attendance[d])
    BY <1>1 DEF StatusFollows, StatusOf
  <2>1. CASE d \in cron.days
    <3>1. attendance[d].state # "done"
      BY <1>1, <2>1
    <3>2. attendance[d] \in Attendances
      BY DEF AttendanceInv, AttendanceTypeOK
    <3> QED BY <3>1, <3>2, NothingToStore
  <2>2. CASE d \notin cron.days
    BY <1>1, <2>2 DEF AttendanceInv, StatusFollows
  <2> QED BY <2>1, <2>2
<1>6. Consecutive' /\ NothingLeft' /\ CorrectionStays'
  BY <1>1, <1>2 DEF AttendanceInv, Consecutive, NothingLeft, CorrectionStays
<1> QED BY <1>4, <1>5, <1>6 DEF AttendanceInv

\* The days that change come to the ones whose status is to be computed.
LEMMA PreviousProcessed == ASSUME AttendanceInv, ProcessPrevious PROVE AttendanceInv'
<1> DEFINE changed == {d \in Undecided : Settled(d) # attendance[d]}
<1>1. /\ attendance' = [d \in Dated |-> IF d \in changed THEN Settled(d) ELSE attendance[d]]
      /\ processed' = processed \cup UNION {TakenLater(d) : d \in changed}
      /\ cron' = [phase |-> IF changed = {} THEN "create" ELSE "status of previous", days |-> changed]
      /\ UNCHANGED <<offDays, date, clock, punched, fetched, lost, correction>>
      /\ cron.phase = "previous"
  BY DEF ProcessPrevious
<1>2. changed \subseteq Dated /\ Dated' = Dated
  BY <1>1 DEF Dated, Undecided
<1>3. cron.days = {}
  BY <1>1 DEF AttendanceInv, NothingLeft, StatusPhases
<1> HIDE DEF changed
<1>4. \A d \in Dated : /\ attendance[d] \in Attendances
                       /\ Settled(d) \in Attendances /\ TakenLater(d) \subseteq fetched
                       /\ attendance[d].out # 0 => Settled(d).in = attendance[d].in /\ Settled(d).out = attendance[d].out
  BY SettledRecord DEF AttendanceInv, AttendanceTypeOK
<1>5. AttendanceTypeOK'
  <2>1. \A d \in Dated : attendance'[d] \in Attendances
    BY <1>1, <1>4
  <2>2. processed' \subseteq fetched'
    BY <1>1, <1>2, <1>4 DEF AttendanceInv, AttendanceTypeOK
  <2>3. cron' \in [phase : {"idle", "previous", "create"} \cup StatusPhases, days : SUBSET Dated']
    BY <1>1, <1>2 DEF StatusPhases
  <2> QED BY <1>1, <1>2, <2>1, <2>2, <2>3 DEF AttendanceInv, AttendanceTypeOK
<1>6. NothingLeft'
  BY <1>1 DEF NothingLeft, StatusPhases
<1>7. CorrectionStays'
  <2> SUFFICES ASSUME NEW d \in DOMAIN correction, correction[d].applied
               PROVE  /\ attendance'[d].in = correction[d].asked.in
                      /\ attendance'[d].out = correction[d].asked.out
    BY <1>1 DEF CorrectionStays
  <2>1. d \in Dated /\ correction[d].asked \in Corrections
    BY DEF AttendanceInv, AttendanceTypeOK, Requests
  <2>2. correction[d].asked.out # 0
    BY <2>1, AttendanceAssumption DEF Times
  <2>3. attendance[d].in = correction[d].asked.in /\ attendance[d].out = correction[d].asked.out
    BY DEF AttendanceInv, CorrectionStays
  <2> QED BY <1>1, <1>4, <2>1, <2>2, <2>3
<1>8. StatusFollows'
  <2> SUFFICES ASSUME NEW d \in Dated, d \notin changed, d \notin lost
               PROVE  attendance[d].status = StatusOf(attendance[d])
    BY <1>1, <1>2 DEF StatusFollows, StatusOf
  <2> QED BY <1>3 DEF AttendanceInv, StatusFollows
<1>9. Consecutive'
  BY <1>2 DEF AttendanceInv, Consecutive
<1> QED BY <1>5, <1>6, <1>7, <1>8, <1>9 DEF AttendanceInv

\* The new days come after the ones there are.
LEMMA RecordsCreated == ASSUME AttendanceInv, CreateRecords PROVE AttendanceInv'
<1> DEFINE last == LastRecorded  new == (last + 1)..date
<1>1. /\ attendance' = [d \in Dated \cup new |-> IF d \in new THEN Created(d) ELSE attendance[d]]
      /\ processed' = processed \cup UNION {TakenFirst(d) : d \in new}
      /\ cron' = IF new = {} THEN Idle ELSE [phase |-> "status of new", days |-> new]
      /\ UNCHANGED <<offDays, date, clock, punched, fetched, lost, correction>>
      /\ cron.phase = "create"
  BY DEF CreateRecords
<1>2. date \in Nat /\ date >= 1 /\ Dated \subseteq 1..date
  BY AttendanceAssumption DEF AttendanceInv, AttendanceTypeOK, Days
<1>3. last \in Nat /\ (Dated # {} => last \in Dated /\ \A d \in Dated : d <= last)
  <2>1. CASE Dated # {}
    <3>1. Dated \subseteq 0..date
      BY <1>2
    <3>2. Max(Dated) \in Dated /\ \A d \in Dated : d <= Max(Dated)
      BY <1>2, <2>1, <3>1, Largest
    <3>3. last = Max(Dated)
      BY <2>1 DEF LastRecorded
    <3>4. \A d \in 1..date : d \in Nat
      BY <1>2
    <3> HIDE DEF last
    <3>5. last \in Nat
      BY <1>2, <3>2, <3>3, <3>4
    <3> QED BY <3>2, <3>3, <3>5
  <2>2. CASE Dated = {} /\ PunchedDays # {}
    <3>1. \A p \in Punches : p[1] \in Nat \ {0}
      BY AttendanceAssumption DEF Punches, Days
    <3>2. PunchedDays \subseteq Nat \ {0}
      BY <3>1 DEF PunchedDays, AttendanceInv, AttendanceTypeOK
    <3>3. Min(PunchedDays) \in Nat \ {0}
      BY <2>2, <3>2, Smallest
    <3> QED BY <2>2, <3>3 DEF LastRecorded
  <2>3. CASE Dated = {} /\ PunchedDays = {}
    BY <1>2, <2>3 DEF LastRecorded
  <2> QED BY <2>1, <2>2, <2>3
<1> HIDE DEF last
<1>4. new \cap Dated = {} /\ new \subseteq 1..date
  BY <1>2, <1>3
<1>5. Dated' = Dated \cup new
  BY <1>1 DEF Dated
<1>6. Consecutive'
  <2>1. CASE Dated = {}
    <3>1. Dated' = last + 1..date
      BY <1>5, <2>1
    <3> QED BY <1>2, <1>3, <3>1 DEF Consecutive
  <2>2. CASE Dated # {}
    <3>1. PICK a \in Nat, b \in Nat : a <= b /\ Dated = a..b
      BY <2>2 DEF AttendanceInv, Consecutive
    <3>2. last = b
      BY <1>3, <2>2, <3>1
    <3>3. Dated' = a..date
      BY <1>2, <1>3, <1>5, <2>2, <3>1, <3>2
    <3>4. a <= date
      BY <1>2, <1>3, <2>2, <3>1, <3>2
    <3> QED BY <1>2, <3>1, <3>3, <3>4 DEF Consecutive
  <2> QED BY <2>1, <2>2
<1> HIDE DEF new
<1>7. \A d \in new : Created(d) \in Attendances /\ TakenFirst(d) \subseteq fetched
  BY CreatedRecord
<1>8. AttendanceTypeOK'
  <2>1. \A d \in Dated' : attendance'[d] \in Attendances
    BY <1>1, <1>5, <1>7 DEF AttendanceInv, AttendanceTypeOK
  <2>2. processed' \subseteq fetched'
    BY <1>1, <1>7 DEF AttendanceInv, AttendanceTypeOK
  <2>3. cron' \in [phase : {"idle", "previous", "create"} \cup StatusPhases, days : SUBSET Dated']
    BY <1>1, <1>5 DEF StatusPhases, Idle
  <2>4. Dated' \subseteq 1..date'
    BY <1>1, <1>2, <1>4, <1>5
  <2>5. DOMAIN correction \subseteq Dated' /\ lost \subseteq Dated'
    BY <1>5 DEF AttendanceInv, AttendanceTypeOK
  <2> QED BY <1>1, <2>1, <2>2, <2>3, <2>4, <2>5 DEF AttendanceInv, AttendanceTypeOK
<1>9. NothingLeft'
  BY <1>1 DEF NothingLeft, StatusPhases, Idle
<1>10. \A d \in Dated : attendance'[d] = attendance[d]
  BY <1>1, <1>4
<1>11. CorrectionStays'
  BY <1>1, <1>10 DEF AttendanceInv, AttendanceTypeOK, CorrectionStays
<1>12. StatusFollows'
  <2>1. cron.days = {}
    BY <1>1 DEF AttendanceInv, NothingLeft, StatusPhases
  <2>2. cron'.days = new
    BY <1>1 DEF Idle
  <2> SUFFICES ASSUME NEW d \in Dated', d \notin new, d \notin lost
               PROVE  attendance'[d].status = StatusOf(attendance'[d])
    BY <1>1, <2>2 DEF StatusFollows, StatusOf
  <2>3. d \in Dated /\ attendance'[d] = attendance[d]
    BY <1>5, <1>10
  <2> QED BY <2>1, <2>3 DEF AttendanceInv, StatusFollows
<1> QED BY <1>6, <1>8, <1>9, <1>11, <1>12 DEF AttendanceInv

\* The job stores the status of the days it has touched.
LEMMA StatusRecomputed == ASSUME AttendanceInv, RecomputeStatus PROVE AttendanceInv'
<1>1. /\ attendance' = [d \in Dated |-> IF d \in cron.days THEN WithStatus(attendance[d]) ELSE attendance[d]]
      /\ cron' = IF cron.phase = "status of new" THEN Idle ELSE [phase |-> "create", days |-> {}]
      /\ UNCHANGED <<offDays, date, clock, punched, fetched, processed, lost, correction>>
  BY DEF RecomputeStatus
<1>2. Dated' = Dated
  BY <1>1 DEF Dated
<1>3. cron'.days = {} /\ cron'.phase \in {"idle", "create"}
      /\ cron' \in [phase : {"idle", "previous", "create"} \cup StatusPhases, days : SUBSET Dated']
  BY <1>1 DEF Idle
<1>4. \A d \in Dated : /\ attendance[d] \in Attendances
                       /\ WithStatus(attendance[d]) \in Attendances
                       /\ WithStatus(attendance[d]).in = attendance[d].in
                       /\ WithStatus(attendance[d]).out = attendance[d].out
                       /\ WithStatus(attendance[d]).status = StatusOf(WithStatus(attendance[d]))
  BY StoredStatus DEF AttendanceInv, AttendanceTypeOK
<1>5. AttendanceTypeOK'
  <2>1. \A d \in Dated : attendance'[d] \in Attendances
    BY <1>1, <1>4
  <2> QED BY <1>1, <1>2, <1>3, <2>1 DEF AttendanceInv, AttendanceTypeOK
<1>6. NothingLeft' /\ Consecutive'
  BY <1>2, <1>3 DEF AttendanceInv, NothingLeft, Consecutive
<1>7. CorrectionStays'
  <2>1. \A d \in Dated : attendance'[d].in = attendance[d].in /\ attendance'[d].out = attendance[d].out
    BY <1>1, <1>4
  <2> QED BY <1>1, <2>1 DEF AttendanceInv, AttendanceTypeOK, CorrectionStays
<1>8. StatusFollows'
  <2> SUFFICES ASSUME NEW d \in Dated, d \notin lost
               PROVE  attendance'[d].status = StatusOf(attendance'[d])
    BY <1>1, <1>2 DEF StatusFollows, StatusOf
  <2>1. CASE d \in cron.days
    <3>1. attendance'[d] = WithStatus(attendance[d])
      BY <1>1, <2>1
    <3> QED BY <1>4, <3>1
  <2>2. CASE d \notin cron.days
    <3>1. attendance'[d] = attendance[d]
      BY <1>1, <2>2
    <3> QED BY <2>2, <3>1 DEF AttendanceInv, StatusFollows
  <2> QED BY <2>1, <2>2
<1> QED BY <1>5, <1>6, <1>7, <1>8 DEF AttendanceInv

\* The status of one day is stored again.
LEMMA DayRecomputed == ASSUME AttendanceInv, NEW d \in Days, RecomputeDay(d) PROVE AttendanceInv'
<1>1. /\ attendance' = [attendance EXCEPT ![d] = WithStatus(@)] /\ lost' = lost \ {d} /\ d \in Dated
      /\ UNCHANGED <<offDays, date, clock, punched, fetched, processed, cron, correction>>
  BY DEF RecomputeDay
<1>2. Dated' = Dated /\ attendance'[d] = WithStatus(attendance[d])
      /\ \A e \in Dated \ {d} : attendance'[e] = attendance[e]
  BY <1>1 DEF Dated
<1>3. /\ WithStatus(attendance[d]) \in Attendances
      /\ WithStatus(attendance[d]).in = attendance[d].in
      /\ WithStatus(attendance[d]).out = attendance[d].out
      /\ WithStatus(attendance[d]).status = StatusOf(WithStatus(attendance[d]))
  BY <1>1, StoredStatus DEF AttendanceInv, AttendanceTypeOK
<1>4. AttendanceTypeOK'
  <2>1. \A e \in Dated : attendance'[e] \in Attendances
    BY <1>2, <1>3 DEF AttendanceInv, AttendanceTypeOK
  <2> QED BY <1>1, <1>2, <2>1 DEF AttendanceInv, AttendanceTypeOK
<1>5. CorrectionStays'
  <2>1. \A e \in Dated : attendance'[e].in = attendance[e].in /\ attendance'[e].out = attendance[e].out
    BY <1>2, <1>3
  <2> QED BY <1>1, <2>1 DEF AttendanceInv, AttendanceTypeOK, CorrectionStays
<1>6. StatusFollows'
  <2> SUFFICES ASSUME NEW e \in Dated, e \notin cron.days, e \notin lost'
               PROVE  attendance'[e].status = StatusOf(attendance'[e])
    BY <1>1, <1>2 DEF StatusFollows, StatusOf
  <2>1. CASE e = d
    BY <1>2, <1>3, <2>1
  <2>2. CASE e # d
    <3>1. attendance'[e] = attendance[e] /\ e \notin lost
      BY <1>1, <1>2, <2>2
    <3> QED BY <3>1 DEF AttendanceInv, StatusFollows
  <2> QED BY <2>1, <2>2
<1>7. NothingLeft' /\ Consecutive'
  BY <1>1, <1>2 DEF AttendanceInv, NothingLeft, Consecutive
<1> QED BY <1>4, <1>5, <1>6, <1>7 DEF AttendanceInv

\* Asking, validating by the manager and rejecting do not touch the records.
LEMMA CorrectionAsked ==
    ASSUME AttendanceInv, NEW d,
           \/ \E c \in Corrections : Ask(d, c)
           \/ d \in DOMAIN correction /\ (ValidateRequestManager(d) \/ RejectCorrection(d))
    PROVE  AttendanceInv'
<1>1. UNCHANGED <<offDays, date, clock, punched, fetched, processed, attendance, cron, lost>> /\ Dated' = Dated
  BY DEF Ask, ValidateRequestManager, RejectCorrection, Dated
<1>2. /\ DOMAIN correction' \subseteq Dated
      /\ \A e \in DOMAIN correction' :
            /\ correction'[e] \in Requests
            /\ correction'[e].applied => e \in DOMAIN correction /\ correction[e].applied
                                         /\ correction'[e].asked = correction[e].asked
  <2>1. DOMAIN correction \subseteq Dated /\ \A e \in DOMAIN correction : correction[e] \in Requests
    BY DEF AttendanceInv, AttendanceTypeOK
  <2>2. CASE \E c \in Corrections : Ask(d, c)
    <3>1. PICK c \in Corrections : Ask(d, c)
      BY <2>2
    <3> DEFINE r == [state |-> "first", asked |-> c, shown |-> FALSE, applied |-> FALSE]
    <3>2. r \in Requests /\ ~r.applied
      BY DEF Requests
    <3> HIDE DEF r
    <3>3. correction' = [e \in DOMAIN correction \cup {d} |-> IF e = d THEN r ELSE correction[e]] /\ d \in Dated
      BY <3>1 DEF Ask, r
    <3>4. DOMAIN correction' = DOMAIN correction \cup {d} /\ correction'[d] = r
          /\ \A e \in DOMAIN correction : e # d => correction'[e] = correction[e]
      BY <3>3
    <3> QED BY <2>1, <3>2, <3>3, <3>4
  <2>3. CASE d \in DOMAIN correction /\ ValidateRequestManager(d)
    <3> DEFINE r == correction[d]
    <3> HIDE DEF r
    <3>1. correction' = [correction EXCEPT ![d] = [r EXCEPT !.state = "second", !.shown = TRUE]]
      BY <2>3 DEF ValidateRequestManager, r
    <3>2. r \in Requests
      BY <2>1, <2>3 DEF r
    <3>3. [r EXCEPT !.state = "second", !.shown = TRUE] \in Requests
          /\ [r EXCEPT !.state = "second", !.shown = TRUE].applied = r.applied
          /\ [r EXCEPT !.state = "second", !.shown = TRUE].asked = r.asked
      BY <3>2 DEF Requests
    <3> QED BY <2>1, <2>3, <3>1, <3>3 DEF r
  <2>4. CASE d \in DOMAIN correction /\ RejectCorrection(d)
    <3> DEFINE r == correction[d]
    <3> HIDE DEF r
    <3>1. correction' = [correction EXCEPT ![d] = [r EXCEPT !.state = "rejected"]]
      BY <2>4 DEF RejectCorrection, r
    <3>2. r \in Requests
      BY <2>1, <2>4 DEF r
    <3>3. [r EXCEPT !.state = "rejected"] \in Requests
          /\ [r EXCEPT !.state = "rejected"].applied = r.applied
          /\ [r EXCEPT !.state = "rejected"].asked = r.asked
      BY <3>2 DEF Requests
    <3> QED BY <2>1, <2>4, <3>1, <3>3 DEF r
  <2> QED BY <2>2, <2>3, <2>4
<1>3. AttendanceTypeOK'
  BY <1>1, <1>2 DEF AttendanceInv, AttendanceTypeOK
<1>4. CorrectionStays'
  BY <1>1, <1>2 DEF AttendanceInv, CorrectionStays
<1>5. StatusFollows' /\ NothingLeft' /\ Consecutive'
  BY <1>1 DEF AttendanceInv, StatusFollows, StatusOf, NothingLeft, Consecutive
<1> QED BY <1>3, <1>4, <1>5 DEF AttendanceInv

\* The correction is written with its status.
LEMMA Corrected == ASSUME AttendanceInv, NEW d \in DOMAIN correction, ValidateRequestHr(d) PROVE AttendanceInv'
<1> DEFINE a == attendance[d]  r == correction[d]
           b == [a EXCEPT !.in = r.asked.in, !.out = r.asked.out]
<1>1. a \in Attendances /\ r \in Requests /\ d \in Dated
  BY DEF AttendanceInv, AttendanceTypeOK
<1>2. /\ attendance' = [attendance EXCEPT ![d] = WithStatus(b)] /\ lost' = lost \ {d}
      /\ correction' = [correction EXCEPT ![d] = [r EXCEPT !.state = "done", !.applied = TRUE]]
      /\ UNCHANGED <<offDays, date, clock, punched, fetched, processed, cron>>
  BY DEF ValidateRequestHr
<1>3. r.asked.in \in Times /\ r.asked.out \in Times
  BY <1>1, AttendanceAssumption DEF Requests
<1>4. d \in DOMAIN attendance
  BY <1>1 DEF Dated
<1> HIDE DEF a, r
<1>5. b \in Attendances /\ b.in = r.asked.in /\ b.out = r.asked.out
  BY <1>1, <1>3 DEF Attendances
<1>6. [r EXCEPT !.state = "done", !.applied = TRUE] \in Requests
      /\ [r EXCEPT !.state = "done", !.applied = TRUE].asked = r.asked
  BY <1>1 DEF Requests
<1> HIDE DEF b
<1>7. /\ WithStatus(b) \in Attendances /\ WithStatus(b).in = r.asked.in /\ WithStatus(b).out = r.asked.out
      /\ WithStatus(b).status = StatusOf(WithStatus(b))
  BY <1>5, StoredStatus
<1>8. Dated' = Dated /\ attendance'[d] = WithStatus(b) /\ \A e \in Dated \ {d} : attendance'[e] = attendance[e]
  BY <1>2, <1>4 DEF Dated
<1>9. /\ DOMAIN correction' = DOMAIN correction
      /\ correction'[d] = [r EXCEPT !.state = "done", !.applied = TRUE]
      /\ \A e \in DOMAIN correction : e # d => correction'[e] = correction[e]
  BY <1>2
<1>10. AttendanceTypeOK'
  <2>1. \A e \in Dated : attendance'[e] \in Attendances
    BY <1>7, <1>8 DEF AttendanceInv, AttendanceTypeOK
  <2>2. \A e \in DOMAIN correction : correction'[e] \in Requests
    BY <1>6, <1>9 DEF AttendanceInv, AttendanceTypeOK
  <2> QED BY <1>2, <1>8, <1>9, <2>1, <2>2 DEF AttendanceInv, AttendanceTypeOK
<1>11. CorrectionStays'
  <2> SUFFICES ASSUME NEW e \in DOMAIN correction, correction'[e].applied
               PROVE  /\ attendance'[e].in = correction'[e].asked.in
                      /\ attendance'[e].out = correction'[e].asked.out
    BY <1>9 DEF CorrectionStays
  <2>1. CASE e = d
    BY <1>6, <1>7, <1>8, <1>9, <2>1
  <2>2. CASE e # d
    <3>1. e \in Dated
      BY DEF AttendanceInv, AttendanceTypeOK
    <3>2. correction'[e] = correction[e] /\ attendance'[e] = attendance[e]
      BY <1>8, <1>9, <2>2, <3>1
    <3> QED BY <3>2 DEF AttendanceInv, CorrectionStays
  <2> QED BY <2>1, <2>2
<1>12. StatusFollows'
  <2> SUFFICES ASSUME NEW e \in Dated, e \notin cron.days, e \notin lost'
               PROVE  attendance'[e].status = StatusOf(attendance'[e])
    BY <1>2, <1>8 DEF StatusFollows, StatusOf
  <2>1. CASE e = d
    BY <1>7, <1>8, <2>1
  <2>2. CASE e # d
    <3>1. attendance'[e] = attendance[e] /\ e \notin lost
      BY <1>2, <1>8, <2>2
    <3> QED BY <3>1 DEF AttendanceInv, StatusFollows
  <2> QED BY <2>1, <2>2
<1>13. NothingLeft' /\ Consecutive'
  BY <1>2, <1>8 DEF AttendanceInv, NothingLeft, Consecutive
<1> QED BY <1>10, <1>11, <1>12, <1>13 DEF AttendanceInv

\* Every step keeps the invariant.
LEMMA AttendanceInductive == AttendanceInv /\ [AttendanceNext]_attendanceVars => AttendanceInv'
<1> SUFFICES ASSUME AttendanceInv, [AttendanceNext]_attendanceVars PROVE AttendanceInv'
  OBVIOUS
<1>1. CASE Pass \/ (\E t \in Times : Punch(t)) \/ DownloadAttendance \/ StartProcessing
           \/ UNCHANGED attendanceVars
  BY <1>1, Outside
<1>2. CASE ProcessPrevious
  BY <1>2, PreviousProcessed
<1>3. CASE CreateRecords
  BY <1>3, RecordsCreated
<1>4. CASE RecomputeStatus
  BY <1>4, StatusRecomputed
<1>5. CASE Crash
  BY <1>5, Interrupted
<1>6. CASE \E d \in Days : RecomputeDay(d)
  BY <1>6, DayRecomputed
<1>7. CASE \E d \in Days : \E c \in Corrections : Ask(d, c)
  BY <1>7, CorrectionAsked
<1>8. CASE \E d \in DOMAIN correction : ValidateRequestManager(d) \/ RejectCorrection(d)
  BY <1>8, CorrectionAsked
<1>9. CASE \E d \in DOMAIN correction : ValidateRequestHr(d)
  BY <1>9, Corrected
<1> QED BY <1>1, <1>2, <1>3, <1>4, <1>5, <1>6, <1>7, <1>8, <1>9 DEF AttendanceNext, AttendanceCron

\* The invariant holds always.
LEMMA AttendanceInvariance == AttendanceSpec => []AttendanceInv
BY AttendanceInitially, AttendanceInductive, PTL DEF AttendanceSpec

\* The variables keep their types: a record takes only punches that were
\* fetched, and only days with a record have a change request.
THEOREM AttendanceTypes == AttendanceSpec => []AttendanceTypeOK
<1>1. AttendanceInv => AttendanceTypeOK
  BY DEF AttendanceInv
<1> QED BY <1>1, AttendanceInvariance, PTL

\* What HR validated stays on the record, whatever is fetched and processed
\* afterwards and wherever the job is cut off.
THEOREM CorrectionsStay == AttendanceSpec => []CorrectionStays
<1>1. AttendanceInv => CorrectionStays
  BY DEF AttendanceInv
<1> QED BY <1>1, AttendanceInvariance, PTL

\* The stored status is that of the record's times, but for the days the job
\* has under way or a crash has lost.
THEOREM StatusIsCurrent == AttendanceSpec => []StatusFollows
<1>1. AttendanceInv => StatusFollows
  BY DEF AttendanceInv
<1> QED BY <1>1, AttendanceInvariance, PTL
-----------------------------------------------------------------------------
(***************************************************************************)
(* No day that a leave pays for by then is deducted, and no leave is taken *)
(* at once for a day that has been corrected: for any number of days and   *)
(* of leaves.                                                              *)
(*                                                                         *)
(* Why: a day that is absent and covered by a validated leave is marked,   *)
(* whichever of the two came first; and the row of the day that is being   *)
(* booked is absent as long as nobody else has written it.                 *)
(***************************************************************************)

LeaveRows == [from : AllDays, to : AllDays, state : {"confirm", "validate", "refuse"}]
DayStatuses == {"no record", "open", "absent", "present", "off_day"}

AbsenceColumns ==
    /\ day \in [AllDays -> DayStatuses]
    /\ onLeave \subseteq {d \in AllDays : day[d] # "no record"} /\ deducted \subseteq AllDays
    /\ booking \in [todo : SUBSET AllDays, at : AllDays \cup {0}, fresh : BOOLEAN]

\* The leaves are numbered.
LeavesNumbered == /\ \E n \in Nat : DOMAIN leaves = 1..n
            /\ \A l \in DOMAIN leaves : leaves[l] \in LeaveRows

AbsencesMarked == \A d \in AllDays : day[d] = "absent" /\ OnValidLeave(d) => d \in onLeave
BookedIsAbsent == booking.at # 0 /\ booking.fresh => day[booking.at] = "absent"

\* The inductive invariant.
AbsenceInv == AbsenceColumns /\ LeavesNumbered /\ AbsencesMarked /\ BookedIsAbsent
-----------------------------------------------------------------------------
(* The leaves *)

\* A numbered function has as many leaves as its last number.
LEMMA CountedLeaves ==
    ASSUME LeavesNumbered
    PROVE  /\ Cardinality(DOMAIN leaves) \in Nat
           /\ DOMAIN leaves = 1..Cardinality(DOMAIN leaves)
<1>1. PICK n \in Nat : DOMAIN leaves = 1..n
  BY DEF LeavesNumbered
<1>2. Cardinality(1..n) = n
  BY FS_Interval
<1> QED BY <1>1, <1>2

\* One more leave: the others stay.
LEMMA OneMoreDay ==
    ASSUME LeavesNumbered, NEW from \in AllDays, NEW to \in AllDays, NEW state \in {"confirm", "validate", "refuse"},
           leaves' = WithLeave(from, to, state)
    PROVE  /\ LeavesNumbered'
           /\ \A l \in DOMAIN leaves' : \/ l \in DOMAIN leaves /\ leaves'[l] = leaves[l]
                                        \/ leaves'[l] = [from |-> from, to |-> to, state |-> state]
<1> DEFINE n == Cardinality(DOMAIN leaves)
<1>1. n \in Nat /\ DOMAIN leaves = 1..n
  BY CountedLeaves
<1> HIDE DEF n
<1>2. leaves' = [l \in 1..n + 1 |-> IF l \in DOMAIN leaves THEN leaves[l] ELSE [from |-> from, to |-> to, state |-> state]]
  BY DEF WithLeave, n
<1>3. DOMAIN leaves' = 1..n + 1 /\ n + 1 \in Nat
  BY <1>1, <1>2
<1>4. [from |-> from, to |-> to, state |-> state] \in LeaveRows
  BY DEF LeaveRows
<1>5. \A l \in DOMAIN leaves' : leaves'[l] = IF l \in DOMAIN leaves THEN leaves[l] ELSE [from |-> from, to |-> to, state |-> state]
  BY <1>2
<1>6. \A l \in DOMAIN leaves' : leaves'[l] \in LeaveRows
  BY <1>4, <1>5 DEF LeavesNumbered
<1> QED BY <1>3, <1>5, <1>6 DEF LeavesNumbered

\* A leave that changes its state: nothing else changes.
LEMMA OtherState ==
    ASSUME LeavesNumbered, NEW l \in DOMAIN leaves, NEW state \in {"confirm", "validate", "refuse"},
           leaves' = [leaves EXCEPT ![l].state = state]
    PROVE  /\ LeavesNumbered' /\ DOMAIN leaves' = DOMAIN leaves
           /\ \A m \in DOMAIN leaves : /\ leaves'[m].from = leaves[m].from /\ leaves'[m].to = leaves[m].to
                                       /\ leaves'[m].state = IF m = l THEN state ELSE leaves[m].state
<1>1. \A m \in DOMAIN leaves : leaves[m] \in LeaveRows
  BY DEF LeavesNumbered
<1>2. DOMAIN leaves' = DOMAIN leaves
  OBVIOUS
<1>3. \A m \in DOMAIN leaves : leaves'[m] = IF m = l THEN [leaves[l] EXCEPT !.state = state] ELSE leaves[m]
  OBVIOUS
<1>4. /\ [leaves[l] EXCEPT !.state = state] \in LeaveRows
      /\ [leaves[l] EXCEPT !.state = state].from = leaves[l].from
      /\ [leaves[l] EXCEPT !.state = state].to = leaves[l].to
      /\ [leaves[l] EXCEPT !.state = state].state = state
  BY <1>1 DEF LeaveRows
<1>5. \A m \in DOMAIN leaves' : leaves'[m] \in LeaveRows
  BY <1>1, <1>2, <1>3, <1>4
<1>6. LeavesNumbered'
  BY <1>2, <1>5 DEF LeavesNumbered
<1> QED BY <1>2, <1>3, <1>4, <1>6
-----------------------------------------------------------------------------
(* The steps *)

\* The invariant holds at the start.
LEMMA AbsenceInitially == AbsenceInit => AbsenceInv
<1> SUFFICES ASSUME AbsenceInit PROVE AbsenceInv
  OBVIOUS
<1>1. day = [d \in AllDays |-> "no record"] /\ onLeave = {} /\ deducted = {} /\ booking = NoBooking
  BY DEF AbsenceInit
<1>2. DOMAIN leaves = {}
  BY DEF AbsenceInit
<1>3. AbsenceColumns
  BY <1>1 DEF AbsenceColumns, DayStatuses, NoBooking
<1>4. {} = 1..0
  OBVIOUS
<1>5. LeavesNumbered
  BY <1>2, <1>4 DEF LeavesNumbered
<1>6. AbsencesMarked /\ BookedIsAbsent
  BY <1>1 DEF AbsencesMarked, BookedIsAbsent, NoBooking
<1> QED BY <1>3, <1>5, <1>6 DEF AbsenceInv

\* What Touched makes of the booking.
LEMMA TouchedBooking ==
    ASSUME AbsenceColumns, NEW days, booking' = Touched(days)
    PROVE  /\ booking' \in [todo : SUBSET AllDays, at : AllDays \cup {0}, fresh : BOOLEAN]
           /\ booking'.at = booking.at
           /\ booking'.fresh => booking.fresh /\ booking.at \notin days
BY DEF AbsenceColumns, Touched

\* A day that is recorded as absent is marked if a leave covers it.
LEMMA RecordKeeps == ASSUME AbsenceInv, NEW d \in AllDays, RecordDay(d) PROVE AbsenceInv'
<1> USE DEF AbsenceInv
<1>1. /\ day[d] = "no record" /\ day' = [day EXCEPT ![d] = "open"]
      /\ UNCHANGED <<onLeave, leaves, booking, deducted>>
  BY DEF RecordDay
<1>2. day' \in [AllDays -> DayStatuses] /\ \A e \in AllDays : day'[e] = IF e = d THEN "open" ELSE day[e]
  BY <1>1 DEF AbsenceColumns, DayStatuses
<1>3. AbsenceColumns'
  BY <1>1, <1>2 DEF AbsenceColumns
<1>4. LeavesNumbered'
  BY <1>1 DEF LeavesNumbered
<1>5. AbsencesMarked'
  BY <1>1, <1>2 DEF AbsencesMarked, OnValidLeave, Covers
<1>6. BookedIsAbsent'
  BY <1>1, <1>2 DEF BookedIsAbsent, AbsenceColumns
<1> QED BY <1>3, <1>4, <1>5, <1>6

\* A status that is stored is followed by the mark.
LEMMA StatusKeeps ==
    ASSUME AbsenceInv, NEW d \in AllDays, NEW status \in {"absent", "present", "off_day"}, StoreStatus(d, status)
    PROVE  AbsenceInv'
<1> USE DEF AbsenceInv
<1>1. /\ day[d] \in {"open", "absent"} /\ day' = [day EXCEPT ![d] = status]
      /\ onLeave' = onLeave \cup {e \in {d} : OnValidLeave(e)}
      /\ booking' = Touched({d}) /\ UNCHANGED <<leaves, deducted>>
  BY DEF StoreStatus
<1>2. day' \in [AllDays -> DayStatuses] /\ \A e \in AllDays : day'[e] = IF e = d THEN status ELSE day[e]
  BY <1>1 DEF AbsenceColumns, DayStatuses
<1>3. AbsenceColumns'
  BY <1>1, <1>2, TouchedBooking DEF AbsenceColumns
<1>4. LeavesNumbered'
  BY <1>1 DEF LeavesNumbered
<1>5. \A e \in AllDays : OnValidLeave(e)' <=> OnValidLeave(e)
  BY <1>1 DEF OnValidLeave, Covers
<1>6. AbsencesMarked'
  BY <1>1, <1>2, <1>5 DEF AbsencesMarked
<1>7. BookedIsAbsent'
  <2>1. booking'.at = booking.at /\ (booking'.fresh => booking.fresh /\ booking.at # d)
    BY <1>1, TouchedBooking
  <2> QED BY <1>2, <2>1 DEF BookedIsAbsent, AbsenceColumns
<1> QED BY <1>3, <1>4, <1>6, <1>7

\* A leave that is asked for covers no day yet.
LEMMA AskKeeps ==
    ASSUME AbsenceInv, NEW from \in AllDays, NEW to \in AllDays, AskLeave(from, to)
    PROVE  AbsenceInv'
<1> USE DEF AbsenceInv
<1>1. leaves' = WithLeave(from, to, "confirm") /\ UNCHANGED <<day, onLeave, booking, deducted>>
  BY DEF AskLeave
<1>2. /\ LeavesNumbered'
      /\ \A l \in DOMAIN leaves' : leaves'[l].state = "validate" => l \in DOMAIN leaves /\ leaves'[l] = leaves[l]
  <2>1. [from |-> from, to |-> to, state |-> "confirm"].state # "validate"
    OBVIOUS
  <2> QED BY <1>1, <2>1, OneMoreDay
<1>3. \A d \in AllDays : OnValidLeave(d)' => OnValidLeave(d)
  BY <1>2 DEF OnValidLeave, Covers
<1> QED BY <1>1, <1>2, <1>3 DEF AbsenceColumns, AbsencesMarked, BookedIsAbsent

\* A leave that is approved marks the absences it covers.
LEMMA ApproveKeeps == ASSUME AbsenceInv, NEW l \in DOMAIN leaves, ApproveLeave(l) PROVE AbsenceInv'
<1> USE DEF AbsenceInv
<1> DEFINE rows == {d \in Marked(l) : day[d] # "no record"}
<1>1. /\ onLeave' = onLeave \cup rows /\ booking' = Touched(rows)
      /\ leaves' = [leaves EXCEPT ![l].state = "validate"] /\ UNCHANGED <<day, deducted>>
  BY DEF ApproveLeave
<1>2. rows = {d \in AllDays : Covers(l, d) /\ day[d] # "no record"}
  BY DEF Marked
<1> HIDE DEF rows
<1>3. AbsenceColumns'
  BY <1>1, <1>2, TouchedBooking DEF AbsenceColumns
<1>4. /\ LeavesNumbered' /\ DOMAIN leaves' = DOMAIN leaves
      /\ \A m \in DOMAIN leaves : /\ leaves'[m].from = leaves[m].from /\ leaves'[m].to = leaves[m].to
                                  /\ leaves'[m].state = IF m = l THEN "validate" ELSE leaves[m].state
  BY <1>1, OtherState
<1>5. \A d \in AllDays : OnValidLeave(d)' => OnValidLeave(d) \/ Covers(l, d)
  BY <1>4 DEF OnValidLeave, Covers
<1>6. AbsencesMarked'
  BY <1>1, <1>2, <1>5 DEF AbsencesMarked
<1>7. BookedIsAbsent'
  BY <1>1, TouchedBooking DEF BookedIsAbsent
<1> QED BY <1>3, <1>4, <1>6, <1>7

\* A leave that is refused covers less.
LEMMA RefuseKeeps == ASSUME AbsenceInv, NEW l \in DOMAIN leaves, RefuseLeave(l) PROVE AbsenceInv'
<1> USE DEF AbsenceInv
<1>1. leaves' = [leaves EXCEPT ![l].state = "refuse"] /\ UNCHANGED <<day, onLeave, booking, deducted>>
  BY DEF RefuseLeave
<1>2. /\ LeavesNumbered' /\ DOMAIN leaves' = DOMAIN leaves
      /\ \A m \in DOMAIN leaves : /\ leaves'[m].from = leaves[m].from /\ leaves'[m].to = leaves[m].to
                                  /\ leaves'[m].state = IF m = l THEN "refuse" ELSE leaves[m].state
  BY <1>1, OtherState
<1>3. \A d \in AllDays : OnValidLeave(d)' => OnValidLeave(d)
  BY <1>2 DEF OnValidLeave, Covers
<1> QED BY <1>1, <1>2, <1>3 DEF AbsenceColumns, AbsencesMarked, BookedIsAbsent

\* The job looks at a day.
LEMMA LookKeeps == ASSUME AbsenceInv, NEW d \in AllDays, LookAtDay(d) PROVE AbsenceInv'
<1> USE DEF AbsenceInv
<1>1. /\ booking' = [todo |-> booking.todo \ {d}, at |-> IF Due(d) THEN d ELSE 0, fresh |-> TRUE]
      /\ UNCHANGED <<day, onLeave, leaves, deducted>>
  BY DEF LookAtDay
<1>2. AbsenceColumns'
  BY <1>1 DEF AbsenceColumns
<1>3. booking'.at # 0 => booking'.at = d /\ day[d] = "absent"
  BY <1>1 DEF Due
<1> QED BY <1>1, <1>2, <1>3 DEF LeavesNumbered, AbsencesMarked, OnValidLeave, Covers, BookedIsAbsent

\* The job books a leave for the day it looked at.
LEMMA BookKeeps == ASSUME AbsenceInv, BookLeave PROVE AbsenceInv'
<1> USE DEF AbsenceInv
<1>1. /\ booking.at # 0 /\ booking' = [booking EXCEPT !.at = 0] /\ UNCHANGED <<day, deducted>>
      /\ \/ UNCHANGED <<leaves, onLeave>>
         \/ /\ booking.fresh /\ leaves' = WithLeave(booking.at, booking.at, "validate")
            /\ onLeave' = onLeave \cup {booking.at}
         \/ leaves' = WithLeave(booking.at, booking.at, "confirm") /\ UNCHANGED onLeave
  BY DEF BookLeave
<1>2. booking.at \in AllDays /\ booking'.at = 0
  BY <1>1 DEF AbsenceColumns
<1>3. booking' \in [todo : SUBSET AllDays, at : AllDays \cup {0}, fresh : BOOLEAN]
  BY <1>1 DEF AbsenceColumns
<1>4. BookedIsAbsent'
  BY <1>2 DEF BookedIsAbsent
<1>5. CASE UNCHANGED <<leaves, onLeave>>
  BY <1>1, <1>3, <1>4, <1>5 DEF AbsenceColumns, LeavesNumbered, AbsencesMarked, OnValidLeave, Covers
<1>6. CASE /\ booking.fresh /\ leaves' = WithLeave(booking.at, booking.at, "validate")
           /\ onLeave' = onLeave \cup {booking.at}
  <2>1. day[booking.at] = "absent"
    BY <1>1, <1>6 DEF BookedIsAbsent
  <2>2. AbsenceColumns'
    BY <1>1, <1>2, <1>3, <1>6, <2>1 DEF AbsenceColumns
  <2>3. /\ LeavesNumbered'
        /\ \A l \in DOMAIN leaves' : \/ l \in DOMAIN leaves /\ leaves'[l] = leaves[l]
                                     \/ leaves'[l] = [from |-> booking.at, to |-> booking.at, state |-> "validate"]
    BY <1>2, <1>6, OneMoreDay
  <2>4. \A d \in AllDays : OnValidLeave(d)' => OnValidLeave(d) \/ d = booking.at
    BY <1>2, <2>3, AbsenceAssumption DEF OnValidLeave, Covers, AllDays
  <2>5. AbsencesMarked'
    BY <1>1, <1>6, <2>4 DEF AbsencesMarked
  <2> QED BY <1>4, <2>2, <2>3, <2>5
<1>7. CASE leaves' = WithLeave(booking.at, booking.at, "confirm") /\ UNCHANGED onLeave
  <2>1. /\ LeavesNumbered'
        /\ \A l \in DOMAIN leaves' : leaves'[l].state = "validate" => l \in DOMAIN leaves /\ leaves'[l] = leaves[l]
    <3>1. [from |-> booking.at, to |-> booking.at, state |-> "confirm"].state # "validate"
      OBVIOUS
    <3> QED BY <1>2, <1>7, <3>1, OneMoreDay
  <2>2. \A d \in AllDays : OnValidLeave(d)' => OnValidLeave(d)
    BY <2>1 DEF OnValidLeave, Covers
  <2> QED BY <1>1, <1>3, <1>4, <1>7, <2>1, <2>2 DEF AbsenceColumns, AbsencesMarked
<1> QED BY <1>1, <1>5, <1>6, <1>7

\* StartBooking, EndBooking and the payslip change no leave and no day.
LEMMA ListsKeep ==
    ASSUME AbsenceInv, StartBooking \/ EndBooking \/ CountAbsences
    PROVE  AbsenceInv'
<1> USE DEF AbsenceInv
<1>1. UNCHANGED <<day, leaves>>
  BY DEF StartBooking, EndBooking, CountAbsences
<1>2. LeavesNumbered' /\ \A d \in AllDays : OnValidLeave(d)' <=> OnValidLeave(d)
  BY <1>1 DEF LeavesNumbered, OnValidLeave, Covers
<1>3. CASE StartBooking \/ EndBooking
  <2>1. UNCHANGED <<onLeave, deducted>>
    BY <1>3 DEF StartBooking, EndBooking
  <2>2. booking'.at = 0 /\ booking' \in [todo : SUBSET AllDays, at : AllDays \cup {0}, fresh : BOOLEAN]
    <3>1. PICK todo \in SUBSET AllDays : booking' = [todo |-> todo, at |-> 0, fresh |-> TRUE]
      <4>1. CASE StartBooking
        <5>1. booking' = [todo |-> {d \in AllDays : day[d] = "absent" /\ d \notin onLeave}, at |-> 0, fresh |-> TRUE]
          BY <4>1 DEF StartBooking, NoBooking
        <5> QED BY <5>1
      <4>2. CASE EndBooking
        BY <4>2 DEF EndBooking, NoBooking
      <4> QED BY <1>3, <4>1, <4>2
    <3> QED BY <3>1
  <2> QED BY <1>1, <1>2, <2>1, <2>2 DEF AbsenceColumns, AbsencesMarked, BookedIsAbsent
<1>4. CASE CountAbsences
  <2> DEFINE found == {d \in {d \in AllDays : day[d] \in {"absent", "present"}} \ onLeave :
                          \E l \in DOMAIN leaves : leaves[l] = [from |-> d, to |-> d, state |-> "validate"]}
  <2>1. /\ onLeave' = onLeave \cup found /\ booking' = Touched(found)
        /\ deducted' = {d \in AllDays : day[d] = "absent"} \ onLeave'
    BY <1>4 DEF CountAbsences
  <2>2. found \subseteq {d \in AllDays : day[d] # "no record"}
    OBVIOUS
  <2> HIDE DEF found
  <2>3. AbsenceColumns'
    BY <1>1, <2>1, <2>2, TouchedBooking DEF AbsenceColumns
  <2>4. AbsencesMarked'
    BY <1>1, <1>2, <2>1 DEF AbsencesMarked
  <2>5. BookedIsAbsent'
    BY <1>1, <2>1, TouchedBooking DEF BookedIsAbsent
  <2> QED BY <1>2, <2>3, <2>4, <2>5
<1> QED BY <1>3, <1>4

\* Every step keeps the invariant.
LEMMA AbsenceInductive == AbsenceInv /\ [AbsenceNext]_absenceVars => AbsenceInv'
<1> SUFFICES ASSUME AbsenceInv, [AbsenceNext]_absenceVars PROVE AbsenceInv'
  OBVIOUS
<1>1. ASSUME NEW d \in AllDays, RecordDay(d) PROVE AbsenceInv'
  BY <1>1, RecordKeeps
<1>2. ASSUME NEW d \in AllDays, LookAtDay(d) PROVE AbsenceInv'
  BY <1>2, LookKeeps
<1>3. ASSUME NEW d \in AllDays, NEW status \in {"absent", "present", "off_day"}, StoreStatus(d, status) PROVE AbsenceInv'
  BY <1>3, StatusKeeps
<1>4. ASSUME NEW d \in AllDays, NEW e \in AllDays, AskLeave(d, e) PROVE AbsenceInv'
  BY <1>4, AskKeeps
<1>5. ASSUME NEW l \in DOMAIN leaves, ApproveLeave(l) PROVE AbsenceInv'
  BY <1>5, ApproveKeeps
<1>6. ASSUME NEW l \in DOMAIN leaves, RefuseLeave(l) PROVE AbsenceInv'
  BY <1>6, RefuseKeeps
<1>7. CASE StartBooking \/ EndBooking \/ CountAbsences
  BY <1>7, ListsKeep
<1>8. CASE BookLeave
  BY <1>8, BookKeeps
<1>9. CASE UNCHANGED absenceVars
  BY <1>9 DEF absenceVars, AbsenceInv, AbsenceColumns, LeavesNumbered, AbsencesMarked, OnValidLeave, Covers, BookedIsAbsent
<1> QED BY <1>1, <1>2, <1>3, <1>4, <1>5, <1>6, <1>7, <1>8, <1>9 DEF AbsenceNext

\* The invariant of the absences holds always.
LEMMA AbsenceInvariant == AbsenceSpec => []AbsenceInv
BY AbsenceInitially, AbsenceInductive, PTL DEF AbsenceSpec
-----------------------------------------------------------------------------
\* The types, for any number of days and leaves.
THEOREM AbsenceTypes == AbsenceSpec => []AbsenceTypeOK
<1>1. AbsenceInv => AbsenceTypeOK
  <2> SUFFICES ASSUME AbsenceInv PROVE AbsenceTypeOK
    OBVIOUS
  <2>1. DOMAIN leaves = 1..Cardinality(DOMAIN leaves)
    BY CountedLeaves DEF AbsenceInv
  <2> QED BY <2>1 DEF AbsenceInv, AbsenceColumns, DayStatuses, LeavesNumbered, LeaveRows, AbsenceTypeOK
<1> QED BY <1>1, AbsenceInvariant, PTL

\* The payslip counts no day that a leave validated by then covers.
THEOREM LeavesAreNotDeducted == AbsenceSpec => LeaveIsNotDeducted
<1> DEFINE Spared == deducted' # deducted => \A d \in deducted' : ~OnValidLeave(d)
<1>1. AbsenceInv /\ [AbsenceNext]_absenceVars => [Spared]_absenceVars
  <2> SUFFICES ASSUME AbsenceInv, AbsenceNext, deducted' # deducted, NEW d \in deducted', OnValidLeave(d)
               PROVE  FALSE
    OBVIOUS
  <2>1. CountAbsences
    BY DEF AbsenceNext, RecordDay, LookAtDay, StoreStatus, AskLeave, ApproveLeave, RefuseLeave,
           StartBooking, BookLeave, EndBooking
  <2>2. d \in AllDays /\ day[d] = "absent" /\ d \notin onLeave' /\ onLeave \subseteq onLeave'
    BY <2>1 DEF CountAbsences
  <2> QED BY <2>2 DEF AbsenceInv, AbsencesMarked
<1> QED BY <1>1, AbsenceInvariant, PTL DEF AbsenceSpec, LeaveIsNotDeducted

\* No leave is made and validated at once for a day that has been corrected.
THEOREM WorkedDays == AbsenceSpec => NoLeaveForWorkedDay
<1> DEFINE Worked == \A l \in DOMAIN leaves' \ DOMAIN leaves : leaves'[l].state = "validate" =>
                        \A d \in leaves'[l].from..leaves'[l].to : day[d] = "absent"
<1>1. AbsenceInv /\ [AbsenceNext]_absenceVars => [Worked]_absenceVars
  <2> SUFFICES ASSUME AbsenceInv, AbsenceNext, NEW l \in DOMAIN leaves' \ DOMAIN leaves,
                      leaves'[l].state = "validate", NEW d \in leaves'[l].from..leaves'[l].to
               PROVE  day[d] = "absent"
    OBVIOUS
  <2>1. LeavesNumbered
    BY DEF AbsenceInv
  <2>2. ASSUME NEW from \in AllDays, NEW to \in AllDays, leaves' = WithLeave(from, to, "confirm") PROVE FALSE
    <3>1. [from |-> from, to |-> to, state |-> "confirm"].state # "validate"
      OBVIOUS
    <3> QED BY <2>1, <2>2, <3>1, OneMoreDay
  <2>3. BookLeave
    <3>1. ASSUME NEW m \in DOMAIN leaves, ApproveLeave(m) \/ RefuseLeave(m) PROVE FALSE
      BY <3>1 DEF ApproveLeave, RefuseLeave
    <3>2. ASSUME NEW from \in AllDays, NEW to \in AllDays, AskLeave(from, to) PROVE FALSE
      BY <2>2, <3>2 DEF AskLeave
    <3> QED BY <3>1, <3>2 DEF AbsenceNext, RecordDay, LookAtDay, StoreStatus, StartBooking, EndBooking, CountAbsences
  <2>4. booking.at \in AllDays
    BY <2>3 DEF BookLeave, AbsenceInv, AbsenceColumns
  <2>5. booking.fresh /\ leaves' = WithLeave(booking.at, booking.at, "validate")
    BY <2>2, <2>3, <2>4 DEF BookLeave
  <2>6. leaves'[l] = [from |-> booking.at, to |-> booking.at, state |-> "validate"]
    <3>1. \A m \in DOMAIN leaves' : \/ m \in DOMAIN leaves /\ leaves'[m] = leaves[m]
                                    \/ leaves'[m] = [from |-> booking.at, to |-> booking.at, state |-> "validate"]
      BY <2>1, <2>4, <2>5, OneMoreDay
    <3>2. l \in DOMAIN leaves' /\ l \notin DOMAIN leaves
      OBVIOUS
    <3> QED BY <3>1, <3>2
  <2>7. d = booking.at
    BY <2>4, <2>6, AbsenceAssumption DEF AllDays
  <2> QED BY <2>3, <2>5, <2>7 DEF BookLeave, AbsenceInv, BookedIsAbsent
<1> QED BY <1>1, AbsenceInvariant, PTL DEF AbsenceSpec, NoLeaveForWorkedDay
=============================================================================
