---------------------------- MODULE Offboarding ----------------------------
(***************************************************************************)
(* The offboarding workflow of one employee: the employee.resignation      *)
(* record (unique per employee, ivis_employee_details), its departmental   *)
(* clearances (aesl_hr_resignation) and the employee fields the handlers   *)
(* write.  Every handler runs in one database transaction; here a request  *)
(* is one atomic step.  OffboardingTx takes the requests apart again.      *)
(*                                                                         *)
(* A handler is a pair of operators on a database value x: CanH(x), the    *)
(* conditions under which it does not raise, and H(x), the value it leaves *)
(* behind.  The actions below apply them to the committed database db.     *)
(***************************************************************************)
CONSTANT Departments    \* the departments that clear an employee: admin, it, hse

ASSUME DepartmentsAssumption == Departments # {}

VARIABLES
    db,       \* the committed rows: resignation, employee and clearances
    formOpen  \* the employee's browser holds a page with the resignation form

vars == <<db, formOpen>>
-----------------------------------------------------------------------------
(* Stages.  "none" stands for: no resignation record exists. *)

\* Stages in which the form page sends the employee to the running request.
ActiveStages == {"pending_manager", "serving_notice", "clearance_in_progress",
                 "revoke_pending"}

\* The manager accepted and the three departments are clearing.
NoticeStages == {"clearance_in_progress", "serving_notice", "revoke_pending"}

\* The approval lane of the base module, entered by "Start Clearance".
LegacyStages == {"buh", "vp", "final_approval", "clearance_approved", "approved"}

\* Every department has cleared; HR finishes.
ExitStages == {"exit_interview_pending", "exit_interview_done", "archived"}

Stages == {"none", "draft", "pending_manager", "rejected", "revoked"}
            \cup NoticeStages \cup LegacyStages \cup ExitStages

ClearanceStates == {"none", "pending", "approved"}

Database == [state        : Stages,
             is_revoked   : BOOLEAN,
             notice_dates : BOOLEAN,   \* resignation_date / exit_date of the employee are set
             active       : BOOLEAN,   \* employee and portal user are not archived
             clearance    : [Departments -> ClearanceStates]]

EmptyDatabase == [state |-> "none", is_revoked |-> FALSE, notice_dates |-> FALSE,
                  active |-> TRUE, clearance |-> [d \in Departments |-> "none"]]

\* What action_check_clearance_completion asks: all three clearances exist and
\* every one of them is approved.
AllCleared(x) == \A d \in Departments : x.clearance[d] = "approved"
-----------------------------------------------------------------------------
(* Submission *)

\* HR creates the form in the backend.
CanCreate(x) == x.state = "none" /\ x.active
Created(x)   == [x EXCEPT !.state = "draft"]

\* "Submit for Review" in the backend, visible in draft only.
CanSubmit(x)  == x.state = "draft"
Submitted(x)  == [x EXCEPT !.state = "pending_manager"]

\* The form page is only served when no request is under way.
CanOpenForm(x) == x.active /\ x.state \notin ActiveStages

\* POST of the form: creates the record or overwrites the existing one,
\* whatever its state, and submits it.
\* Variants (also below): the same definition with a mistake an edit of the
\* handler could make; a property that no variant breaks would say nothing.
CanPortalSubmit_NoLogin(x) == TRUE
CanPortalSubmit(x)  == x.active
PortalSubmitted(x)  == [x EXCEPT !.state = "pending_manager", !.is_revoked = FALSE]

(* Manager decisions *)

InitiatedClearances == [d \in Departments |-> "pending"]

CanAccept(x) == x.state = "pending_manager"
\* Variant: only missing clearances are set to pending.
Accepted_KeepApprovals(x) ==
    [x EXCEPT !.state = "clearance_in_progress", !.notice_dates = TRUE,
              !.clearance = [d \in Departments |->
                    IF @[d] = "none" THEN "pending" ELSE @[d]]]
Accepted(x)  == [x EXCEPT !.state = "clearance_in_progress",
                          !.notice_dates = TRUE,
                          !.clearance = InitiatedClearances]

CanReject(x) == x.state = "pending_manager"
Rejected(x)  == [x EXCEPT !.state = "rejected", !.notice_dates = FALSE]

(* Revocation *)

CanRequestRevoke(x) == x.state \in {"serving_notice", "clearance_in_progress"}
RevokeRequested(x)  == [x EXCEPT !.state = "revoke_pending"]

CanDecideRevoke(x) == x.state = "revoke_pending"
\* Variant: the employee keeps the exit dates.
RevokeAccepted_KeepDates(x) == [x EXCEPT !.state = "revoked", !.is_revoked = TRUE]
RevokeAccepted(x)  == [x EXCEPT !.state = "revoked", !.is_revoked = TRUE,
                                !.notice_dates = FALSE]
\* Variants: a stage the selection does not have; the departments start again.
RevokeRejected_Restart(x) == [x EXCEPT !.state = "serving_notice",
                                       !.clearance = [d \in Departments |-> "pending"]]
RevokeRejected(x)  == [x EXCEPT !.state = "serving_notice"]

(* Departmental clearance *)

\* Variant: one approval is enough.
CompletionChecked_AnyApproval(x) ==
    IF \E d \in Departments : x.clearance[d] = "approved"
    THEN [x EXCEPT !.state = "exit_interview_pending"] ELSE x

\* The check reads the clearances only, not the stage.
CompletionChecked(x) == IF AllCleared(x)
                        THEN [x EXCEPT !.state = "exit_interview_pending"]
                        ELSE x

CanClear(d, x) == x.clearance[d] = "pending"
Cleared(d, x)  == CompletionChecked([x EXCEPT !.clearance[d] = "approved"])

(* HR *)

CanInterview(x) == x.state = "exit_interview_pending"
Interviewed(x)  == [x EXCEPT !.state = "exit_interview_done"]

CanArchive(x) == x.state = "exit_interview_done"
Archived(x)   == [x EXCEPT !.state = "archived", !.active = FALSE]

(* The lane of the base module: four buttons of the form, each visible in  *)
(* one stage, and the exit check list.                                     *)

CanStartLane(x) == x.state = "serving_notice"
LaneStarted(x)  == [x EXCEPT !.state = "buh", !.notice_dates = TRUE]

CanFirstApprove(x) == x.state = "buh"
FirstApproved(x)   == [x EXCEPT !.state = "vp"]

CanSecondApprove(x) == x.state = "vp"
SecondApproved(x)   == [x EXCEPT !.state = "final_approval", !.notice_dates = TRUE]

CanFinalApprove(x) == x.state = "final_approval"
FinalApproved(x)   == [x EXCEPT !.state = "clearance_approved"]

CanReceiveItems(x) == x.state = "clearance_approved"
ItemsReceived(x)   == [x EXCEPT !.state = "approved"]
-----------------------------------------------------------------------------
Init == db = EmptyDatabase /\ formOpen = FALSE

\* A request that changes the database and leaves the browser pages alone.
Request(can, value) == can /\ db' = value /\ UNCHANGED formOpen

OpenForm == CanOpenForm(db) /\ formOpen' = TRUE /\ UNCHANGED db

CloseForm == formOpen /\ formOpen' = FALSE /\ UNCHANGED db

\* A second tab or the browser's back button keeps the page at hand.
PortalSubmit == /\ formOpen
                /\ CanPortalSubmit(db)
                /\ formOpen' \in BOOLEAN
                /\ db' = PortalSubmitted(db)

Create        == Request(CanCreate(db), Created(db))
Submit        == Request(CanSubmit(db), Submitted(db))
Accept        == Request(CanAccept(db), Accepted(db))
Reject        == Request(CanReject(db), Rejected(db))
RequestRevoke == Request(CanRequestRevoke(db), RevokeRequested(db))
AcceptRevoke  == Request(CanDecideRevoke(db), RevokeAccepted(db))
RejectRevoke  == Request(CanDecideRevoke(db), RevokeRejected(db))
Clear(d)      == Request(CanClear(d, db), Cleared(d, db))
Interview     == Request(CanInterview(db), Interviewed(db))
Archive       == Request(CanArchive(db), Archived(db))
StartLane     == Request(CanStartLane(db), LaneStarted(db))
FirstApprove  == Request(CanFirstApprove(db), FirstApproved(db))
SecondApprove == Request(CanSecondApprove(db), SecondApproved(db))
\* Raises unless the employee has a running contract, which is not modelled:
\* the step may be taken or not.
FinalApprove  == Request(CanFinalApprove(db), FinalApproved(db))
\* Raises while an item of the exit check list is outstanding, and does
\* nothing when the list is empty: again the step may be taken or not.
ReceiveItems  == Request(CanReceiveItems(db), ItemsReceived(db))

\* The steps that touch neither clearances nor their check lists.
Paperwork == \/ OpenForm \/ CloseForm \/ PortalSubmit
             \/ Create \/ Submit \/ Reject
             \/ RequestRevoke \/ AcceptRevoke \/ RejectRevoke
             \/ Interview \/ Archive
             \/ StartLane \/ FirstApprove \/ SecondApprove
             \/ FinalApprove \/ ReceiveItems

Next == Paperwork \/ Accept \/ \E d \in Departments : Clear(d)

Spec == Init /\ [][Next]_vars
-----------------------------------------------------------------------------
(* What the workflow keeps true *)

\* The committed rows and the browser pages have their types.
TypeOK == db \in Database /\ formOpen \in BOOLEAN

\* Nobody is interviewed or archived before every department has cleared: the
\* exit stages are entered by the last approval alone, and a clearance that
\* goes back to pending (a new acceptance) takes the request out of them.
ClearanceGate ==
    db.state \in ExitStages => AllCleared(db)

\* While the request waits for the departments one of them still has something
\* to approve.  The completion check runs only inside an approval, so a request
\* with nothing left to approve in these stages would wait for ever.
NoStrandedClearance ==
    db.state \in NoticeStages \cup LegacyStages =>
        \E d \in Departments : db.clearance[d] = "pending"

\* The dates on the employee follow the decision: set while the notice period
\* runs, gone when the request never was accepted, was rejected or was revoked.
NoticeDatesFollow ==
    /\ db.state \in NoticeStages \cup LegacyStages => db.notice_dates
    /\ db.state \in {"none", "draft", "rejected", "revoked"} => ~db.notice_dates

\* A request that was submitted again after a revocation does not carry the
\* revocation's flag.
RevokedFlagFollows ==
    db.is_revoked => db.state \in {"revoked"} \cup ExitStages

\* Archiving is the end: nothing any page left open can do moves the record
\* again, and employee and login stay inactive.
ArchivedIsFinal ==
    [][db.state = "archived" => db'.state = "archived" /\ ~db'.active]_vars

\* A clearance under way ends: the request leaves the notice stages (cleared,
\* revoked, sent down the base module's lane, or submitted again) as long as
\* the departments work, even while revocations come and go.
ClearanceEnds == db.state \in NoticeStages ~> db.state \notin NoticeStages

(* What the texts of the code promise and the handlers do not keep *)

\* "Resignation is cancelled, notice period stopped, employment continues":
\* a revoked request moves again only when the employee submits a new one.
RevokedStaysRevoked ==
    [][db.state = "revoked" => db'.state \in {"revoked", "pending_manager"}]_vars

=============================================================================
