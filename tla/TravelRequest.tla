--------------------------- MODULE TravelRequest ---------------------------
(***************************************************************************)
(* One travel request of approval_ext: its owner submits it in the portal, *)
(* the approvers of the configuration vote, its time off and its expense   *)
(* report follow.  A request of the server is one transaction under        *)
(* snapshot isolation: of two that overlap, the one that commits second    *)
(* read the state before the first.                                        *)
(*                                                                         *)
(* The e-mails, the dates, the remarks and the travel schedule are left    *)
(* out; a leave is approved in one step; the approvals application, which  *)
(* is not in the repository, derives the status of a request from the      *)
(* votes.  An employee without a region or a travel department matches no  *)
(* line of the configuration.                                              *)
(***************************************************************************)
EXTENDS Naturals

CONSTANTS
    Approvers,      \* users the configuration may name
    NoUser,         \* in the place of a user: an approver who is an employee without one
    Settings,       \* configurations: [first, second, minimum]
    MaxSettings     \* bound: changes of the configuration

VARIABLES
    travel,     \* the rows: [status, kind, votes, leave, expense]
    setting,    \* the configuration lines that match the employee
    settings,   \* changes of the configuration so far
    slow,       \* what a transaction that is still running read, or <<>>
    missed,     \* rows written since it began
    withdrawn   \* history: who took an approval back while another vote was being cast

travelVars == <<travel, setting, settings, slow, missed, withdrawn>>

ASSUME TravelAssumption ==
    /\ NoUser \notin Approvers /\ MaxSettings \in Nat
    /\ {"request", "leave", "expense"} \cap Approvers = {}
    /\ \A s \in Settings : /\ s.first \subseteq Approvers \cup {NoUser}
                           /\ s.second \in Approvers \cup {NoUser} /\ s.minimum \in Nat

Kinds == {"domestic", "international"}
Votes == {"none", "pending", "approved", "refused"}

\* What one user's transaction leaves: the rows, and whether it raised.
Done(t) == [travel |-> t, raised |-> FALSE]
Raised(t) == [travel |-> t, raised |-> TRUE]
-----------------------------------------------------------------------------
(* approval.request *)

\* The status the approvals application derives from the votes, all required.
Status(votes) ==
    LET cast == {votes[u] : u \in Approvers} \ {"none"} IN
    CASE cast = {} -> "new"
      [] "refused" \in cast -> "refused"
      [] cast = {"approved"} -> "approved"
      [] OTHER -> "pending"

Voted(t, votes) == [t EXCEPT !.votes = votes, !.status = Status(votes)]

\* Approvers who have a user get a vote; the others none.
Asked(s) == [u \in Approvers |-> IF u \in s.first THEN "pending" ELSE "none"]

TimeOff(t) == [t EXCEPT !.leave = "confirm"]

\* The message to approvers with a user raises (it names variables of another
\* method), before the time off is managed; without one the category's minimum
\* of approvers may be missed.
Submitted(t, s) ==
    LET asked == Voted(t, Asked(s)) IN
    CASE s.first = {}                          -> Raised(asked)
      [] s.first = {NoUser} /\ s.minimum > 0   -> Raised(asked)
      [] s.first = {NoUser} /\ s.minimum = 0   -> Done(TimeOff([asked EXCEPT !.status = "pending"]))
      [] s.first \notin {{}, {NoUser}}         -> Raised([asked EXCEPT !.status = "pending"])
\* Variant: a refused request is given the status "draft".
Confirm_Draft(t, s) == IF t.status = "refused" THEN Raised([t EXCEPT !.status = "draft"]) ELSE Submitted(t, s)
\* "draft" is not a status: to give it to a refused request raises.
Confirm(t, s) == IF t.status = "refused" THEN Raised(t) ELSE Submitted(t, s)

\* The standard approval, and the time off with it.
Grant(t, u) ==
    LET granted == Voted(t, [t.votes EXCEPT ![u] = "approved"]) IN
    IF granted.status = "approved" /\ t.leave # "none"
    THEN [granted EXCEPT !.leave = "validate"]
    ELSE granted

\* Variant: the second approver is asked of domestic requests.
Awaits_Domestic(t, s) == t.kind = "domestic" /\ s.second # NoUser /\ t.votes[s.second] = "none"
\* Abroad, the first vote brings in the second approver, whose message raises.
Awaits(t, s) == t.kind = "international" /\ s.second # NoUser /\ t.votes[s.second] = "none"
\* Variant: what is awaited is forgotten.
Approve_Forced(t, s, u) ==
    IF Awaits(t, s)
    THEN Raised([t EXCEPT !.votes = [@ EXCEPT ![u] = "approved", ![s.second] = "pending"], !.status = "approved"])
    ELSE Done(Grant(t, u))
Approve(t, s, u) ==
    IF Awaits(t, s)
    THEN Raised([t EXCEPT !.votes = [@ EXCEPT ![u] = "approved", ![s.second] = "pending"], !.status = "pending"])
    ELSE Done(Grant(t, u))

\* A leave that is refused already cannot be refused again.
\* Variant: the leave stays.
Refuse_LeaveStays(t, u) == Done(Voted(t, [t.votes EXCEPT ![u] = "refused"]))
Refuse(t, u) ==
    LET refused == Voted(t, [t.votes EXCEPT ![u] = "refused"]) IN
    CASE t.leave = "none"   -> Done(refused)
      [] t.leave = "refuse" -> Raised(refused)
      [] OTHER                    -> Done([refused EXCEPT !.leave = "refuse"])
-----------------------------------------------------------------------------
(* Transactions *)

Row(t, r) ==
    CASE r = "request" -> <<t.status, t.kind>>
      [] r = "leave"   -> t.leave
      [] r = "expense" -> t.expense
      [] OTHER         -> t.votes[r]
Written(old, new) == {r \in {"request", "leave", "expense"} \cup Approvers : Row(old, r) # Row(new, r)}

\* The rows of new that are written, the others as they are.
Merged(new, w) ==
    [status |-> IF "request" \in w THEN new.status ELSE travel.status,
     kind   |-> IF "request" \in w THEN new.kind ELSE travel.kind,
     leave  |-> IF "leave" \in w THEN new.leave ELSE travel.leave,
     expense |-> IF "expense" \in w THEN new.expense ELSE travel.expense,
     votes  |-> [u \in Approvers |-> IF u \in w THEN new.votes[u] ELSE travel.votes[u]]]

Begin == /\ slow = <<>>
         /\ slow' = <<travel>> /\ missed' = {}
         /\ UNCHANGED <<travel, setting, settings, withdrawn>>

\* What a transaction reads: late, what there was when the slow one began.
Read(late) == IF late THEN slow[1] ELSE travel

\* Whose approval it takes back while another transaction runs.
TakenBack(old, new) ==
    {u \in Approvers : slow # <<>> /\ old.votes[u] = "approved" /\ new.votes[u] = "refused"}

\* It writes what it changed and the rows it replaced by new ones, and commits,
\* unless one of them was written since it began: then it is rolled back, and
\* tried again from the start.
CommitRows(late, new, replaced) ==
    LET w == Written(Read(late), new) \cup replaced
        rolledBack == late /\ w \cap missed # {} IN
    /\ travel' = IF rolledBack THEN travel ELSE Merged(new, w)
    /\ withdrawn' = IF rolledBack THEN withdrawn ELSE (withdrawn \ w) \cup TakenBack(Read(late), new)
    /\ slow' = IF late THEN <<>> ELSE slow
    /\ missed' = IF late \/ slow = <<>> THEN {} ELSE missed \cup w
    /\ UNCHANGED <<setting, settings>>
Commit(late, new) == CommitRows(late, new, {})
-----------------------------------------------------------------------------
(* The portal *)

\* Save and update report an error and commit what was done before it.  The
\* votes are deleted and made anew, unless the request was refused.
Save(late, kind) ==
    /\ Read(late).status = "none"
    /\ Commit(late, Confirm([Read(late) EXCEPT !.status = "new", !.kind = kind], setting).travel)
Update(late, kind) ==
    /\ Read(late).status # "none"
    /\ CommitRows(late, Confirm([Read(late) EXCEPT !.kind = kind], setting).travel,
                  IF Read(late).status = "refused" THEN {} ELSE {"request"} \cup Approvers)

\* A page's button takes the vote of whoever has one, whatever it was, and an
\* error undoes it.
Vote(late, u, outcome) ==
    /\ Read(late).votes[u] # "none"
    /\ ~outcome.raised
    /\ Commit(late, outcome.travel)
ApproveButton(late, u) == Vote(late, u, Approve(Read(late), setting, u))
RefuseButton(late, u) == Vote(late, u, Refuse(Read(late), u))

\* The list takes pending votes only; an error is passed over and what was done
\* before it is committed.
Bulk(late, u) ==
    /\ Read(late).votes[u] = "pending"
    /\ \/ Commit(late, Approve(Read(late), setting, u).travel)
       \/ Commit(late, Refuse(Read(late), u).travel)

\* The expense report: saved once for an approved request, then signed by the
\* configured HR employee and by the payable officer, or refused by them.
SaveExpense(late) ==
    /\ Read(late).status = "approved" /\ Read(late).expense = "none"
    /\ Commit(late, [Read(late) EXCEPT !.expense = "submitted"])
SignExpense(late) ==
    /\ Read(late).expense \in {"submitted", "hr_approved"}
    /\ Commit(late, [Read(late) EXCEPT !.expense = IF @ = "submitted" THEN "hr_approved" ELSE "approved"])
RefuseExpense(late) ==
    /\ Read(late).expense \in {"submitted", "hr_approved"}
    /\ Commit(late, [Read(late) EXCEPT !.expense = "refused"])

\* The configuration is edited, while no request is running.
Configure(s) ==
    /\ slow = <<>> /\ settings < MaxSettings /\ s # setting
    /\ setting' = s /\ settings' = settings + 1
    /\ UNCHANGED <<travel, slow, missed, withdrawn>>
-----------------------------------------------------------------------------
TravelInit ==
    /\ travel = [status |-> "none", kind |-> "domestic", leave |-> "none",
                 expense |-> "none", votes |-> [u \in Approvers |-> "none"]]
    /\ setting \in Settings /\ settings = 0
    /\ slow = <<>> /\ missed = {} /\ withdrawn = {}

TravelNext ==
    \/ Begin
    \/ \E s \in Settings : Configure(s)
    \/ \E late \in {l \in BOOLEAN : l => slow # <<>>} :
          \/ \E kind \in Kinds : Save(late, kind) \/ Update(late, kind)
          \/ \E u \in Approvers : ApproveButton(late, u) \/ RefuseButton(late, u) \/ Bulk(late, u)
          \/ SaveExpense(late) \/ SignExpense(late) \/ RefuseExpense(late)

TravelSpec == TravelInit /\ [][TravelNext]_travelVars
-----------------------------------------------------------------------------
\* The type invariant.
TravelTypeOK ==
    /\ travel \in [status : {"none", "new", "pending", "approved", "refused"}, kind : Kinds,
                   leave : {"none", "confirm", "validate", "refuse"},
                   expense : {"none", "submitted", "hr_approved", "approved", "refused"},
                   votes : [Approvers -> Votes]]
    /\ setting \in Settings /\ settings \in 0..MaxSettings
    /\ missed \subseteq {"request", "leave", "expense"} \cup Approvers
    /\ withdrawn \subseteq Approvers

\* A request is approved by all who were asked, whatever votes are cast at the
\* same time, from pages that are old, or half of an approval whose message
\* failed.  One of them the code lets pass over: who takes an approval back while
\* another vote is being cast (withdrawn), because a refusal of a request that is
\* refused already does not write the request's row.
ApprovedByAll ==
    travel.status = "approved" =>
        /\ \A u \in Approvers \ withdrawn : travel.votes[u] \in {"none", "approved"}
        /\ \E u \in Approvers : travel.votes[u] = "approved" \/ u \in withdrawn

\* A journey abroad is not approved before the second approver agrees; he may
\* have taken it back while the vote that approves it was being cast.
AbroadTwice ==
    [][travel.status # "approved" /\ travel'.status = "approved" /\ travel'.kind = "international" /\ setting.second # NoUser
          => travel'.votes[setting.second] = "approved" \/ setting.second \in withdrawn']_travelVars

\* The employee is not on leave for a journey that was refused.
RefusedHasNoLeave == travel.status = "refused" => travel.leave \in {"none", "refuse"}

\* "When approved, [...] approve Time Off": an approved request has its leave.
ApprovedHasTimeOff == travel.status = "approved" => travel.leave = "validate"
=============================================================================
