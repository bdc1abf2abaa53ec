------------------------------- MODULE PfLoan -------------------------------
(***************************************************************************)
(* Provident fund loan applications of one employee: pf.loan.application   *)
(* (pf_loan_management) and the portal routes /my/pf_loan (prodo_user_     *)
(* portal).  Five approvers sign one after the other; each may send the    *)
(* application one level back, and the employee edits it when it has come  *)
(* all the way back.                                                       *)
(*                                                                         *)
(* A handler that updates one application is one step: of two transactions *)
(* that update the same row PostgreSQL lets one commit.  A submission      *)
(* inserts a row, which collides with nothing, so the search for an active *)
(* application and the insertion are two steps.                            *)
(***************************************************************************)
EXTENDS Naturals

CONSTANTS
    Applications,   \* the rows the employee may ever create
    Sessions,       \* browser tabs, of the employee or of HR, that submit for the employee
    People,         \* users with an employee record who may sign
    Admin,          \* the administrator among them
    Holders         \* Holders[a][q]: designated approvers of a at stage q, copied from
                    \* the configuration when a is created

VARIABLES
    state,     \* state[a]: stage of application a; "none" is: no row
    signed,    \* signed[a]: who signed which stage since the employee last submitted a;
               \* the database keeps no such record
    posting,   \* sessions whose submission found no active application, not yet committed
    editing    \* <<s, a>>: session s has the edit form of a on its screen

vars == <<state, signed, posting, editing>>
-----------------------------------------------------------------------------
(* Stages: the five that wait for a signature, in their order, and the rest. *)

Rank == [draft |-> 1, waiting_hod |-> 2, waiting_finance |-> 3,
         waiting_trustee |-> 4, waiting_trustee_second |-> 5]

Waiting == {"draft", "waiting_hod", "waiting_finance", "waiting_trustee",
            "waiting_trustee_second"}

Successor == [draft |-> "waiting_hod", waiting_hod |-> "waiting_finance",
              waiting_finance |-> "waiting_trustee",
              waiting_trustee |-> "waiting_trustee_second",
              waiting_trustee_second |-> "approved"]

Predecessor == [draft |-> "returned", waiting_hod |-> "draft",
                waiting_finance |-> "waiting_hod",
                waiting_trustee |-> "waiting_finance",
                waiting_trustee_second |-> "waiting_trustee"]

Closed == {"rejected", "cancel"}
Stages == Waiting \cup Closed \cup {"none", "returned", "approved"}

\* The stages that create() and the form page take for an application under way.
ActiveStages == Waiting \cup {"returned"}

Active(a) == state[a] \in ActiveStages

\* A session with neither a submission under way nor an edit form open.
Free(s) == s \notin posting /\ \A a \in Applications : <<s, a>> \notin editing

\* Who is let through at stage q.  HR and the trustees may be replaced by the
\* administrator; with no approver designated the first three let anybody sign.
MaySign(p, a, q) ==
    \/ p \in Holders[a][q]
    \/ p = Admin /\ q \in {"draft", "waiting_trustee", "waiting_trustee_second"}
    \/ Holders[a][q] = {} /\ q \in {"draft", "waiting_hod", "waiting_finance"}

ASSUME PfLoanAssumption ==
    /\ Admin \in People
    /\ Holders \in [Applications -> [Waiting -> SUBSET People]]
-----------------------------------------------------------------------------
Init == /\ state = [a \in Applications |-> "none"]
        /\ signed = [a \in Applications |-> {}]
        /\ posting = {}
        /\ editing = {}

(* Submission of a new application *)

\* The first read of create(): the transaction's snapshot has no active row.
FindNoActive(s) ==
    /\ Free(s)
    /\ \A a \in Applications : ~Active(a)
    /\ posting' = posting \cup {s}
    /\ UNCHANGED <<state, signed, editing>>

\* The new row is committed; what others committed since the search is not seen.
Insert(s, a) ==
    /\ s \in posting
    /\ state[a] = "none"
    /\ state' = [state EXCEPT ![a] = "draft"]
    /\ posting' = posting \ {s}
    /\ UNCHANGED <<signed, editing>>

\* The request ends without a row: an error in it, or its worker dies.
Fail(s) ==
    /\ s \in posting
    /\ posting' = posting \ {s}
    /\ UNCHANGED <<state, signed, editing>>

(* Correction of a returned application *)

\* The view page has editable fields only while the application is returned.
OpenEdit(s, a) ==
    /\ Free(s)
    /\ state[a] = "returned"
    /\ editing' = editing \cup {<<s, a>>}
    /\ UNCHANGED <<state, signed, posting>>

CloseEdit(s, a) ==
    /\ <<s, a>> \in editing
    /\ editing' = editing \ {<<s, a>>}
    /\ UNCHANGED <<state, signed, posting>>

\* POST of the edit form: the content is overwritten and the chain starts
\* again, whatever has become of the application since the form was opened.
\* Variant: the chain starts again only for an application still returned.
Save_ReturnedOnly(s, a) ==
    /\ <<s, a>> \in editing
    /\ state' = [state EXCEPT ![a] = IF @ = "returned" THEN "draft" ELSE @]
    /\ signed' = [signed EXCEPT ![a] = {}]
    /\ editing' = editing \ {<<s, a>>}
    /\ UNCHANGED posting
Save(s, a) ==
    /\ <<s, a>> \in editing
    /\ state' = [state EXCEPT ![a] = "draft"]
    /\ signed' = [signed EXCEPT ![a] = {}]
    /\ editing' = editing \ {<<s, a>>}
    /\ UNCHANGED posting

(* Approvers *)

\* The five action_approve_* methods, one per stage q: each does nothing in
\* another stage and raises for a person who may not sign.
\* Variant: the fourth method tests for a stage that does not exist.
Approve_Unreachable(p, a, q) ==
    /\ state[a] = q /\ q # "waiting_trustee"
    /\ MaySign(p, a, q)
    /\ state' = [state EXCEPT ![a] = Successor[q]]
    /\ signed' = [signed EXCEPT ![a] = @ \cup {<<q, p>>}]
    /\ UNCHANGED <<posting, editing>>
Approve(p, a, q) ==
    /\ state[a] = q
    /\ MaySign(p, a, q)
    /\ state' = [state EXCEPT ![a] = Successor[q]]
    /\ signed' = [signed EXCEPT ![a] = @ \cup {<<q, p>>}]
    /\ UNCHANGED <<posting, editing>>

\* One level back; the route asks neither for the stage nor for the person.
\* Variant: every other stage goes back to the employee.
Return_AnyStage(a) ==
    /\ state[a] # "none"
    /\ state' = [state EXCEPT ![a] = IF @ \in Waiting THEN Predecessor[@] ELSE "returned"]
    /\ UNCHANGED <<signed, posting, editing>>
Return(a) ==
    /\ state[a] \in Waiting
    /\ state' = [state EXCEPT ![a] = Predecessor[@]]
    /\ UNCHANGED <<signed, posting, editing>>

\* Neither method looks at the stage; a page that was loaded before the last
\* signature rejects or cancels an approved application.
Reject(a) ==
    /\ state[a] # "none"
    /\ state' = [state EXCEPT ![a] = "rejected"]
    /\ UNCHANGED <<signed, posting, editing>>

Cancel(a) ==
    /\ state[a] # "none"
    /\ state' = [state EXCEPT ![a] = "cancel"]
    /\ UNCHANGED <<signed, posting, editing>>

Next ==
    \/ \E s \in Sessions : FindNoActive(s) \/ Fail(s)
    \/ \E s \in Sessions, a \in Applications :
          Insert(s, a) \/ OpenEdit(s, a) \/ CloseEdit(s, a) \/ Save(s, a)
    \/ \E p \in People, a \in Applications, q \in Waiting : Approve(p, a, q)
    \/ \E a \in Applications : Return(a) \/ Reject(a) \/ Cancel(a)

Spec == Init /\ [][Next]_vars

\* Whoever is mailed that an application waits for a signature signs in the end.
Fairness == \A a \in Applications, q \in Waiting :
                WF_vars(\E p \in People : Approve(p, a, q))

FairSpec == Spec /\ Fairness
-----------------------------------------------------------------------------
\* The type invariant: an application has a stage of the selection, and only
\* stages that wait are signed.
TypeOK == /\ state \in [Applications -> Stages]
          /\ signed \in [Applications -> SUBSET (Waiting \X People)]
          /\ posting \subseteq Sessions
          /\ editing \subseteq Sessions \X Applications

\* Stage q of application a was signed by someone who may, after the employee
\* last submitted the application.
SignedAt(a, q) == \E p \in People : <<q, p>> \in signed[a] /\ MaySign(p, a, q)

\* No level is ever skipped: an approved application carries all five
\* signatures, and a waiting one those of the levels below, all of them newer
\* than the employee's last submission on the portal; through returns to any level,
\* resubmissions, and forms saved long after they were opened.
StageIsSigned ==
    \A a \in Applications :
        /\ state[a] = "approved" => \A r \in Waiting : SignedAt(a, r)
        /\ \A q, r \in Waiting :
              state[a] = q /\ Rank[r] < Rank[q] => SignedAt(a, r)

\* create() says: "You cannot submit a new loan request while an existing
\* application is active."
OneActiveApplication ==
    \A a, b \in Applications : Active(a) /\ Active(b) => a = b

\* A rejected or cancelled application comes back into the chain only by the
\* save of an edit form that was opened earlier: no late signature or return
\* of an approver who has not heard of the decision revives it.
ClosedIsLeftBySaveOnly ==
    [][\A a \in Applications :
          state[a] \in Closed /\ state'[a] \notin Closed =>
             \E s \in Sessions : <<s, a>> \in editing \ editing']_vars

\* If approvers stop sending applications back, each one that waits for a
\* signature is approved, rejected, cancelled or with the employee in the end:
\* no stage of the chain is a dead end.
ChainEnds ==
    <>[][~\E a \in Applications : Return(a)]_vars =>
        \A a \in Applications : state[a] \in Waiting ~> state[a] \notin Waiting
=============================================================================
