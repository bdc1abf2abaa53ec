----------------------------- MODULE Appraisal -----------------------------
(***************************************************************************)
(* One appraisal (prodo_appraisal_ext) and the portal pages on which the   *)
(* managers answer it (prodo_user_portal): from the line manager upwards   *)
(* everyone recommends a raise, the managing director decides, HR          *)
(* publishes.                                                              *)
(*                                                                         *)
(* A chain is the employee's managers that have a user, numbered upwards;  *)
(* 0 is nobody.  The directory does not change meanwhile.  Pages stay      *)
(* open, and what they send meets the appraisal as it is then.  A raise    *)
(* stands for the whole line, amount, designation and grade.  Remarks,     *)
(* doc_state (it decides only what the page offers), the employee's wage   *)
(* and the deletion of drafts are left out.                                *)
(***************************************************************************)
EXTENDS Integers, Sequences

CONSTANTS Chains,   \* [length, executive, md]: who is directly under the top, and at the top, if they have a user
          Raises,   \* what may be recommended; 0 is what a line copies when there is none before it
          Nothing   \* a form sent without a raise

VARIABLES
    chain,      \* the chain of the employee
    appraisal,  \* [state, approver, last, lines, final]; a line is who recommends what
    pages       \* the managers who have had the appraisal before them

appraisalVars == <<chain, appraisal, pages>>

ASSUME AppraisalAssumption ==
    /\ 0 \in Raises /\ Nothing \notin Raises
    /\ \A c \in Chains : /\ c.length \in Nat /\ c.md \in {0, c.length}
                         /\ c.executive \in 0..c.length

AppraisalStates == {"draft", "new", "pending", "executive", "md", "done", "published", "cancel"}
WithManagers == {"new", "pending", "executive"}
-----------------------------------------------------------------------------
(* The lines *)

LinesOf(n) == [by : 1..n, raise : Raises]
Has(ls, u) == \E i \in DOMAIN ls : ls[i].by = u
WithLine(ls, u, raise) == Append(ls, [by |-> u, raise |-> raise])

\* _save_increment_for_manager: who has no line recommends the same as the last.
Copied(ls, u) ==
    IF Has(ls, u) THEN ls ELSE WithLine(ls, u, IF ls = <<>> THEN 0 ELSE ls[Len(ls)].raise)

\* save_recom_incrment: the own line is made or changed.
Saved(ls, u, given) ==
    IF given = Nothing THEN ls
    ELSE IF Has(ls, u) THEN [i \in DOMAIN ls |-> IF ls[i].by = u THEN [ls[i] EXCEPT !.raise = given] ELSE ls[i]]
    ELSE WithLine(ls, u, given)

\* _portal_submit_manager, and _portal_submit_md: a line of his own that the
\* director saved before is not changed by what he submits.
OfManager(ls, u, given) == Copied(Saved(ls, u, given), u)
OfDirector(ls, u, given) == Copied(IF Has(ls, u) THEN ls ELSE Saved(ls, u, given), u)
-----------------------------------------------------------------------------
(* HR *)

\* From the form of a draft, or for whatever is selected in the list.
HrConfirm ==
    /\ chain.length > 0
    /\ appraisal' = [appraisal EXCEPT !.state = "new", !.approver = 1]
    /\ UNCHANGED <<chain, pages>>
Publish ==
    /\ appraisal.state = "done"
    /\ appraisal' = [appraisal EXCEPT !.state = "published"]
    /\ UNCHANGED <<chain, pages>>
CancelAppraisal ==
    /\ appraisal.state # "done"
    /\ appraisal' = [appraisal EXCEPT !.state = "cancel"]
    /\ UNCHANGED <<chain, pages>>
-----------------------------------------------------------------------------
(* The managers' pages *)

OpenAppraisal(u) ==
    /\ appraisal.approver = u /\ pages' = pages \cup {u}
    /\ UNCHANGED <<chain, appraisal>>

SaveLine(u, given) ==
    /\ u \in pages
    /\ appraisal' = [appraisal EXCEPT !.lines = Saved(@, u, given)]
    /\ UNCHANGED <<chain, pages>>

\* action_manager_submit.  Without a next manager _get_md_user is asked for the
\* user of nobody, which raises.
HasNext(u) == u < chain.length
Above(u) == CASE u + 1 = chain.md        -> "md"
              [] u + 1 = chain.executive -> "executive"
              [] OTHER                   -> "pending"
\* Variant: every manager reports to the director.
Handed_ToTop(u, lines) ==
    /\ HasNext(u)
    /\ appraisal' = [appraisal EXCEPT !.state = "md", !.approver = chain.length, !.last = u,
                                      !.lines = Copied(lines, u)]
Handed(u, lines) ==
    /\ HasNext(u)
    /\ appraisal' = [appraisal EXCEPT !.state = Above(u), !.approver = u + 1, !.last = u,
                                      !.lines = Copied(lines, u)]

\* Variant: the first line, as if the newest came first.
Decision_First(lines) == lines[1].raise
Decision(lines) == lines[Len(lines)].raise

\* action_md_submit, also from the form of the backend.
Decided(u, lines) ==
    appraisal' = [appraisal EXCEPT !.state = "done", !.approver = 0, !.lines = Copied(lines, u),
                                   !.final = Decision(Copied(lines, u))]

SubmitRaise(u, given) ==
    /\ u \in pages /\ u = appraisal.approver
    /\ \/ appraisal.state \in WithManagers /\ Handed(u, OfManager(appraisal.lines, u, given))
       \/ appraisal.state = "md" /\ Decided(u, OfDirector(appraisal.lines, u, given))
    /\ UNCHANGED <<chain, pages>>

\* In bulk, the newest line of all appraisals is what the manager recommends
\* for each; and whatever is not with the director is handed on, if cancelled too.
ApproveInBulk(u, newest) ==
    /\ u = appraisal.approver /\ u # 0
    /\ IF appraisal.state = "md" THEN Decided(u, OfDirector(appraisal.lines, u, newest))
       ELSE Handed(u, OfManager(appraisal.lines, u, newest))
    /\ UNCHANGED <<chain, pages>>

\* action_revert_back asks for no user, and a second one finds the same last approver.
RevertBack ==
    /\ pages # {}
    /\ appraisal' = CASE appraisal.state = "md" -> [appraisal EXCEPT !.state = "executive", !.approver = appraisal.last]
                      [] appraisal.state = "executive" -> [appraisal EXCEPT !.state = "pending", !.approver = appraisal.last]
                      [] appraisal.state = "pending" ->
                            [appraisal EXCEPT !.state = IF appraisal.last = 1 THEN "new" ELSE "pending",
                                              !.approver = appraisal.last]
                      [] OTHER -> appraisal
    /\ UNCHANGED <<chain, pages>>
-----------------------------------------------------------------------------
AppraisalInit ==
    /\ chain \in Chains /\ pages = {}
    /\ appraisal = [state |-> "draft", approver |-> 0, last |-> 0, lines |-> <<>>, final |-> 0]

AppraisalNext ==
    \/ HrConfirm \/ Publish \/ CancelAppraisal \/ RevertBack
    \/ \E u \in 1..chain.length :
          \/ OpenAppraisal(u)
          \/ \E given \in Raises \cup {Nothing} : SaveLine(u, given) \/ SubmitRaise(u, given)
          \/ \E newest \in Raises : ApproveInBulk(u, newest)

AppraisalSpec == AppraisalInit /\ [][AppraisalNext]_appraisalVars
-----------------------------------------------------------------------------
\* The type invariant.
AppraisalTypeOK ==
    /\ chain \in Chains /\ pages \subseteq 1..chain.length
    /\ appraisal \in [state : AppraisalStates, approver : 0..chain.length, last : 0..chain.length,
                      lines : Seq(LinesOf(chain.length)), final : Raises]

\* "Every manager must have one increment line": each has one at most, the
\* lines stand in the order of the chain, and none is missing when the
\* appraisal is done, however often it is reverted, confirmed again by HR,
\* cancelled, or answered from pages that are old.
EveryManagerOnce ==
    /\ \A i \in DOMAIN appraisal.lines : appraisal.lines[i].by = i
    /\ appraisal.state \in {"done", "published"} => Len(appraisal.lines) = chain.length

\* The raise that is published is the director's own, not a manager's who
\* answered before or again.
RaiseIsDirectors ==
    [][appraisal'.state = "done" /\ appraisal.state # "done"
          => \E i \in DOMAIN appraisal'.lines : /\ appraisal'.lines[i] = [by |-> chain.md, raise |-> appraisal'.final]
                                                /\ i = chain.length]_appraisalVars

\* "no next manager -> MD stage": a manager who has nobody above him is asked
\* as the director, who can finish the appraisal.
LastIsMD == appraisal.state \in WithManagers => appraisal.approver # chain.length
=============================================================================
