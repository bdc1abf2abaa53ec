------------------------- MODULE OffboardingAssets -------------------------
(***************************************************************************)
(* Offboarding together with what the departments clear: the asset         *)
(* allocations of the employee (aesl_hr_asset_allocation) and the check    *)
(* lists the clearances carry (aesl_hr_resignation).  A check list is      *)
(* copied from the allocation when the manager accepts, worked off by the  *)
(* department, and written back to the allocation when the last department *)
(* approves.  The two sides are edited on pages of their own meanwhile.    *)
(***************************************************************************)
EXTENDS Offboarding

CONSTANTS
    Items,      \* the asset items of the employee
    Owner       \* the department each item belongs to

ASSUME OwnerAssumption == Owner \in [Items -> Departments]

VARIABLES
    allocState,  \* state of each department's allocation, "none": not created
    allocated,   \* items whose allocation line is ticked
    line,        \* what the clearance line of each item says
    linked       \* departments whose clearance lines point at allocation lines

assets    == <<allocState, allocated, line, linked>>
assetVars == <<db, formOpen, allocState, allocated, line, linked>>

ItemsOf(d) == {i \in Items : Owner[i] = d}

HasLines(d) == \E i \in ItemsOf(d) : line[i] # "none"
-----------------------------------------------------------------------------
(* Allocation side *)

\* New employees get their allocations when they are created; employees from
\* before the module was installed have none.
AssetInit == /\ Init
             /\ \E s \in {"none", "pending"} : allocState = [d \in Departments |-> s]
             /\ allocated = {}
             /\ line = [i \in Items |-> "none"]
             /\ linked = {}

\* HR's button, there while no allocation exists.
Generate == /\ \A d \in Departments : allocState[d] = "none"
            /\ allocState' = [d \in Departments |-> "pending"]
            /\ UNCHANGED <<db, formOpen, allocated, line, linked>>

\* POST of a department's allocation page: every line is written from the
\* form, and the allocation is approved when that button was pressed.
SaveAllocation(d, ticked, approve) ==
    /\ allocState[d] # "none"
    /\ allocated' = (allocated \ ItemsOf(d)) \cup ticked
    /\ allocState' = IF approve THEN [allocState EXCEPT ![d] = "approved"] ELSE allocState
    /\ UNCHANGED <<db, formOpen, line, linked>>

ResetAllocation(d) ==
    /\ allocState[d] = "approved"
    /\ allocState' = [allocState EXCEPT ![d] = "pending"]
    /\ UNCHANGED <<db, formOpen, allocated, line, linked>>
-----------------------------------------------------------------------------
(* Clearance side *)

\* Variant: only the items the employee holds are put on the list.
InitiatedLines_TickedOnly ==
    [i \in Items |-> IF HasLines(Owner[i]) THEN line[i]
                     ELSE IF allocState[Owner[i]] = "none" \/ i \in allocated
                     THEN "held" ELSE "none"]

\* Lines are built for departments that have none: from the allocation, with
\* the tick each line has there, or from the templates, all ticked.
InitiatedLines ==
    [i \in Items |-> IF HasLines(Owner[i]) THEN line[i]
                     ELSE IF allocState[Owner[i]] = "none" \/ i \in allocated
                     THEN "held" ELSE "returned"]

InitiatedLinks ==
    linked \cup {d \in Departments : ~HasLines(d) /\ allocState[d] # "none"}

AcceptAssets == /\ Accept
                /\ line' = InitiatedLines
                /\ linked' = InitiatedLinks
                /\ UNCHANGED <<allocState, allocated>>

\* Variants: the lines of the department that approved last only; every item
\* of the check lists, returned or not.
Removed_LastOnly(d, ln) ==
    {i \in ItemsOf(d) : ln[i] = "returned" /\ Owner[i] \in linked}

\* The allocation lines the completed clearance unticks; d approved last and
\* ln are the lines of all departments.
Removed(d, ln) == {i \in Items : ln[i] = "returned" /\ Owner[i] \in linked}

\* The lines of department d as its check list form is posted.
Ticked(d, held) == [i \in Items |-> IF Owner[i] # d \/ line[i] = "none" THEN line[i]
                                    ELSE IF i \in held THEN "held" ELSE "returned"]

\* POST of a check list: the lines are written first, then the clearance is
\* approved; the last approval removes what was returned.
PostChecklist(d, held) ==
    /\ Clear(d)
    /\ line' = Ticked(d, held)
    /\ allocated' = IF AllCleared(db') THEN allocated \ Removed(d, line') ELSE allocated
    /\ UNCHANGED <<allocState, linked>>

\* The same POST for a clearance that is approved already (a second tab, HR
\* and the head at once): the lines are written, the approval is skipped.
PostChecklistAgain(d, held) ==
    /\ db.clearance[d] = "approved"
    /\ line' = Ticked(d, held)
    /\ UNCHANGED <<db, formOpen, allocState, allocated, linked>>

AssetNext ==
    \/ Paperwork /\ UNCHANGED assets
    \/ Generate
    \/ AcceptAssets
    \/ \E d \in Departments :
        \/ ResetAllocation(d)
        \/ \E ticked \in SUBSET ItemsOf(d) :
            \/ \E approve \in BOOLEAN : SaveAllocation(d, ticked, approve)
            \/ PostChecklist(d, ticked)
            \/ PostChecklistAgain(d, ticked)

AssetSpec == AssetInit /\ [][AssetNext]_assetVars

\* A department head who has a pending clearance works through it in the end;
\* nobody else is assumed to act.
AssetFairness == \A d \in Departments :
    WF_assetVars(\E held \in SUBSET ItemsOf(d) : PostChecklist(d, held))
AssetFairSpec == AssetSpec /\ AssetFairness
-----------------------------------------------------------------------------
(* Properties *)

\* From the acceptance on every item of the employee is on a check list, also
\* in a second round that finds the lists of the first.
ChecklistCovers ==
    db.state \in NoticeStages \cup LegacyStages \cup ExitStages =>
        \A i \in Items : line[i] # "none"

\* The step that completes the clearance settles all departments: what any of
\* them took back, in whatever order they approved, is off the allocations.
CompletionSettles ==
    [][db.state \notin ExitStages /\ db'.state \in ExitStages =>
        \A i \in Items : line'[i] = "returned" /\ Owner[i] \in linked
                            => i \notin allocated']_assetVars
=============================================================================
