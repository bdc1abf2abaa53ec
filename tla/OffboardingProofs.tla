------------------------- MODULE OffboardingProofs --------------------------
(***************************************************************************)
(* Safety of the offboarding workflow for any set of departments.          *)
(***************************************************************************)
EXTENDS OffboardingAssets, OffboardingTx, TLAPS

\* From the acceptance on every department has a clearance.
ClearancesIssued ==
    db.state \in NoticeStages \cup LegacyStages \cup ExitStages =>
        \A d \in Departments : db.clearance[d] # "none"

\* Only archiving deactivates the employee.
InactiveIsArchived == db.active <=> db.state # "archived"

\* The inductive invariant.  ClearancesIssued is what keeps NoStrandedClearance
\* through an approval: a clearance that is not approved is then pending.
IInv == /\ TypeOK
        /\ ClearanceGate
        /\ NoStrandedClearance
        /\ ClearancesIssued
        /\ NoticeDatesFollow
        /\ RevokedFlagFollows
        /\ InactiveIsArchived

\* The part of the invariant that speaks of the database value alone.
Good(x) ==
    /\ x \in Database
    /\ x.state \in ExitStages => AllCleared(x)
    /\ x.state \in NoticeStages \cup LegacyStages =>
            \E d \in Departments : x.clearance[d] = "pending"
    /\ x.state \in NoticeStages \cup LegacyStages \cup ExitStages =>
            \A d \in Departments : x.clearance[d] # "none"
    /\ x.state \in NoticeStages \cup LegacyStages => x.notice_dates
    /\ x.state \in {"none", "draft", "rejected", "revoked"} => ~x.notice_dates
    /\ x.is_revoked => x.state \in {"revoked"} \cup ExitStages
    /\ x.active <=> x.state # "archived"

\* Submissions, from the backend and from the portal, keep a good database good.
LEMMA SubmissionsGood ==
    ASSUME NEW x, Good(x)
    PROVE  /\ CanCreate(x) => Good(Created(x))
           /\ CanSubmit(x) => Good(Submitted(x))
           /\ CanPortalSubmit(x) => Good(PortalSubmitted(x))
BY DEF Good, Database, Stages, NoticeStages, LegacyStages, ExitStages,
       CanCreate, Created, CanSubmit, Submitted, CanPortalSubmit, PortalSubmitted,
       AllCleared

\* Accepting issues a pending clearance to each department.
LEMMA AcceptedGood ==
    ASSUME NEW x, Good(x), CanAccept(x)
    PROVE  Good(Accepted(x))
BY DepartmentsAssumption
   DEF Good, Database, Stages, NoticeStages, LegacyStages, ExitStages,
       ClearanceStates, CanAccept, Accepted, InitiatedClearances, AllCleared

\* The other decisions of the manager and the employee's revocation.
LEMMA DecisionsGood ==
    ASSUME NEW x, Good(x)
    PROVE  /\ CanReject(x) => Good(Rejected(x))
           /\ CanRequestRevoke(x) => Good(RevokeRequested(x))
           /\ CanDecideRevoke(x) => Good(RevokeAccepted(x)) /\ Good(RevokeRejected(x))
BY DEF Good, Database, Stages, NoticeStages, LegacyStages, ExitStages, AllCleared,
       CanReject, Rejected, CanRequestRevoke, RevokeRequested, CanDecideRevoke,
       RevokeAccepted, RevokeRejected

\* An approval completes the clearance or leaves another department pending.
LEMMA ClearedGood ==
    ASSUME NEW x, Good(x), NEW d \in Departments, CanClear(d, x)
    PROVE  Good(Cleared(d, x))
<1> DEFINE y == [x EXCEPT !.clearance[d] = "approved"]
<1>1. /\ y \in Database
      /\ y.state = x.state /\ y.notice_dates = x.notice_dates
      /\ y.is_revoked = x.is_revoked /\ y.active = x.active
      /\ y.clearance = [x.clearance EXCEPT ![d] = "approved"]
  BY DEF Good, Database, ClearanceStates
<1>2. x.state \notin ExitStages
  BY DEF Good, CanClear, AllCleared
<1>3. CASE AllCleared(y)
  <2> DEFINE z == [y EXCEPT !.state = "exit_interview_pending"]
  <2>1. Cleared(d, x) = z
    BY <1>3 DEF Cleared, CompletionChecked
  <2>2. /\ z \in Database
        /\ z.state = "exit_interview_pending" /\ z.notice_dates = y.notice_dates
        /\ z.is_revoked = y.is_revoked /\ z.active = y.active
        /\ z.clearance = y.clearance
    BY <1>1 DEF Database, Stages, ExitStages
  <2> HIDE DEF y, z
  <2>3. z.active
    BY <1>1, <1>2, <2>2 DEF Good, ExitStages
  <2>4. Good(z)
    BY <1>3, <2>2, <2>3 DEF Good, NoticeStages, LegacyStages, ExitStages, AllCleared
  <2> QED BY <2>1, <2>4
<1>4. CASE ~AllCleared(y)
  <2>1. Cleared(d, x) = y
    BY <1>4 DEF Cleared, CompletionChecked
  <2>2. PICK e \in Departments : y.clearance[e] # "approved"
    BY <1>4 DEF AllCleared
  <2>3. x.state \in NoticeStages \cup LegacyStages =>
            /\ y.clearance[e] = "pending"
            /\ \A f \in Departments : y.clearance[f] # "none"
    BY <1>1, <2>2 DEF Good, Database, ClearanceStates
  <2> QED
    BY <1>1, <1>2, <2>1, <2>3 DEF Good
<1> QED BY <1>3, <1>4

\* HR's steps and the lane of the base module.
LEMMA ClosingGood ==
    ASSUME NEW x, Good(x)
    PROVE  /\ CanInterview(x) => Good(Interviewed(x))
           /\ CanArchive(x) => Good(Archived(x))
           /\ CanStartLane(x) => Good(LaneStarted(x))
           /\ CanFirstApprove(x) => Good(FirstApproved(x))
           /\ CanSecondApprove(x) => Good(SecondApproved(x))
           /\ CanFinalApprove(x) => Good(FinalApproved(x))
           /\ CanReceiveItems(x) => Good(ItemsReceived(x))
BY DEF Good, Database, Stages, NoticeStages, LegacyStages, ExitStages, AllCleared,
       CanInterview, Interviewed, CanArchive, Archived, CanStartLane, LaneStarted,
       CanFirstApprove, FirstApproved, CanSecondApprove, SecondApproved,
       CanFinalApprove, FinalApproved, CanReceiveItems, ItemsReceived

\* The invariant speaks of the database and of the pages apart.
LEMMA GoodIsIInv == IInv <=> Good(db) /\ formOpen \in BOOLEAN
BY DEF IInv, Good, TypeOK, ClearanceGate, NoStrandedClearance, ClearancesIssued,
       NoticeDatesFollow, RevokedFlagFollows, InactiveIsArchived

\* The invariant holds of a new employee.
LEMMA Initially == Init => IInv
<1>1. EmptyDatabase \in Database
  BY DEF EmptyDatabase, Database, Stages, ClearanceStates
<1>2. /\ EmptyDatabase.state = "none" /\ EmptyDatabase.active
      /\ ~EmptyDatabase.is_revoked /\ ~EmptyDatabase.notice_dates
  BY DEF EmptyDatabase
<1>3. Good(EmptyDatabase)
  BY <1>1, <1>2 DEF Good, NoticeStages, LegacyStages, ExitStages
<1> QED
  BY <1>3, GoodIsIInv DEF Init

\* Every step of the workflow keeps the invariant.
LEMMA Kept == IInv /\ [Next]_vars => IInv'
<1> SUFFICES ASSUME Good(db), formOpen \in BOOLEAN, [Next]_vars
             PROVE  Good(db') /\ formOpen' \in BOOLEAN
  BY GoodIsIInv DEF IInv, Good, TypeOK, ClearanceGate, NoStrandedClearance,
     ClearancesIssued, NoticeDatesFollow, RevokedFlagFollows, InactiveIsArchived
<1>1. CASE OpenForm \/ CloseForm
  BY <1>1 DEF OpenForm, CloseForm
<1>2. CASE PortalSubmit
  BY <1>2, SubmissionsGood DEF PortalSubmit
<1>3. CASE Create \/ Submit
  BY <1>3, SubmissionsGood DEF Create, Submit, Request
<1>4. CASE Accept
  BY <1>4, AcceptedGood DEF Accept, Request
<1>5. CASE Reject \/ RequestRevoke \/ AcceptRevoke \/ RejectRevoke
  BY <1>5, DecisionsGood DEF Reject, RequestRevoke, AcceptRevoke, RejectRevoke, Request
<1>6. CASE \E d \in Departments : Clear(d)
  BY <1>6, ClearedGood DEF Clear, Request
<1>7. CASE Interview \/ Archive \/ StartLane \/ FirstApprove
              \/ SecondApprove \/ FinalApprove \/ ReceiveItems
  BY <1>7, ClosingGood DEF Interview, Archive, StartLane, FirstApprove,
     SecondApprove, FinalApprove, ReceiveItems, Request
<1>8. CASE UNCHANGED vars
  BY <1>8 DEF vars
<1> QED
  BY <1>1, <1>2, <1>3, <1>4, <1>5, <1>6, <1>7, <1>8 DEF Next, Paperwork

\* The workflow keeps its invariant.
THEOREM Invariance == Spec => []IInv
<1> QED BY Initially, Kept, PTL DEF Spec

\* The types are kept.
THEOREM TypeCorrect == Spec => []TypeOK
<1>1. IInv => TypeOK
  BY DEF IInv
<1> QED BY <1>1, Invariance, PTL

\* Nobody reaches the exit interview before every department has cleared.
THEOREM GateHolds == Spec => []ClearanceGate
<1>1. IInv => ClearanceGate
  BY DEF IInv
<1> QED BY <1>1, Invariance, PTL

\* A request that waits for the departments has a clearance to wait for.
THEOREM NeverStranded == Spec => []NoStrandedClearance
<1>1. IInv => NoStrandedClearance
  BY DEF IInv
<1> QED BY <1>1, Invariance, PTL

\* The employee's dates follow the decisions.
THEOREM DatesFollow == Spec => []NoticeDatesFollow
<1>1. IInv => NoticeDatesFollow
  BY DEF IInv
<1> QED BY <1>1, Invariance, PTL

\* The revocation flag does not outlive a new submission.
THEOREM FlagFollows == Spec => []RevokedFlagFollows
<1>1. IInv => RevokedFlagFollows
  BY DEF IInv
<1> QED BY <1>1, Invariance, PTL

\* Nothing moves an archived record: the pages need an active employee, the
\* handlers another stage, and no clearance is left to approve.
THEOREM ArchiveFinal == Spec => ArchivedIsFinal
<1>1. ASSUME IInv, Next, db.state = "archived"
      PROVE  db' = db
  <2>1. ~db.active /\ \A d \in Departments : ~CanClear(d, db)
    BY <1>1 DEF IInv, InactiveIsArchived, ClearanceGate, ExitStages, AllCleared, CanClear
  <2> QED
    BY <1>1, <2>1
       DEF Next, Paperwork, Request, OpenForm, CloseForm, CanOpenForm, PortalSubmit,
           CanPortalSubmit, Create, CanCreate, Submit, CanSubmit, Accept, CanAccept,
           Reject, CanReject, RequestRevoke, CanRequestRevoke, AcceptRevoke,
           RejectRevoke, CanDecideRevoke, Clear, Interview, CanInterview, Archive,
           CanArchive, StartLane, CanStartLane, FirstApprove, CanFirstApprove,
           SecondApprove, CanSecondApprove, FinalApprove, CanFinalApprove,
           ReceiveItems, CanReceiveItems
<1>2. IInv /\ [Next]_vars =>
        [db.state = "archived" => db'.state = "archived" /\ ~db'.active]_vars
  BY <1>1 DEF vars, IInv, InactiveIsArchived
<1> QED BY <1>2, Invariance, PTL DEF Spec, ArchivedIsFinal
-----------------------------------------------------------------------------
(* The assets: the allocations and the check lists beside the workflow *)

\* The rows of the two sides have their types.
AssetTypeOK ==
    /\ allocState \in [Departments -> {"none", "pending", "approved"}]
    /\ allocated \subseteq Items
    /\ line \in [Items -> {"none", "held", "returned"}]
    /\ linked \subseteq Departments

\* A department's list is built as a whole, and once there are clearances every
\* department has its list.
ListsAreWhole ==
    \A i, j \in Items : Owner[i] = Owner[j] /\ line[i] # "none" => line[j] # "none"
ClearedFromLists ==
    (\E d \in Departments : db.clearance[d] # "none") => \A i \in Items : line[i] # "none"

\* ClearancesIssued, of the workflow, is what turns a stage into a clearance; the
\* lists follow from there.
AssetInv == IInv /\ AssetTypeOK /\ ListsAreWhole /\ ClearedFromLists

\* Paperwork leaves the clearances alone and does not enter the exit stages.
LEMMA PaperworkOnly ==
    ASSUME Paperwork, IInv
    PROVE  /\ db'.clearance = db.clearance
           /\ db'.state \in ExitStages => db.state \in ExitStages
BY DEF IInv, TypeOK, Database, ExitStages, Paperwork, Request, OpenForm, CloseForm,
       PortalSubmit, PortalSubmitted, Create, Created, Submit, Submitted,
       Reject, Rejected, RequestRevoke, RevokeRequested, AcceptRevoke, RevokeAccepted,
       RejectRevoke, RevokeRejected, Interview, CanInterview, Interviewed,
       Archive, CanArchive, Archived, StartLane, LaneStarted, FirstApprove, FirstApproved,
       SecondApprove, SecondApproved, FinalApprove, FinalApproved,
       ReceiveItems, ItemsReceived

\* What the assets do to the workflow is a step of the workflow.
LEMMA AssetStepIsStep == AssetNext => [Next]_vars
BY DEF AssetNext, Next, vars, Generate, AcceptAssets, ResetAllocation, SaveAllocation,
       PostChecklist, PostChecklistAgain

\* With the assets beside it the workflow is still the one of Offboarding: all
\* that is proved of Spec above holds of AssetSpec too.
THEOREM AssetsRefineWorkflow == AssetSpec => Spec
<1>1. AssetInit => Init
  BY DEF AssetInit
<1>2. [AssetNext]_assetVars => [Next]_vars
  BY AssetStepIsStep DEF assetVars, vars
<1> QED BY <1>1, <1>2, PTL DEF AssetSpec, Spec

\* The lists as they are built and as they are posted.
LEMMA ListsBuilt ==
    ASSUME AssetTypeOK, ListsAreWhole
    PROVE  /\ InitiatedLines \in [Items -> {"held", "returned"}]
           /\ \A d \in Departments : \A held \in SUBSET ItemsOf(d) :
                /\ Ticked(d, held) \in [Items -> {"none", "held", "returned"}]
                /\ \A i \in Items : Ticked(d, held)[i] = "none" <=> line[i] = "none"
<1>1. ASSUME NEW i \in Items, HasLines(Owner[i])
      PROVE  line[i] \in {"held", "returned"}
  BY <1>1 DEF HasLines, ItemsOf, ListsAreWhole, AssetTypeOK
<1> QED
  BY <1>1 DEF InitiatedLines, Ticked, AssetTypeOK

\* The invariant of the assets holds at the start and every step keeps it.
THEOREM AssetInvariance == AssetSpec => []AssetInv
<1>1. AssetInit => AssetInv
  BY Initially DEF AssetInit, AssetInv, AssetTypeOK, ListsAreWhole, ClearedFromLists,
     Init, EmptyDatabase
<1>2. AssetInv /\ [AssetNext]_assetVars => AssetInv'
  <2> SUFFICES ASSUME AssetInv, [AssetNext]_assetVars PROVE AssetInv'
    OBVIOUS
  <2> USE OwnerAssumption
  <2>1. IInv'
    BY AssetStepIsStep, Kept DEF AssetInv, assetVars, vars
  <2>2. CASE UNCHANGED assetVars
    BY <2>1, <2>2 DEF AssetInv, assetVars, AssetTypeOK, ListsAreWhole, ClearedFromLists
  <2>3. CASE Paperwork /\ UNCHANGED assets
    BY <2>1, <2>3, PaperworkOnly
       DEF AssetInv, assets, AssetTypeOK, ListsAreWhole, ClearedFromLists
  <2>4. CASE Generate
    BY <2>1, <2>4 DEF Generate, AssetInv, AssetTypeOK, ListsAreWhole, ClearedFromLists
  <2>5. CASE AcceptAssets
    <3>1. \A i \in Items : line'[i] # "none"
      BY <2>5, ListsBuilt DEF AcceptAssets, AssetInv
    <3>2. AssetTypeOK'
      BY <2>5, ListsBuilt DEF AcceptAssets, AssetInv, AssetTypeOK, InitiatedLinks
    <3> QED
      BY <2>1, <3>1, <3>2 DEF AssetInv, ListsAreWhole, ClearedFromLists
  <2>6. CASE \E d \in Departments : ResetAllocation(d)
    BY <2>1, <2>6 DEF ResetAllocation, AssetInv, AssetTypeOK, ListsAreWhole, ClearedFromLists
  <2>7. CASE \E d \in Departments : \E ticked \in SUBSET ItemsOf(d) : \E approve \in BOOLEAN :
                SaveAllocation(d, ticked, approve)
    BY <2>1, <2>7
       DEF SaveAllocation, AssetInv, AssetTypeOK, ListsAreWhole, ClearedFromLists, ItemsOf
  <2>8. ASSUME NEW d \in Departments, NEW held \in SUBSET ItemsOf(d),
               PostChecklist(d, held) \/ PostChecklistAgain(d, held)
        PROVE  AssetInv'
    <3>1. /\ line' = Ticked(d, held)
          /\ db.clearance[d] # "none"
          /\ linked' = linked /\ allocState' = allocState
          /\ allocated' \subseteq allocated
      BY <2>8 DEF PostChecklist, PostChecklistAgain, Clear, Request, CanClear
    <3>2. line' \in [Items -> {"none", "held", "returned"}]
          /\ \A i \in Items : line'[i] = "none" <=> line[i] = "none"
      BY <3>1, ListsBuilt DEF AssetInv
    <3>3. \A i \in Items : line'[i] # "none"
      BY <3>1, <3>2 DEF AssetInv, ClearedFromLists
    <3> QED
      BY <2>1, <3>1, <3>2, <3>3 DEF AssetInv, AssetTypeOK, ListsAreWhole, ClearedFromLists
  <2> QED
    BY <2>2, <2>3, <2>4, <2>5, <2>6, <2>7, <2>8 DEF AssetNext
<1> QED BY <1>1, <1>2, PTL DEF AssetSpec

\* The types of the allocations and the check lists are kept.
THEOREM AssetTypesKept == AssetSpec => []AssetTypeOK
<1>1. AssetInv => AssetTypeOK
  BY DEF AssetInv
<1> QED BY <1>1, AssetInvariance, PTL

\* From the acceptance on every item is on a check list, in every round: a stage
\* past the acceptance means clearances, and clearances mean lists.
THEOREM EveryItemIsListed == AssetSpec => []ChecklistCovers
<1>1. AssetInv => ChecklistCovers
  BY DepartmentsAssumption
     DEF AssetInv, IInv, ClearancesIssued, ClearedFromLists, ChecklistCovers
<1> QED BY <1>1, AssetInvariance, PTL

\* Completion comes with an approval, and that approval unticks what any of the
\* departments took back.
THEOREM CompletionTakesBack == AssetSpec => CompletionSettles
<1>1. ASSUME AssetInv, AssetNext, db.state \notin ExitStages, db'.state \in ExitStages,
             NEW i \in Items, line'[i] = "returned", Owner[i] \in linked
      PROVE  i \notin allocated'
  <2>1. PICK d \in Departments : \E held \in SUBSET ItemsOf(d) : PostChecklist(d, held)
    BY <1>1, PaperworkOnly
       DEF AssetNext, AssetInv, Generate, AcceptAssets, Accept, Request, CanAccept, Accepted,
           IInv, TypeOK, Database, ExitStages,
           ResetAllocation, SaveAllocation, PostChecklistAgain
  <2>2. db' = Cleared(d, db)
    BY <2>1 DEF PostChecklist, Clear, Request
  <2>3. AllCleared(db')
    BY <1>1, <2>2, AssetStepIsStep, Kept DEF AssetInv, IInv, ClearanceGate
  <2>4. allocated' = allocated \ Removed(d, line')
    BY <2>1, <2>3 DEF PostChecklist
  <2> QED
    BY <1>1, <2>4 DEF Removed
<1>2. AssetInv /\ [AssetNext]_assetVars =>
        [db.state \notin ExitStages /\ db'.state \in ExitStages =>
            \A i \in Items : line'[i] = "returned" /\ Owner[i] \in linked
                                => i \notin allocated']_assetVars
  BY <1>1 DEF assetVars
<1> QED BY <1>2, AssetInvariance, PTL DEF AssetSpec, CompletionSettles
-----------------------------------------------------------------------------
(***************************************************************************)
(* Concurrent portal requests do what the atomic handlers do, for any set  *)
(* of departments, any number of workers and any number of retries.        *)
(***************************************************************************)

\* A handler that does not raise reads a good database.
TxInv == TxTypeOK /\ SnapshotCurrent /\ Good(db)
-----------------------------------------------------------------------------
(* Requests *)

Simple == {<<"accept">>, <<"reject">>, <<"request_revoke">>, <<"accept_revoke">>,
           <<"reject_revoke">>, <<"interview">>, <<"archive">>}

\* The names of the requests differ.
LEMMA RequestNames ==
    /\ NoRequest \notin Requests
    /\ \A d \in Departments :
            Approve(d) \notin Simple \cup {SubmitForm} /\ Approve(d)[2] = d
    /\ SubmitForm \notin Simple
<1>1. NoRequest[1] = "none" /\ SubmitForm[1] = "submit"
  BY DEF NoRequest, SubmitForm
<1>2. \A d \in Departments : Approve(d)[1] = "approve" /\ Approve(d)[2] = d
  BY DEF Approve
<1>3. \A q \in Simple : q[1] \in {"accept", "reject", "request_revoke",
            "accept_revoke", "reject_revoke", "interview", "archive"}
  BY DEF Simple
<1> QED BY <1>1, <1>2, <1>3 DEF Requests, Simple

\* The rows are told apart too.
LEMMA RowNames ==
    /\ ResignationRow # EmployeeRow
    /\ \A d \in Departments : ClearanceRow(d) \notin {ResignationRow, EmployeeRow}
    /\ \A d, e \in Departments : ClearanceRow(d) = ClearanceRow(e) => d = e
<1>1. ResignationRow[1] = "resignation" /\ EmployeeRow[1] = "employee"
  BY DEF ResignationRow, EmployeeRow
<1>2. \A d \in Departments : ClearanceRow(d)[1] = "clearance" /\ ClearanceRow(d)[2] = d
  BY DEF ClearanceRow
<1> QED BY <1>1, <1>2

\* Every handler writes the resignation row, and no row the tables do not have.
LEMMA WritesResignation ==
    ASSUME NEW q \in Requests, NEW x
    PROVE  ResignationRow \in Writes(q, x) /\ Writes(q, x) \subseteq Rows
<1>1. CASE q \in Simple \cup {SubmitForm}
  BY <1>1, RequestNames DEF Writes, Simple, Rows
<1>2. CASE \E d \in Departments : q = Approve(d)
  <2>1. PICK d \in Departments : q = Approve(d)
    BY <1>2
  <2>2. Writes(q, x) = ApprovalRows(d, x)
    BY <2>1, RequestNames DEF Writes, Simple
  <2> QED
    BY <2>1, <2>2 DEF ApprovalRows, Rows, ClearanceRows
<1> QED BY <1>1, <1>2 DEF Requests, Simple

\* Rows that are not written must not differ.
LEMMA MergeLemma ==
    ASSUME NEW x \in Database, NEW y \in Database, NEW W,
           ResignationRow \in W,
           EmployeeRow \notin W => y.notice_dates = x.notice_dates /\ y.active = x.active,
           \A d \in Departments : ClearanceRow(d) \notin W => y.clearance[d] = x.clearance[d]
    PROVE  Merge(x, y, W) = y
<1> DEFINE c == [d \in Departments |-> IF ClearanceRow(d) \in W THEN y.clearance[d]
                                                                ELSE x.clearance[d]]
<1>1. y.clearance \in [Departments -> ClearanceStates]
  BY DEF Database
<1>2. c = y.clearance
  BY <1>1
<1>3. Merge(x, y, W) =
        [state        |-> y.state,
         is_revoked   |-> y.is_revoked,
         notice_dates |-> y.notice_dates,
         active       |-> y.active,
         clearance    |-> c]
  BY DEF Merge
<1>4. y = [state        |-> y.state,
           is_revoked   |-> y.is_revoked,
           notice_dates |-> y.notice_dates,
           active       |-> y.active,
           clearance    |-> y.clearance]
  BY DEF Database
<1> HIDE DEF c
<1> QED BY <1>2, <1>3, <1>4

\* What a handler leaves behind is good again.
LEMMA ValueGood ==
    ASSUME NEW x, Good(x), NEW q \in Requests, Can(q, x)
    PROVE  Good(Value(q, x))
<1>1. CASE q = SubmitForm
  BY <1>1, SubmissionsGood DEF Can, Value, SubmitForm, Approve
<1>2. CASE q = <<"accept">>
  BY <1>2, AcceptedGood DEF Can, Value, SubmitForm
<1>3. CASE q \in {<<"reject">>, <<"request_revoke">>, <<"accept_revoke">>, <<"reject_revoke">>}
  BY <1>3, DecisionsGood DEF Can, Value, SubmitForm
<1>4. CASE q \in {<<"interview">>, <<"archive">>}
  BY <1>4, ClosingGood DEF Can, Value, SubmitForm
<1>5. CASE \E d \in Departments : q = Approve(d)
  <2>1. PICK d \in Departments : q = Approve(d)
    BY <1>5
  <2>2. q \notin Simple \cup {SubmitForm} /\ q[2] = d
    BY <2>1, RequestNames
  <2>3. \E e \in Departments : q = Approve(e) /\ CanClear(e, x)
    BY <2>2 DEF Can, Simple
  <2>4. CanClear(d, x)
    BY <2>2, <2>3, RequestNames
  <2>5. Value(q, x) = Cleared(d, x)
    BY <2>2 DEF Value, Simple
  <2> QED BY <2>4, <2>5, ClearedGood
<1> QED BY <1>1, <1>2, <1>3, <1>4, <1>5 DEF Requests

\* Committing on the database the handler read leaves what it computed: a
\* handler changes no column of a row it does not write.
LEMMA MergeIsValue ==
    ASSUME NEW x, Good(x), NEW q \in Requests, Can(q, x)
    PROVE  Merge(x, Value(q, x), Writes(q, x)) = Value(q, x)
<1> DEFINE y == Value(q, x)
           W == Writes(q, x)
<1>1. x \in Database /\ y \in Database
  BY ValueGood DEF Good
<1>2. ResignationRow \in W
  BY WritesResignation
<1>3. EmployeeRow \notin W => y.notice_dates = x.notice_dates /\ y.active = x.active
  <2>1. CASE q \in {SubmitForm, <<"request_revoke">>, <<"reject_revoke">>, <<"interview">>}
    BY <2>1, <1>1 DEF Value, SubmitForm, Database, PortalSubmitted, RevokeRequested,
       RevokeRejected, Interviewed
  <2>2. CASE q \in {<<"accept">>, <<"reject">>, <<"accept_revoke">>, <<"archive">>}
    BY <2>2 DEF Writes, Rows, SubmitForm
  <2>3. CASE \E d \in Departments : q = Approve(d)
    <3>1. PICK d \in Departments : q = Approve(d)
      BY <2>3
    <3>2. y = Cleared(d, x)
      BY <3>1, RequestNames DEF Value, Simple
    <3> QED BY <3>2, <1>1 DEF Cleared, CompletionChecked, Database
  <2> QED BY <2>1, <2>2, <2>3 DEF Requests
<1>4. ASSUME NEW d \in Departments, ClearanceRow(d) \notin W
      PROVE  y.clearance[d] = x.clearance[d]
  <2>1. CASE q = <<"accept">>
    BY <2>1, <1>4 DEF Writes, Rows, ClearanceRows, SubmitForm
  <2>2. CASE q \in (Simple \cup {SubmitForm}) \ {<<"accept">>}
    BY <2>2, <1>1 DEF Value, Simple, SubmitForm, Database, PortalSubmitted,
       Rejected, RevokeRequested, RevokeAccepted, RevokeRejected, Interviewed, Archived
  <2>3. CASE \E e \in Departments : q = Approve(e)
    <3>1. PICK e \in Departments : q = Approve(e)
      BY <2>3
    <3>2. y = Cleared(e, x) /\ W = ApprovalRows(e, x)
      BY <3>1, RequestNames DEF Value, Writes, Simple
    <3>3. d # e
      BY <3>2, <1>4 DEF ApprovalRows
    <3> QED BY <3>2, <3>3, <1>1 DEF Cleared, CompletionChecked, Database
  <2> QED BY <2>1, <2>2, <2>3 DEF Requests, Simple
<1> HIDE DEF y, W
<1>5. Merge(x, y, W) = y
  BY <1>1, <1>2, <1>3, <1>4, MergeLemma
<1> QED BY <1>5 DEF y, W
-----------------------------------------------------------------------------
(* The invariant of the transactions *)

\* What a commit leaves of the other transactions' records.
LEMMA CommitSeenLemma ==
    ASSUME NEW w \in Workers, NEW W, tx \in [Workers -> Transaction]
    PROVE  /\ CommitSeen(w, W)[w] = Idle
           /\ \A v \in Workers \ {w} :
                /\ CommitSeen(w, W)[v].request = tx[v].request
                /\ CommitSeen(w, W)[v].base = tx[v].base
                /\ Running(v) => CommitSeen(w, W)[v].missed = tx[v].missed \cup W
BY DEF CommitSeen, Transaction, Running

\* Types of the transactions: commits and aborts.
LEMMA CommitSeenType ==
    ASSUME NEW w \in Workers, NEW W \in SUBSET Rows, tx \in [Workers -> Transaction]
    PROVE  CommitSeen(w, W) \in [Workers -> Transaction]
<1>1. Idle \in Transaction
  BY MaxTriesAssumption
     DEF Idle, Transaction, EmptyDatabase, Database, Stages, ClearanceStates
<1>2. ASSUME NEW v \in Workers
      PROVE  [tx[v] EXCEPT !.missed = @ \cup W] \in Transaction /\ tx[v] \in Transaction
  BY DEF Transaction
<1> QED BY <1>1, <1>2 DEF CommitSeen

\* A transaction whose snapshot has missed no row it writes commits on the
\* database it read: its effect is the atomic handler's.
LEMMA CommitIsAtomic ==
    ASSUME TxInv, NEW w \in Workers, Commit(w)
    PROVE  LET q == tx[w].request
           IN  /\ q \in Requests
               /\ tx[w].base = db
               /\ Can(q, db)
               /\ db' = Value(q, db)
               /\ tx' = CommitSeen(w, Writes(q, db))
<1> DEFINE q == tx[w].request
<1>1. q \in Requests
  BY DEF Commit, Running, TxInv, TxTypeOK, Transaction
<1>2. ResignationRow \notin tx[w].missed
  BY <1>1, WritesResignation DEF Commit, Conflicts
<1>3. tx[w].base = db
  BY <1>2 DEF Commit, TxInv, SnapshotCurrent
<1>4. Can(q, db) /\ db' = Merge(db, Value(q, db), Writes(q, db))
                 /\ tx' = CommitSeen(w, Writes(q, db))
  BY <1>3 DEF Commit, Allowed
<1> QED BY <1>1, <1>3, <1>4, MergeIsValue DEF TxInv

\* TxInv is inductive.
THEOREM TxInvariance == TxSpec => []TxInv
<1>1. TxInit => TxInv
  <2> SUFFICES ASSUME TxInit PROVE TxInv
    OBVIOUS
  <2>1. Good(db) /\ TypeOK
    <3>1. EmptyDatabase \in Database
      BY DEF EmptyDatabase, Database, Stages, ClearanceStates
    <3>2. /\ EmptyDatabase.state = "none" /\ EmptyDatabase.active
          /\ ~EmptyDatabase.is_revoked /\ ~EmptyDatabase.notice_dates
      BY DEF EmptyDatabase
    <3> QED
      BY <3>1, <3>2 DEF TxInit, Init, Good, TypeOK, NoticeStages, LegacyStages, ExitStages
  <2>2. Idle \in Transaction
    BY MaxTriesAssumption
       DEF Idle, Transaction, EmptyDatabase, Database, Stages, ClearanceStates
  <2>3. tx \in [Workers -> Transaction] /\ SnapshotCurrent
    BY <2>2 DEF TxInit, SnapshotCurrent, Running, Idle
  <2> QED BY <2>1, <2>3 DEF TxInv, TxTypeOK
<1>2. TxInv /\ [TxNext]_txVars => TxInv'
  <2> SUFFICES ASSUME TxInv, [TxNext]_txVars PROVE TxInv'
    OBVIOUS
  <2> USE DEF TxInv, TxTypeOK
  <2>0. Idle \in Transaction /\ Idle.request = NoRequest
    BY MaxTriesAssumption
       DEF Idle, Transaction, EmptyDatabase, Database, Stages, ClearanceStates
  <2>1. CASE TxOpenForm \/ TxCloseForm \/ UNCHANGED txVars
    BY <2>1 DEF TxOpenForm, TxCloseForm, OpenForm, CloseForm, txVars, SnapshotCurrent,
       Running, TypeOK
  <2>2. ASSUME NEW w \in Workers, NEW q \in Requests, Begin(w, q)
        PROVE  TxInv'
    <3>1. [request |-> q, base |-> db, missed |-> {}, tries |-> 1] \in Transaction
      BY MaxTriesAssumption DEF Transaction, TypeOK
    <3> QED BY <2>2, <3>1 DEF Begin, SnapshotCurrent, Running, TypeOK
  <2>3. ASSUME NEW w \in Workers, Refuse(w) \/ GiveUp(w) \/ Die(w)
        PROVE  TxInv'
    BY <2>0, <2>3 DEF Refuse, GiveUp, Die, SnapshotCurrent, Running, TypeOK
  <2>4. ASSUME NEW w \in Workers, Retry(w)
        PROVE  TxInv'
    <3>1. tx[w].tries \in 0..MaxTries /\ tx[w].tries < MaxTries
      BY <2>4 DEF Retry, MayRetry, Transaction
    <3>2. [request |-> tx[w].request, base |-> db,
           missed |-> {}, tries |-> tx[w].tries + 1] \in Transaction
      BY <3>1, MaxTriesAssumption DEF Transaction, TypeOK
    <3> QED BY <2>4, <3>2 DEF Retry, SnapshotCurrent, Running, TypeOK
  <2>5. ASSUME NEW w \in Workers, Commit(w)
        PROVE  TxInv'
    <3> DEFINE q == tx[w].request
               W == Writes(q, db)
    <3>1. /\ q \in Requests /\ Can(q, db)
          /\ db' = Value(q, db) /\ tx' = CommitSeen(w, W)
      BY <2>5, CommitIsAtomic
    <3>2. ResignationRow \in W /\ W \in SUBSET Rows
      BY <3>1, WritesResignation
    <3>3. Good(db')
      BY <3>1, ValueGood
    <3>4. formOpen' \in BOOLEAN
      BY <2>5 DEF Commit, TypeOK
    <3> HIDE DEF W
    <3>5. tx' \in [Workers -> Transaction]
      BY <3>1, <3>2, CommitSeenType
    <3>6. ASSUME NEW v \in Workers, Running(v)', ResignationRow \notin tx'[v].missed
          PROVE  FALSE
      <4>1. CASE v = w
        BY <2>0, <4>1, <3>1, <3>6, CommitSeenLemma DEF Running
      <4>2. CASE v # w
        BY <4>2, <3>1, <3>2, <3>6, CommitSeenLemma DEF Running
      <4> QED BY <4>1, <4>2
    <3> QED BY <3>3, <3>4, <3>5, <3>6 DEF SnapshotCurrent, TypeOK, Good
  <2> QED BY <2>1, <2>2, <2>3, <2>4, <2>5 DEF TxNext
<1> QED BY <1>1, <1>2, PTL DEF TxSpec

\* A snapshot that has not missed an update of the resignation is current.
THEOREM SnapshotsCurrent == TxSpec => []SnapshotCurrent
<1>1. TxInv => SnapshotCurrent
  BY DEF TxInv
<1> QED BY <1>1, TxInvariance, PTL

\* Concurrent approvals cannot leave a request with nothing to wait for.
THEOREM TxNeverStranded == TxSpec => []NoStrandedClearance
<1>1. TxInv => NoStrandedClearance
  BY DEF TxInv, Good, NoStrandedClearance
<1> QED BY <1>1, TxInvariance, PTL
-----------------------------------------------------------------------------
(* The transactions implement the atomic requests *)

\* What a commit does to the committed rows is a step of the atomic workflow.
LEMMA ValueIsAtomicStep ==
    ASSUME NEW q \in Requests, Can(q, db), db' = Value(q, db),
           q = SubmitForm => PageHeld, PageHeld' \in BOOLEAN,
           q # SubmitForm => PageHeld' = PageHeld
    PROVE  Atomic!Next
<1>1. CASE q = SubmitForm
  <2>1. CanPortalSubmit(db) /\ db' = PortalSubmitted(db)
    BY <1>1 DEF Can, Value, SubmitForm, Approve
  <2>2. Atomic!PortalSubmit
    BY <1>1, <2>1 DEF Atomic!PortalSubmit, CanPortalSubmit, PortalSubmitted,
       Atomic!CanPortalSubmit, Atomic!PortalSubmitted
  <2> QED BY <2>2 DEF Atomic!Next, Atomic!Paperwork
<1>2. CASE q = <<"accept">>
  <2>1. CanAccept(db) /\ db' = Accepted(db) /\ PageHeld' = PageHeld
    BY <1>2 DEF Can, Value, SubmitForm, Approve
  <2>2. Atomic!Accept
    BY <2>1 DEF Atomic!Accept, Atomic!Request, CanAccept, Accepted,
       InitiatedClearances, Atomic!CanAccept, Atomic!Accepted, Atomic!InitiatedClearances
  <2> QED BY <2>2 DEF Atomic!Next
<1>3. CASE q = <<"reject">>
  <2>1. CanReject(db) /\ db' = Rejected(db) /\ PageHeld' = PageHeld
    BY <1>3 DEF Can, Value, SubmitForm, Approve
  <2>2. Atomic!Reject
    BY <2>1 DEF Atomic!Reject, Atomic!Request, CanReject, Rejected,
       Atomic!CanReject, Atomic!Rejected
  <2> QED BY <2>2 DEF Atomic!Next, Atomic!Paperwork
<1>4. CASE q = <<"request_revoke">>
  <2>1. CanRequestRevoke(db) /\ db' = RevokeRequested(db) /\ PageHeld' = PageHeld
    BY <1>4 DEF Can, Value, SubmitForm, Approve
  <2>2. Atomic!RequestRevoke
    BY <2>1 DEF Atomic!RequestRevoke, Atomic!Request, CanRequestRevoke,
       RevokeRequested, Atomic!CanRequestRevoke, Atomic!RevokeRequested
  <2> QED BY <2>2 DEF Atomic!Next, Atomic!Paperwork
<1>5. CASE q = <<"accept_revoke">>
  <2>1. CanDecideRevoke(db) /\ db' = RevokeAccepted(db) /\ PageHeld' = PageHeld
    BY <1>5 DEF Can, Value, SubmitForm, Approve
  <2>2. Atomic!AcceptRevoke
    BY <2>1 DEF Atomic!AcceptRevoke, Atomic!Request, CanDecideRevoke,
       RevokeAccepted, Atomic!CanDecideRevoke, Atomic!RevokeAccepted
  <2> QED BY <2>2 DEF Atomic!Next, Atomic!Paperwork
<1>6. CASE q = <<"reject_revoke">>
  <2>1. CanDecideRevoke(db) /\ db' = RevokeRejected(db) /\ PageHeld' = PageHeld
    BY <1>6 DEF Can, Value, SubmitForm, Approve
  <2>2. Atomic!RejectRevoke
    BY <2>1 DEF Atomic!RejectRevoke, Atomic!Request, CanDecideRevoke,
       RevokeRejected, Atomic!CanDecideRevoke, Atomic!RevokeRejected
  <2> QED BY <2>2 DEF Atomic!Next, Atomic!Paperwork
<1>7. CASE q = <<"interview">>
  <2>1. CanInterview(db) /\ db' = Interviewed(db) /\ PageHeld' = PageHeld
    BY <1>7 DEF Can, Value, SubmitForm, Approve
  <2>2. Atomic!Interview
    BY <2>1 DEF Atomic!Interview, Atomic!Request, CanInterview, Interviewed,
       Atomic!CanInterview, Atomic!Interviewed
  <2> QED BY <2>2 DEF Atomic!Next, Atomic!Paperwork
<1>8. CASE q = <<"archive">>
  <2>1. CanArchive(db) /\ db' = Archived(db) /\ PageHeld' = PageHeld
    BY <1>8 DEF Can, Value, SubmitForm, Approve
  <2>2. Atomic!Archive
    BY <2>1 DEF Atomic!Archive, Atomic!Request, CanArchive, Archived,
       Atomic!CanArchive, Atomic!Archived
  <2> QED BY <2>2 DEF Atomic!Next, Atomic!Paperwork
<1>9. CASE \E d \in Departments : q = Approve(d)
  <2>1. PICK d \in Departments : q = Approve(d)
    BY <1>9
  <2>2. q \notin Simple \cup {SubmitForm} /\ q[2] = d
    BY <2>1, RequestNames
  <2>3. \E e \in Departments : q = Approve(e) /\ CanClear(e, db)
    BY <2>2 DEF Can, Simple
  <2>4. CanClear(d, db) /\ db' = Cleared(d, db) /\ PageHeld' = PageHeld
    BY <2>2, <2>3, RequestNames DEF Value, Simple
  <2>5. Atomic!Clear(d)
    BY <2>4 DEF Atomic!Clear, Atomic!Request, CanClear, Cleared, CompletionChecked,
       AllCleared, Atomic!CanClear, Atomic!Cleared, Atomic!CompletionChecked,
       Atomic!AllCleared
  <2> QED BY <2>5 DEF Atomic!Next
<1> QED BY <1>1, <1>2, <1>3, <1>4, <1>5, <1>6, <1>7, <1>8, <1>9 DEF Requests

\* A page is held by the browser or by a submission under way: a worker that
\* drops its request can only take the held page away.
LEMMA DroppedIsStutterOrClose ==
    ASSUME NEW w \in Workers, tx \in [Workers -> Transaction],
           tx' = [tx EXCEPT ![w] = Idle], UNCHANGED <<db, formOpen>>
    PROVE  Atomic!CloseForm \/ UNCHANGED Atomic!vars
<1>1. Idle.request # SubmitForm
  BY DEF Idle, NoRequest, SubmitForm
<1>2. PageHeld' => PageHeld
  BY <1>1 DEF PageHeld
<1>3. PageHeld \in BOOLEAN /\ PageHeld' \in BOOLEAN
  BY DEF PageHeld
<1> QED BY <1>2, <1>3 DEF Atomic!CloseForm, Atomic!vars

\* The concurrent requests of the portal, with their conflicts, retries and
\* crashes, implement the atomic workflow.
THEOREM TxImplementsAtomic == TxSpec => AtomicSpec
<1>1. TxInit => Atomic!Init
  <2> SUFFICES ASSUME TxInit PROVE Atomic!Init
    OBVIOUS
  <2>1. \A w \in Workers : tx[w].request # SubmitForm
    BY DEF TxInit, Idle, NoRequest, SubmitForm
  <2>2. ~PageHeld
    BY <2>1 DEF PageHeld, TxInit, Init
  <2>3. PageHeld = FALSE
    BY <2>2 DEF PageHeld
  <2>4. db = EmptyDatabase
    BY DEF TxInit, Init
  <2> QED BY <2>3, <2>4 DEF Atomic!Init, Atomic!EmptyDatabase, EmptyDatabase
<1>2. TxInv /\ [TxNext]_txVars => [Atomic!Next]_Atomic!vars
  <2> SUFFICES ASSUME TxInv, [TxNext]_txVars
               PROVE  Atomic!Next \/ UNCHANGED Atomic!vars
    OBVIOUS
  <2>0. tx \in [Workers -> Transaction] /\ formOpen \in BOOLEAN
    BY DEF TxInv, TxTypeOK, TypeOK
  <2>1. PageHeld \in BOOLEAN /\ PageHeld' \in BOOLEAN
    BY DEF PageHeld
  <2>2. CASE TxOpenForm
    <3>1. CanOpenForm(db) /\ PageHeld' = TRUE /\ UNCHANGED db
      BY <2>2, <2>1 DEF TxOpenForm, OpenForm, PageHeld
    <3>2. Atomic!OpenForm
      BY <3>1 DEF Atomic!OpenForm, CanOpenForm, ActiveStages,
         Atomic!CanOpenForm, Atomic!ActiveStages
    <3> QED BY <3>2 DEF Atomic!Next, Atomic!Paperwork
  <2>3. CASE TxCloseForm
    <3>1. PageHeld = TRUE /\ UNCHANGED db
      BY <2>3, <2>1 DEF TxCloseForm, CloseForm, PageHeld
    <3>2. Atomic!CloseForm \/ UNCHANGED Atomic!vars
      BY <3>1, <2>1 DEF Atomic!CloseForm, Atomic!vars
    <3> QED BY <3>2 DEF Atomic!Next, Atomic!Paperwork
  <2>4. CASE UNCHANGED txVars
    BY <2>4 DEF txVars, Atomic!vars, PageHeld
  <2>5. ASSUME NEW w \in Workers, NEW q \in Requests, Begin(w, q)
        PROVE  UNCHANGED Atomic!vars
    <3>1. tx[w].request = NoRequest /\ (q = SubmitForm => formOpen)
      BY <2>5 DEF Begin, Running
    <3>2. \A v \in Workers : tx'[v].request = IF v = w THEN q ELSE tx[v].request
      BY <2>5, <2>0 DEF Begin
    <3>3. NoRequest # SubmitForm
      BY RequestNames DEF Requests
    <3>4. PageHeld' <=> PageHeld
      BY <2>5, <3>1, <3>2, <3>3 DEF Begin, PageHeld
    <3> QED BY <3>4, <2>1, <2>5 DEF Begin, Atomic!vars
  <2>6. ASSUME NEW w \in Workers, Refuse(w) \/ GiveUp(w) \/ Die(w)
        PROVE  Atomic!Next \/ UNCHANGED Atomic!vars
    BY <2>0, <2>6, DroppedIsStutterOrClose
       DEF Refuse, GiveUp, Die, Atomic!Next, Atomic!Paperwork
  <2>7. ASSUME NEW w \in Workers, Retry(w)
        PROVE  UNCHANGED Atomic!vars
    <3>1. \A v \in Workers : tx'[v].request = tx[v].request
      BY <2>7, <2>0 DEF Retry
    <3>2. PageHeld' <=> PageHeld
      BY <2>7, <3>1 DEF Retry, PageHeld
    <3> QED BY <3>2, <2>1, <2>7 DEF Retry, Atomic!vars
  <2>8. ASSUME NEW w \in Workers, Commit(w)
        PROVE  Atomic!Next
    <3> DEFINE q == tx[w].request
               W == Writes(q, db)
    <3>1. /\ q \in Requests /\ Can(q, db)
          /\ db' = Value(q, db) /\ tx' = CommitSeen(w, W)
      BY <2>8, CommitIsAtomic
    <3>2. q = SubmitForm => PageHeld
      BY DEF PageHeld
    <3>3. Idle.request # SubmitForm
      BY DEF Idle, NoRequest, SubmitForm
    <3> HIDE DEF W
    <3>4. \A v \in Workers : tx'[v].request =
                                IF v = w THEN Idle.request ELSE tx[v].request
      BY <3>1, <2>0, CommitSeenLemma
    <3>5. q # SubmitForm => (PageHeld' <=> PageHeld)
      BY <2>8, <3>3, <3>4 DEF Commit, PageHeld
    <3> HIDE DEF q
    <3> QED BY <3>1, <3>2, <3>5, <2>1, ValueIsAtomicStep
  <2> QED BY <2>2, <2>3, <2>4, <2>5, <2>6, <2>7, <2>8
          DEF TxNext, Atomic!Next, Atomic!Paperwork
<1> QED BY <1>1, <1>2, TxInvariance, PTL DEF TxSpec, AtomicSpec, Atomic!Spec
=============================================================================
