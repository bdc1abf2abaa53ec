--------------------------- MODULE OffboardingTx ---------------------------
(***************************************************************************)
(* The portal requests of the offboarding workflow as the transactions     *)
(* they are.  Odoo runs every request on a PostgreSQL transaction at       *)
(* REPEATABLE READ: the handler reads a snapshot taken at its first query, *)
(* its UPDATEs fail when a row it writes was changed and committed since,  *)
(* and a failed request is rolled back and run again from a new snapshot,  *)
(* a few times.  Nothing in the handlers locks a row or re-reads one, so   *)
(* what keeps concurrent requests apart is which rows each of them writes. *)
(***************************************************************************)
EXTENDS Offboarding, Naturals, FiniteSets

CONSTANTS
    Workers,    \* server processes that run requests
    MaxTries    \* runs of one request before its conflict is reported

ASSUME MaxTriesAssumption == MaxTries \in Nat \ {0}

VARIABLE tx     \* the transaction each worker runs

txVars == <<db, formOpen, tx>>
-----------------------------------------------------------------------------
(* Requests: the portal routes, and the rows their handlers update.        *)

ResignationRow  == <<"resignation">>
EmployeeRow     == <<"employee">>
ClearanceRow(d) == <<"clearance", d>>

ClearanceRows == {ClearanceRow(d) : d \in Departments}
Rows          == {ResignationRow, EmployeeRow} \cup ClearanceRows

SubmitForm == <<"submit">>
Approve(d) == <<"approve", d>>

Requests == {SubmitForm, <<"accept">>, <<"reject">>, <<"request_revoke">>,
             <<"accept_revoke">>, <<"reject_revoke">>,
             <<"interview">>, <<"archive">>}
                \cup {Approve(d) : d \in Departments}

\* The handler of request q does not raise (for an approval: is not skipped)
\* when it reads x.
Can(q, x) == CASE q = SubmitForm           -> CanPortalSubmit(x)
               [] q = <<"accept">>         -> CanAccept(x)
               [] q = <<"reject">>         -> CanReject(x)
               [] q = <<"request_revoke">> -> CanRequestRevoke(x)
               [] q = <<"accept_revoke">>  -> CanDecideRevoke(x)
               [] q = <<"reject_revoke">>  -> CanDecideRevoke(x)
               [] q = <<"interview">>      -> CanInterview(x)
               [] q = <<"archive">>        -> CanArchive(x)
               [] OTHER                    -> \E d \in Departments :
                                                q = Approve(d) /\ CanClear(d, x)

\* What the handler of q leaves in its own view of the database.
Value(q, x) == CASE q = SubmitForm           -> PortalSubmitted(x)
                 [] q = <<"accept">>         -> Accepted(x)
                 [] q = <<"reject">>         -> Rejected(x)
                 [] q = <<"request_revoke">> -> RevokeRequested(x)
                 [] q = <<"accept_revoke">>  -> RevokeAccepted(x)
                 [] q = <<"reject_revoke">>  -> RevokeRejected(x)
                 [] q = <<"interview">>      -> Interviewed(x)
                 [] q = <<"archive">>        -> Archived(x)
                 [] OTHER                    -> Cleared(q[2], x)

\* Variant: the department statuses are computed on the fly, not stored, so
\* an approval that does not complete the clearance writes its own row only.
ApprovalRows_NotStored(d, x) ==
    IF AllCleared([x EXCEPT !.clearance[d] = "approved"])
    THEN {ResignationRow, ClearanceRow(d)} ELSE {ClearanceRow(d)}

\* An approval writes the department's status on the resignation, a stored
\* computed field, besides its own row: the only row two approvals share.
ApprovalRows(d, x) == {ResignationRow, ClearanceRow(d)}

\* The rows the handler of q updates when it reads x.
Writes(q, x) == CASE q = <<"accept">>  -> Rows
                  [] q \in {<<"reject">>, <<"accept_revoke">>, <<"archive">>}
                                       -> {ResignationRow, EmployeeRow}
                  [] q \in {SubmitForm, <<"request_revoke">>,
                            <<"reject_revoke">>, <<"interview">>}
                                       -> {ResignationRow}
                  [] OTHER             -> ApprovalRows(q[2], x)

\* The database after a transaction that left y in its view and updated the
\* rows W commits on top of x.
Merge(x, y, W) ==
    [state        |-> IF ResignationRow \in W THEN y.state ELSE x.state,
     is_revoked   |-> IF ResignationRow \in W THEN y.is_revoked ELSE x.is_revoked,
     notice_dates |-> IF EmployeeRow \in W THEN y.notice_dates ELSE x.notice_dates,
     active       |-> IF EmployeeRow \in W THEN y.active ELSE x.active,
     clearance    |-> [d \in Departments |->
                        IF ClearanceRow(d) \in W THEN y.clearance[d]
                                                 ELSE x.clearance[d]]]
-----------------------------------------------------------------------------
(* Transactions *)

NoRequest == <<"none">>

Idle == [request |-> NoRequest, base |-> EmptyDatabase, missed |-> {}, tries |-> 0]

Transaction == [request : Requests \cup {NoRequest},
                base    : Database,       \* the snapshot the handler reads
                missed  : SUBSET Rows,    \* rows committed by others since
                tries   : 0..MaxTries]

Running(w) == tx[w].request # NoRequest

\* A handler whose guard fails on its snapshot raises.
Allowed(w) == Can(tx[w].request, tx[w].base)

\* A row it updates was committed by somebody else since its snapshot.
Conflicts(w) == Writes(tx[w].request, tx[w].base) \cap tx[w].missed # {}

\* Two first submissions: the second INSERT meets unique(emp_name), which is
\* reported to the user instead of being run again.
Duplicate(w) == tx[w].request = SubmitForm /\ tx[w].base.state = "none"

TxInit == Init /\ tx = [w \in Workers |-> Idle]

Begin(w, q) == /\ ~Running(w)
               /\ q = SubmitForm => formOpen
               /\ tx' = [tx EXCEPT ![w] = [request |-> q, base |-> db,
                                           missed |-> {}, tries |-> 1]]
               /\ UNCHANGED <<db, formOpen>>

\* The handler raised, or the approval was of a clearance approved already.
Refuse(w) == /\ Running(w) /\ ~Allowed(w)
             /\ tx' = [tx EXCEPT ![w] = Idle]
             /\ UNCHANGED <<db, formOpen>>

\* The transactions once w has committed the rows W.
CommitSeen(w, W) ==
    [v \in Workers |->
        IF v = w THEN Idle
        ELSE IF Running(v) THEN [tx[v] EXCEPT !.missed = @ \cup W] ELSE tx[v]]

Commit(w) ==
    /\ Running(w) /\ Allowed(w) /\ ~Conflicts(w)
    /\ LET q == tx[w].request
           W == Writes(q, tx[w].base)
       IN  /\ db' = Merge(db, Value(q, tx[w].base), W)
           /\ tx' = CommitSeen(w, W)
    /\ UNCHANGED formOpen

MayRetry(w) == ~Duplicate(w) /\ tx[w].tries < MaxTries

\* Rolled back and run again on a new snapshot.
Retry(w) == /\ Running(w) /\ Allowed(w) /\ Conflicts(w) /\ MayRetry(w)
            /\ tx' = [tx EXCEPT ![w] = [request |-> tx[w].request, base |-> db,
                                        missed |-> {}, tries |-> tx[w].tries + 1]]
            /\ UNCHANGED <<db, formOpen>>

\* Rolled back and reported to the user.
GiveUp(w) == /\ Running(w) /\ Allowed(w) /\ Conflicts(w) /\ ~MayRetry(w)
             /\ tx' = [tx EXCEPT ![w] = Idle]
             /\ UNCHANGED <<db, formOpen>>

\* The worker process ends in the middle of a request (a limit, a restart):
\* PostgreSQL rolls back what it wrote.
Die(w) == /\ Running(w)
          /\ tx' = [tx EXCEPT ![w] = Idle]
          /\ UNCHANGED <<db, formOpen>>

\* The form page is read and rendered in one query.
TxOpenForm  == OpenForm /\ UNCHANGED tx
TxCloseForm == CloseForm /\ UNCHANGED tx

TxNext == \/ TxOpenForm \/ TxCloseForm
          \/ \E w \in Workers : \/ \E q \in Requests : Begin(w, q)
                                \/ Refuse(w) \/ Commit(w) \/ Retry(w)
                                \/ GiveUp(w) \/ Die(w)

TxSpec == TxInit /\ [][TxNext]_txVars
-----------------------------------------------------------------------------
(* Properties *)

\* The transactions are well formed.
TxTypeOK == TypeOK /\ tx \in [Workers -> Transaction]

\* A transaction that has not missed an update of the resignation row has
\* missed nothing at all: every handler that writes anything writes that row,
\* so its snapshot is still the committed database.
SnapshotCurrent ==
    \A w \in Workers :
        Running(w) /\ ResignationRow \notin tx[w].missed => tx[w].base = db

\* A page is at hand, or a request it sent is on its way.
PageHeld == formOpen \/ \E w \in Workers : tx[w].request = SubmitForm

\* The requests, interleaved, retried and killed as they may be, do to the
\* committed rows what the atomic handlers of Offboarding do.
Atomic == INSTANCE Offboarding WITH formOpen <- PageHeld

AtomicSpec == Atomic!Spec
=============================================================================
