----------------------------- MODULE MCRecords -----------------------------
(* The records of the employees' applications share nothing in the code but  *)
(* the employee: a behaviour is about one of them.                           *)
EXTENDS TravelRequest, DocumentRequest, OfferLetter, EmployeeLoan, Appraisal, Attendance, AbsenceLeaves

CONSTANTS A, B

VARIABLE area

Setting(first, second, minimum) == [first |-> first, second |-> second, minimum |-> minimum]
MCSettings == {Setting({}, NoUser, 1), Setting({A, B}, NoUser, 1), Setting({A}, B, 1), Setting({NoUser}, NoUser, 0)}

Loan(principal, duration, months, disb, mode, method) ==
    [principal |-> principal, duration |-> duration, months |-> months, disb |-> disb,
     mode |-> mode, method |-> method]
MCLoans == {Loan(12, 5, 0, 1, "amount", "cash"), Loan(12, 5, 0, 2, "amount", "salary"),
            Loan(12, 0, 2, 2, "months", "cash"), Loan(12, 0, 2, 1, "months", "salary"),
            Loan(12, 5, 0, 1, "flat", "cash"), Loan(12, 5, 0, 2, "flat", "salary")}

Chain(length, executive, md) == [length |-> length, executive |-> executive, md |-> md]
MCChains == {Chain(4, 3, 4), Chain(2, 1, 2), Chain(3, 3, 0), Chain(1, 0, 1)}

MCCorrections == {[in |-> 1, out |-> 3]}

others == <<travelVars, docVars, offerVars, loanVars, appraisalVars>>
recordVars == <<area, others, attendanceVars, absenceVars>>

\* Of the areas that a behaviour is not about, one initial state is enough.
One(S) == CHOOSE x \in S : TRUE

Init == /\ area \in {"travel", "document", "offer", "loan", "appraisal", "attendance", "absence"}
        /\ TravelInit /\ RequestInit /\ OfferInit /\ LoanInit /\ AppraisalInit /\ AttendanceInit /\ AbsenceInit
        /\ area # "travel" => setting = One(Settings)
        /\ area # "document" => document = -1
        /\ area # "offer" => offer.terms = One(Terms)
        /\ area # "loan" => loan = One(Loans)
        /\ area # "appraisal" => chain = One(Chains)
        /\ area # "attendance" => offDays = One(Calendars)

OthersNext ==
    \/ area = "travel" /\ TravelNext /\ UNCHANGED <<docVars, offerVars, loanVars, appraisalVars>>
    \/ area = "document" /\ RequestNext /\ UNCHANGED <<travelVars, offerVars, loanVars, appraisalVars>>
    \/ area = "offer" /\ OfferNext /\ UNCHANGED <<travelVars, docVars, loanVars, appraisalVars>>
    \/ area = "loan" /\ LoanNext /\ UNCHANGED <<travelVars, docVars, offerVars, appraisalVars>>
    \/ area = "appraisal" /\ AppraisalNext /\ UNCHANGED <<travelVars, docVars, offerVars, loanVars>>

Next == /\ UNCHANGED area
        /\ \/ area = "attendance" /\ AttendanceNext /\ UNCHANGED <<others, absenceVars>>
           \/ area = "absence" /\ AbsenceNext /\ UNCHANGED <<others, attendanceVars>>
           \/ UNCHANGED <<attendanceVars, absenceVars>> /\ OthersNext

Spec == Init /\ [][Next]_recordVars

\* The type invariant, of every kind of record.
RecordsTypeOK == TravelTypeOK /\ DocumentTypeOK /\ OfferTypeOK /\ LoanTypeOK /\ AppraisalTypeOK
                 /\ AttendanceTypeOK /\ AbsenceTypeOK
=============================================================================
