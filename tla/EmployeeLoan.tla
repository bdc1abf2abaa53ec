---------------------------- MODULE EmployeeLoan ----------------------------
(***************************************************************************)
(* One loan of ivis_hr_employee_loan: its installments are computed,       *)
(* approved, reset, paid by the form's buttons or by a confirmed payslip,  *)
(* and computed again after every payment in cash.                         *)
(*                                                                         *)
(* Amounts are whole numbers of the currency's smallest unit.  Interest is *)
(* left out: it is a column of its own that no principal depends on, except *)
(* in the reducing mode, which is left out too; so are dates, states and   *)
(* principals typed into the lines by hand.  The buttons and the balloon of *)
(* a line check nothing: the form hides them by its state, but a page that *)
(* is old still offers them when a payslip has paid the line since.        *)
(***************************************************************************)
EXTENDS Integers, Sequences, FiniteSets, SequencesExt

CONSTANTS
    Loans,              \* loans to check: [principal, duration, months, disb, mode, method]
    Balloons,           \* amounts typed as a balloon payment
    Durations,          \* amounts typed as the installment of a running loan
    MaxMonth, MaxLines, MaxBalloons \* bounds: months of the calendar, lines and balloons of one loan

VARIABLES
    loan,       \* the loan's record
    stage,      \* "draft" or "applied"; the form has no button to other states
    lines,      \* installment_lines, oldest first: [principal, balloon, state, month]
    today       \* the current month

loanVars == <<loan, stage, lines, today>>

\* "amount": interest free, duration is the amount per month; "months": interest
\* free, months is their number; "flat": with interest, duration per month.
ASSUME EmployeeLoanAssumption ==
    /\ \A l \in Loans :
          /\ l \in [principal : Nat \ {0}, duration : Nat, months : Nat, disb : Nat \ {0},
                    mode : {"amount", "months", "flat"}, method : {"cash", "salary"}]
          /\ (l.months > 0) = (l.mode = "months") /\ (l.duration > 0) = (l.mode # "months")
    /\ Balloons \subseteq Nat /\ Durations \subseteq Nat \ {0}
    /\ MaxMonth \in Nat \ {0} /\ {MaxLines, MaxBalloons} \subseteq Nat
-----------------------------------------------------------------------------
(* compute_installments *)

Open(l) == l.state = "unpaid"
Kept(ls) ==
    LET kept[n \in 0..Len(ls)] == IF n = 0 THEN <<>>
                                  ELSE IF Open(ls[n]) THEN kept[n - 1] ELSE Append(kept[n - 1], ls[n])
    IN kept[Len(ls)]

SumOf(amounts) ==
    LET sum[n \in 0..Len(amounts)] == IF n = 0 THEN 0 ELSE sum[n - 1] + amounts[n]
    IN sum[Len(amounts)]
Principals(ls) == [i \in 1..Len(ls) |-> ls[i].principal]
Total(ls) == SumOf(Principals(ls))

\* Variant: what is approved is not off yet.
Off_PaidOnly(ls) == [i \in 1..Len(ls) |-> IF ls[i].state = "paid" THEN ls[i].principal + ls[i].balloon ELSE 0]
\* What is left of the principal when the lines paid or approved, and their
\* balloons, are taken off.
Off(ls) == [i \in 1..Len(ls) |-> IF Open(ls[i]) THEN 0 ELSE ls[i].principal + ls[i].balloon]
Left(ls) == loan.principal - SumOf(Off(ls))

Rounded(a, n) == (2 * a + n) \div (2 * n)
Ceiling(a, n) == -((-a) \div n)

\* The first new line follows the last one kept.  A loan without lines starts in
\* the month of its disbursement, one of which none is kept in the current month.
\* Variant: it always is.
First_Today(ls) == today
First(ls) == IF ls = <<>> THEN loan.disb
             ELSE IF Kept(ls) = <<>> THEN today ELSE Last(Kept(ls)).month + 1
NewLines(ls) ==
    LET n == IF loan.mode = "months" THEN loan.months ELSE Ceiling(Left(ls), loan.duration)
        amount == IF loan.mode = "months" THEN Rounded(Left(ls), n) ELSE loan.duration
    IN [i \in 1..n |-> [principal |-> amount, balloon |-> 0, state |-> "unpaid", month |-> First(ls) + i - 1]]

\* check_total_amount: the last line takes what the others leave.
Balanced(ls) ==
    LET rest == loan.principal - Total(Front(ls))
    IN IF rest > 0 THEN [ls EXCEPT ![Len(ls)].principal = rest] ELSE ls

\* Interest free: the open lines are deleted and the rest is spread anew.
\* Variant: the lines kept are deleted too.
Spread_All(ls) == NewLines(ls)
Spread(ls) == Kept(ls) \o NewLines(ls)

\* Flat: the open lines stay and share the rest.
Shared(ls) ==
    LET share == Max({0, Rounded(Left(ls), Len(ls) - Len(Kept(ls)))})
    IN [i \in 1..Len(ls) |-> IF Open(ls[i]) THEN [ls[i] EXCEPT !.principal = share] ELSE ls[i]]

\* Errors that undo the whole request: a rest smaller than an installment, and
\* a division by the number of open lines when there is none.
Computable(ls) ==
    CASE loan.mode = "months" -> TRUE
      [] loan.mode = "amount" -> Left(ls) >= loan.duration
      [] loan.mode = "flat"   -> IF ls = <<>> THEN Left(ls) >= loan.duration ELSE \E i \in DOMAIN ls : Open(ls[i])
Computed(ls) == Balanced(IF loan.mode = "flat" /\ ls # <<>> THEN Shared(ls) ELSE Spread(ls))
-----------------------------------------------------------------------------
LoanInit == loan \in Loans /\ stage = "draft" /\ lines = <<>> /\ today = 1

\* The policies are met and no other loan is open, or nothing happens.
Apply == /\ stage = "draft"
         /\ stage' = "applied"
         /\ UNCHANGED <<loan, lines, today>>

Recompute(ls) == /\ Computable(ls) /\ lines' = Computed(ls)
                 /\ Len(lines') <= MaxLines /\ Last(lines').month <= MaxMonth

Compute == stage = "applied" /\ Recompute(lines) /\ UNCHANGED <<loan, stage, today>>

\* The installment and the balloons stay editable in the loan's form.
ChangeDuration(d) ==
    /\ loan.mode # "months"
    /\ loan' = [loan EXCEPT !.duration = d]
    /\ UNCHANGED <<stage, lines, today>>
SetBalloon(i, b) ==
    /\ Cardinality({j \in DOMAIN lines : lines[j].balloon > 0}) < MaxBalloons
    /\ lines' = [lines EXCEPT ![i].balloon = b]
    /\ UNCHANGED <<loan, stage, today>>

ApprovePayment(i) == /\ lines' = [lines EXCEPT ![i].state = "approve"]
                     /\ UNCHANGED <<loan, stage, today>>
ResetPayment(i) == /\ lines' = [lines EXCEPT ![i].state = "unpaid"]
                   /\ UNCHANGED <<loan, stage, today>>

\* The button Pay.  Only cash is booked and computed again.
PayInstallment(i) ==
    LET paid == [lines EXCEPT ![i].state = "paid"] IN
    /\ IF loan.method = "cash" THEN Recompute(paid) ELSE lines' = paid
    /\ UNCHANGED <<loan, stage, today>>

\* A payslip with a loan deduction is confirmed: the installments of its month
\* are paid, whatever their state and the method of their loan.
PayslipDone(i) == lines[i].month <= today /\ PayInstallment(i)

NextMonth == today < MaxMonth /\ today' = today + 1 /\ UNCHANGED <<loan, stage, lines>>

LoanNext ==
    \/ Apply \/ Compute \/ NextMonth
    \/ \E d \in Durations : ChangeDuration(d)
    \/ \E i \in DOMAIN lines : \/ ApprovePayment(i) \/ ResetPayment(i) \/ PayInstallment(i) \/ PayslipDone(i)
                               \/ \E b \in Balloons : SetBalloon(i, b)

LoanSpec == LoanInit /\ [][LoanNext]_loanVars
-----------------------------------------------------------------------------
\* The type invariant.
Lines == [principal : Int, balloon : Balloons \cup {0}, state : {"unpaid", "approve", "paid"}, month : Nat]
LoanTypeOK ==
    /\ stage \in {"draft", "applied"} /\ today \in 1..MaxMonth
    /\ lines \in Seq(Lines) /\ Len(lines) <= MaxLines

\* In whatever order installments are approved, reset and paid, with whatever
\* balloons, and however often the rest is spread again: the installments add
\* up to the approved amount, but for the rounding of each to the currency.
\* (A balloon is asked for again by the last line; once it is overpaid, lines
\* become negative.)
ScheduleCovers ==
    lines # <<>> /\ (\A i \in DOMAIN lines : lines[i].principal >= 0) =>
        LET more == Total(lines) - loan.principal IN 0 <= more /\ 2 * more <= Len(lines)

\* The employee never owes two installments of one loan in one month, so that a
\* payslip deducts and pays one.
OnePerMonth == \A i, j \in DOMAIN lines : lines[i].month = lines[j].month => i = j

\* However often the rest is spread again, and whichever lines are paid first: an
\* installment that is paid is neither deleted nor changed.  Only a button or the
\* balloon of that very line, on an old page, still does; and the last line of a
\* flat loan, paid before others, gets another principal, the one they leave.
PaidStays ==
    [][\A i \in DOMAIN lines :
          lines[i].state = "paid" =>
              \/ \E j \in DOMAIN lines' : lines'[j] = lines[i]
              \/ \E s \in {"unpaid", "approve"} : lines' = [lines EXCEPT ![i].state = s]
              \/ \E b \in Balloons : lines' = [lines EXCEPT ![i].balloon = b]
              \/ /\ loan.mode = "flat" /\ i = Len(lines)
                 /\ lines'[i] = [lines[i] EXCEPT !.principal = loan.principal - Total(Front(lines'))]]_loanVars

=============================================================================
