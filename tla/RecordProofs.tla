---------------------------- MODULE RecordProofs ----------------------------
(***************************************************************************)
(* The records of the employees' applications: appraisals, document        *)
(* requests, offer letters and loans.                                      *)
(***************************************************************************)
EXTENDS MCRecords, AttendanceProofs, TravelProofs, Inductions, TLAPS

(***************************************************************************)
(* Every manager of an appraisal recommends once, in the order of the      *)
(* chain, and the raise that is published is the director's: for chains of *)
(* any length, with or without a user at the top.                          *)
(*                                                                         *)
(* Why: whoever can reach the appraisal, as approver, as last approver or  *)
(* from a page, has lines of everyone below him, so his own line is either *)
(* there or the next one.                                                  *)
(***************************************************************************)

\* The lines of the first managers of a chain of n, in order.
Ordered(ls, n) ==
    /\ ls \in Seq(LinesOf(n))
    /\ \A i \in DOMAIN ls : ls[i].by = i

\* The inductive invariant.
AppraisalInv ==
    /\ AppraisalTypeOK
    /\ Ordered(appraisal.lines, chain.length)
    /\ appraisal.approver <= Len(appraisal.lines) + 1
    /\ appraisal.last <= Len(appraisal.lines)
    /\ \A u \in pages : u <= Len(appraisal.lines) + 1
    /\ appraisal.state = "md" => appraisal.approver = chain.length /\ chain.md = chain.length /\ chain.length # 0
    /\ appraisal.state \in {"done", "published"} => Len(appraisal.lines) = chain.length

-----------------------------------------------------------------------------
(* The lines *)

\* Who has no line yet and has lines of everyone below gets the next one.
LEMMA WithLineOrdered ==
    ASSUME NEW n \in Nat, NEW ls, Ordered(ls, n), NEW u \in 1..n, u <= Len(ls) + 1,
           ~Has(ls, u), NEW raise \in Raises
    PROVE  /\ Ordered(WithLine(ls, u, raise), n)
           /\ Len(WithLine(ls, u, raise)) = Len(ls) + 1
           /\ u = Len(ls) + 1
<1>1. u = Len(ls) + 1
  BY DEF Ordered, Has
<1>2. WithLine(ls, u, raise) \in Seq(LinesOf(n))
  <2>1. [by |-> u, raise |-> raise] \in LinesOf(n)
    BY DEF LinesOf
  <2> QED BY <2>1 DEF WithLine, Ordered
<1>3. Len(WithLine(ls, u, raise)) = Len(ls) + 1
  BY DEF WithLine, Ordered
<1>4. \A i \in DOMAIN WithLine(ls, u, raise) : WithLine(ls, u, raise)[i].by = i
  BY <1>1 DEF WithLine, Ordered
<1> QED BY <1>1, <1>2, <1>3, <1>4 DEF Ordered

\* A line that was saved leaves the lines in order.
LEMMA SavedOrdered ==
    ASSUME NEW n \in Nat, NEW ls, Ordered(ls, n), NEW u \in 1..n, u <= Len(ls) + 1,
           NEW given \in Raises \cup {Nothing}
    PROVE  Ordered(Saved(ls, u, given), n) /\ Len(Saved(ls, u, given)) >= Len(ls)
<1>1. CASE given = Nothing
  BY <1>1 DEF Saved, Ordered
<1>2. CASE given # Nothing /\ Has(ls, u)
  <2> DEFINE new == [i \in DOMAIN ls |-> IF ls[i].by = u THEN [ls[i] EXCEPT !.raise = given] ELSE ls[i]]
  <2>1. Saved(ls, u, given) = new
    BY <1>2 DEF Saved
  <2>2. given \in Raises
    BY <1>2
  <2>3. \A i \in DOMAIN ls : new[i] \in LinesOf(n) /\ new[i].by = i
    <3> TAKE i \in DOMAIN ls
    <3>1. ls[i] \in LinesOf(n) /\ ls[i].by = i
      BY DEF Ordered
    <3>2. [ls[i] EXCEPT !.raise = given] \in LinesOf(n)
          /\ [ls[i] EXCEPT !.raise = given].by = i
      BY <2>2, <3>1 DEF LinesOf
    <3> QED BY <3>1, <3>2
  <2>4. new \in Seq(LinesOf(n)) /\ Len(new) = Len(ls) /\ DOMAIN new = DOMAIN ls
    <3> HIDE DEF new
    <3>1. DOMAIN new = 1..Len(ls) /\ Len(ls) \in Nat
      BY DEF new, Ordered
    <3> QED BY <2>3, <3>1 DEF Ordered, new
  <2> QED BY <2>1, <2>3, <2>4 DEF Ordered
<1>3. CASE given # Nothing /\ ~Has(ls, u)
  BY <1>3, WithLineOrdered DEF Saved, Ordered
<1> QED BY <1>1, <1>2, <1>3

\* Afterwards everyone up to u has a line.
LEMMA CopiedOrdered ==
    ASSUME NEW n \in Nat, NEW ls, Ordered(ls, n), NEW u \in 1..n, u <= Len(ls) + 1
    PROVE  Ordered(Copied(ls, u), n) /\ Len(Copied(ls, u)) >= Len(ls) /\ Len(Copied(ls, u)) >= u
<1>1. CASE Has(ls, u)
  <2>1. Copied(ls, u) = ls
    BY <1>1 DEF Copied
  <2> QED BY <1>1, <2>1 DEF Has, Ordered
<1>2. CASE ~Has(ls, u)
  <2> DEFINE raise == IF ls = <<>> THEN 0 ELSE ls[Len(ls)].raise
  <2>1. raise \in Raises
    <3>1. CASE ls = <<>>
      BY <3>1, AppraisalAssumption
    <3>2. CASE ls # <<>>
      <4>1. Len(ls) \in DOMAIN ls /\ ls[Len(ls)] \in LinesOf(n)
        BY <3>2 DEF Ordered
      <4> QED BY <3>2, <4>1 DEF LinesOf
    <3> QED BY <3>1, <3>2
  <2>2. Copied(ls, u) = WithLine(ls, u, raise)
    BY <1>2 DEF Copied
  <2> HIDE DEF raise
  <2>3. Len(ls) \in Nat
    BY DEF Ordered
  <2> QED BY <1>2, <2>1, <2>2, <2>3, WithLineOrdered
<1> QED BY <1>1, <1>2

\* What a submission leaves behind, of a manager and of the director.
LEMMA SubmittedOrdered ==
    ASSUME NEW n \in Nat, NEW ls, Ordered(ls, n), NEW u \in 1..n, u <= Len(ls) + 1,
           NEW given \in Raises \cup {Nothing},
           NEW new \in {OfManager(ls, u, given), OfDirector(ls, u, given)}
    PROVE  /\ Ordered(new, n) /\ Len(new) >= Len(ls) /\ Len(new) >= u
           /\ u <= Len(new) + 1
           /\ Copied(new, u) = new
<1>1. Len(ls) \in Nat
  BY DEF Ordered
<1>2. PICK mid : mid \in {ls, Saved(ls, u, given)} /\ new = Copied(mid, u)
  BY DEF OfManager, OfDirector
<1>3. Ordered(mid, n) /\ Len(mid) >= Len(ls) /\ Len(mid) \in Nat
  <2>1. CASE mid = ls
    BY <1>1, <2>1
  <2>2. CASE mid = Saved(ls, u, given)
    <3>1. Ordered(mid, n) /\ Len(mid) >= Len(ls)
      BY <2>2, SavedOrdered
    <3> QED BY <3>1 DEF Ordered
  <2> QED BY <1>2, <2>1, <2>2
<1>4. u <= Len(mid) + 1
  BY <1>1, <1>3
<1>5. Ordered(new, n) /\ Len(new) >= Len(mid) /\ Len(new) >= u
  BY <1>2, <1>3, <1>4, CopiedOrdered
<1>6. Len(new) \in Nat
  BY <1>5 DEF Ordered
<1>7. Has(new, u)
  BY <1>5, <1>6 DEF Ordered, Has
<1> QED BY <1>1, <1>3, <1>5, <1>6, <1>7 DEF Copied
-----------------------------------------------------------------------------
(* The steps *)

\* (The set itself stays folded in the proofs.)
LEMMA AppraisalStateFacts == {"new", "pending", "executive", "md", "done", "published", "cancel"} \subseteq AppraisalStates
BY DEF AppraisalStates

\* Handing the appraisal on keeps the invariant.
LEMMA HandedKeeps ==
    ASSUME AppraisalInv, NEW u \in 1..chain.length, u <= Len(appraisal.lines) + 1,
           NEW given \in Raises \cup {Nothing}, chain' = chain, pages' = pages,
           Handed(u, OfManager(appraisal.lines, u, given))
    PROVE  AppraisalInv'
<1> DEFINE new == OfManager(appraisal.lines, u, given)
<1>1. chain.length \in Nat /\ chain.md \in {0, chain.length}
  BY AppraisalAssumption DEF AppraisalInv, AppraisalTypeOK
<1>2. Ordered(appraisal.lines, chain.length)
  BY DEF AppraisalInv
<1>3. /\ Ordered(new, chain.length) /\ Len(new) >= Len(appraisal.lines) /\ Len(new) >= u
      /\ Copied(new, u) = new
  BY <1>1, <1>2, SubmittedOrdered
<1> HIDE DEF new
<1>4. /\ u < chain.length
      /\ appraisal' = [appraisal EXCEPT !.state = Above(u), !.approver = u + 1, !.last = u, !.lines = new]
  BY <1>3 DEF Handed, HasNext, new
<1>5. Above(u) \in {"md", "executive", "pending"} /\ (Above(u) = "md" => u + 1 = chain.md)
  BY DEF Above
<1>6. /\ appraisal'.state = Above(u) /\ appraisal'.approver = u + 1 /\ appraisal'.last = u
      /\ appraisal'.lines = new /\ appraisal'.final = appraisal.final
  BY <1>4 DEF AppraisalInv, AppraisalTypeOK
<1>7. new \in Seq(LinesOf(chain.length)) /\ Len(new) \in Nat /\ Len(appraisal.lines) \in Nat
  BY <1>2, <1>3 DEF Ordered
<1>8. AppraisalTypeOK'
  <2>1. Above(u) \in AppraisalStates
    BY <1>5, AppraisalStateFacts
  <2>2. u \in 0..chain.length /\ u + 1 \in 0..chain.length
    BY <1>1, <1>4
  <2> QED BY <1>4, <1>7, <2>1, <2>2 DEF AppraisalInv, AppraisalTypeOK
<1>9. \A v \in pages : v <= Len(new) + 1
  BY <1>1, <1>3, <1>7 DEF AppraisalInv, AppraisalTypeOK
<1> QED BY <1>1, <1>3, <1>4, <1>5, <1>6, <1>7, <1>8, <1>9 DEF AppraisalInv

\* The director decides: every manager has his line, and the raise is his.
LEMMA DecidedKeeps ==
    ASSUME AppraisalInv, NEW u \in 1..chain.length, u <= Len(appraisal.lines) + 1, u = chain.length,
           NEW given \in Raises \cup {Nothing}, chain' = chain, pages' = pages,
           Decided(u, OfDirector(appraisal.lines, u, given))
    PROVE  /\ AppraisalInv'
           /\ Len(appraisal'.lines) = chain.length
           /\ appraisal'.final = appraisal'.lines[chain.length].raise
<1> DEFINE new == OfDirector(appraisal.lines, u, given)
<1>1. chain.length \in Nat
  BY AppraisalAssumption DEF AppraisalInv, AppraisalTypeOK
<1>2. Ordered(appraisal.lines, chain.length)
  BY DEF AppraisalInv
<1>3. /\ Ordered(new, chain.length) /\ Len(new) >= Len(appraisal.lines) /\ Len(new) >= u
      /\ Copied(new, u) = new
  BY <1>1, <1>2, SubmittedOrdered
<1> HIDE DEF new
<1>4. appraisal' = [appraisal EXCEPT !.state = "done", !.approver = 0, !.lines = new, !.final = Decision(new)]
  BY <1>3 DEF Decided, new
<1>5. new \in Seq(LinesOf(chain.length)) /\ Len(new) \in Nat /\ Len(appraisal.lines) \in Nat
  BY <1>2, <1>3 DEF Ordered
<1>6. Len(new) = chain.length
  <2>1. Len(new) \in DOMAIN new
    BY <1>1, <1>3, <1>5
  <2>2. new[Len(new)].by = Len(new) /\ new[Len(new)] \in LinesOf(chain.length)
    BY <1>3, <1>5, <2>1 DEF Ordered
  <2> QED BY <1>1, <1>3, <1>5, <2>2 DEF LinesOf
<1>7. Decision(new) = new[chain.length].raise /\ Decision(new) \in Raises
  <2>1. chain.length \in DOMAIN new /\ new[chain.length] \in LinesOf(chain.length)
    BY <1>1, <1>3, <1>5, <1>6
  <2> QED BY <1>6, <2>1 DEF Decision, LinesOf
<1>8. /\ appraisal'.state = "done" /\ appraisal'.approver = 0 /\ appraisal'.last = appraisal.last
      /\ appraisal'.lines = new /\ appraisal'.final = Decision(new)
  BY <1>4 DEF AppraisalInv, AppraisalTypeOK
<1>9. AppraisalTypeOK'
  <2>1. "done" \in AppraisalStates /\ 0 \in 0..chain.length
    BY <1>1, AppraisalStateFacts
  <2> QED BY <1>4, <1>5, <1>7, <2>1 DEF AppraisalInv, AppraisalTypeOK
<1>10. appraisal.last \in Nat /\ appraisal.last <= Len(new) /\ \A v \in pages : v <= Len(new) + 1
  BY <1>1, <1>3, <1>5 DEF AppraisalInv, AppraisalTypeOK
<1> QED BY <1>1, <1>3, <1>6, <1>7, <1>8, <1>9, <1>10 DEF AppraisalInv

\* Whom a revert goes to had a line already.
LEMMA Reverted ==
    ASSUME AppraisalInv, NEW s \in WithManagers, chain' = chain, pages' = pages,
           appraisal' = [appraisal EXCEPT !.state = s, !.approver = appraisal.last]
    PROVE  AppraisalInv'
<1>1. s \in AppraisalStates /\ s \notin {"md", "done", "published"}
  BY AppraisalStateFacts DEF WithManagers
<1>2. chain.length \in Nat /\ Len(appraisal.lines) \in Nat
  BY AppraisalAssumption DEF AppraisalInv, AppraisalTypeOK
<1>3. appraisal.last \in 0..chain.length
  BY DEF AppraisalInv, AppraisalTypeOK
<1>4. AppraisalTypeOK'
  BY <1>1, <1>3 DEF AppraisalInv, AppraisalTypeOK
<1>5. /\ appraisal'.state = s /\ appraisal'.approver = appraisal.last /\ appraisal'.last = appraisal.last
      /\ appraisal'.lines = appraisal.lines
  BY DEF AppraisalInv, AppraisalTypeOK
<1> QED BY <1>1, <1>2, <1>3, <1>4, <1>5 DEF AppraisalInv, Ordered

\* The invariant holds of an appraisal that has not been opened.
LEMMA AppraisalInitially == AppraisalInit => AppraisalInv
<1> SUFFICES ASSUME AppraisalInit PROVE AppraisalInv
  OBVIOUS
<1>1. chain.length \in Nat
  BY AppraisalAssumption DEF AppraisalInit
<1>2. AppraisalTypeOK
  BY <1>1, AppraisalAssumption DEF AppraisalInit, AppraisalTypeOK, AppraisalStates
<1> QED BY <1>1, <1>2 DEF AppraisalInit, AppraisalInv, Ordered

\* Every step keeps it.
LEMMA AppraisalInductive == AppraisalInv /\ [AppraisalNext]_appraisalVars => AppraisalInv'
<1> SUFFICES ASSUME AppraisalInv, [AppraisalNext]_appraisalVars PROVE AppraisalInv'
  OBVIOUS
<1>0. chain.length \in Nat /\ Len(appraisal.lines) \in Nat
  BY AppraisalAssumption DEF AppraisalInv, AppraisalTypeOK
<1>1. CASE HrConfirm
  <2>1. AppraisalTypeOK'
    <3>1. "new" \in AppraisalStates /\ 1 \in 0..chain.length
      BY <1>0, <1>1, AppraisalStateFacts DEF HrConfirm
    <3> QED BY <1>1, <3>1 DEF HrConfirm, AppraisalInv, AppraisalTypeOK
  <2>2. /\ appraisal'.state = "new" /\ appraisal'.approver = 1 /\ appraisal'.last = appraisal.last
        /\ appraisal'.lines = appraisal.lines
    BY <1>1 DEF HrConfirm, AppraisalInv, AppraisalTypeOK
  <2> QED BY <1>0, <1>1, <2>1, <2>2 DEF HrConfirm, AppraisalInv, Ordered
<1>2. CASE Publish
  BY <1>0, <1>2, AppraisalStateFacts DEF Publish, AppraisalInv, AppraisalTypeOK, Ordered
<1>3. CASE CancelAppraisal
  BY <1>0, <1>3, AppraisalStateFacts DEF CancelAppraisal, AppraisalInv, AppraisalTypeOK, Ordered
<1>4. CASE RevertBack
  <2>1. CASE appraisal.state = "md"
    <3>1. appraisal' = [appraisal EXCEPT !.state = "executive", !.approver = appraisal.last]
      BY <1>4, <2>1 DEF RevertBack
    <3> QED BY <1>4, <3>1, Reverted DEF RevertBack, WithManagers
  <2>2. CASE appraisal.state = "executive"
    <3>1. appraisal' = [appraisal EXCEPT !.state = "pending", !.approver = appraisal.last]
      BY <1>4, <2>2 DEF RevertBack
    <3> QED BY <1>4, <3>1, Reverted DEF RevertBack, WithManagers
  <2>3. CASE appraisal.state = "pending"
    <3>1. PICK s \in {"new", "pending"} :
            appraisal' = [appraisal EXCEPT !.state = s, !.approver = appraisal.last]
      BY <1>4, <2>3 DEF RevertBack
    <3> QED BY <1>4, <3>1, Reverted DEF RevertBack, WithManagers
  <2>4. CASE appraisal.state \notin {"md", "executive", "pending"}
    <3>1. appraisal' = appraisal
      BY <1>4, <2>4 DEF RevertBack
    <3> QED BY <1>4, <3>1 DEF RevertBack, AppraisalInv, AppraisalTypeOK, Ordered
  <2> QED BY <2>1, <2>2, <2>3, <2>4
<1>5. ASSUME NEW u \in 1..chain.length, OpenAppraisal(u) PROVE AppraisalInv'
  BY <1>0, <1>5 DEF OpenAppraisal, AppraisalInv, AppraisalTypeOK, Ordered
<1>6. ASSUME NEW u \in 1..chain.length, NEW given \in Raises \cup {Nothing}, SaveLine(u, given) PROVE AppraisalInv'
  <2> DEFINE new == Saved(appraisal.lines, u, given)
  <2>1. u <= Len(appraisal.lines) + 1 /\ Ordered(appraisal.lines, chain.length)
    BY <1>6 DEF SaveLine, AppraisalInv
  <2>2. Ordered(new, chain.length) /\ Len(new) >= Len(appraisal.lines)
    BY <1>0, <2>1, SavedOrdered
  <2> HIDE DEF new
  <2>3. appraisal' = [appraisal EXCEPT !.lines = new] /\ chain' = chain /\ pages' = pages
    BY <1>6 DEF SaveLine, new
  <2>4. new \in Seq(LinesOf(chain.length)) /\ Len(new) \in Nat
    BY <2>2 DEF Ordered
  <2>5. Len(appraisal.lines) = chain.length => Len(new) = chain.length
    <3>1. Len(new) = 0 \/ (Len(new) \in DOMAIN new /\ new[Len(new)].by = Len(new)
                             /\ new[Len(new)] \in LinesOf(chain.length))
      BY <2>2, <2>4 DEF Ordered
    <3> QED BY <1>0, <2>2, <2>4, <3>1 DEF LinesOf
  <2>6. AppraisalTypeOK'
    BY <2>3, <2>4 DEF AppraisalInv, AppraisalTypeOK
  <2>7. /\ appraisal'.state = appraisal.state /\ appraisal'.approver = appraisal.approver
        /\ appraisal'.last = appraisal.last /\ appraisal'.lines = new
    BY <2>3 DEF AppraisalInv, AppraisalTypeOK
  <2>8. appraisal.approver \in Nat /\ appraisal.last \in Nat /\ \A v \in pages : v \in Nat
    BY <1>0 DEF AppraisalInv, AppraisalTypeOK
  <2> QED BY <1>0, <2>2, <2>3, <2>4, <2>5, <2>6, <2>7, <2>8 DEF AppraisalInv
<1>7. ASSUME NEW u \in 1..chain.length, NEW given \in Raises \cup {Nothing},
             SubmitRaise(u, given) \/ (ApproveInBulk(u, given) /\ given \in Raises)
      PROVE  AppraisalInv'
  <2>1. u = appraisal.approver /\ u <= Len(appraisal.lines) + 1 /\ chain' = chain /\ pages' = pages
    BY <1>7 DEF SubmitRaise, ApproveInBulk, AppraisalInv
  <2>2. CASE Handed(u, OfManager(appraisal.lines, u, given))
    BY <2>1, <2>2, HandedKeeps
  <2>3. CASE appraisal.state = "md" /\ Decided(u, OfDirector(appraisal.lines, u, given))
    BY <2>1, <2>3, DecidedKeeps DEF AppraisalInv
  <2> QED BY <1>7, <2>2, <2>3 DEF SubmitRaise, ApproveInBulk
<1>8. CASE UNCHANGED appraisalVars
  BY <1>8 DEF appraisalVars, AppraisalInv, AppraisalTypeOK, Ordered
<1> QED BY <1>1, <1>2, <1>3, <1>4, <1>5, <1>6, <1>7, <1>8 DEF AppraisalNext

\* The invariant of the appraisal holds always.
LEMMA AppraisalInvariant == AppraisalSpec => []AppraisalInv
BY AppraisalInitially, AppraisalInductive, PTL DEF AppraisalSpec

\* The types of the appraisal, for every set of chains.
THEOREM AppraisalTypes == AppraisalSpec => []AppraisalTypeOK
<1>1. AppraisalInv => AppraisalTypeOK
  BY DEF AppraisalInv
<1> QED BY <1>1, AppraisalInvariant, PTL

\* Every manager recommends once, for chains of every length.
THEOREM EveryManager == AppraisalSpec => []EveryManagerOnce
<1>1. AppraisalInv => EveryManagerOnce
  BY DEF AppraisalInv, Ordered, EveryManagerOnce
<1> QED BY <1>1, AppraisalInvariant, PTL

\* What is published is the director's recommendation.
THEOREM DirectorsRaise == AppraisalSpec => RaiseIsDirectors
<1> DEFINE Directors == appraisal'.state = "done" /\ appraisal.state # "done"
          => \E i \in DOMAIN appraisal'.lines : /\ appraisal'.lines[i] = [by |-> chain.md, raise |-> appraisal'.final]
                                                /\ i = chain.length
<1>1. AppraisalInv /\ [AppraisalNext]_appraisalVars => [Directors]_appraisalVars
  <2> SUFFICES ASSUME AppraisalInv, AppraisalNext, appraisal'.state = "done", appraisal.state # "done"
               PROVE  Directors
    OBVIOUS
  <2>0. chain.length \in Nat
    BY AppraisalAssumption DEF AppraisalInv, AppraisalTypeOK
  <2>1. PICK u \in 1..chain.length, given \in Raises \cup {Nothing} :
          /\ u = appraisal.approver /\ appraisal.state = "md" /\ chain' = chain /\ pages' = pages
          /\ Decided(u, OfDirector(appraisal.lines, u, given))
    BY DEF AppraisalNext, HrConfirm, Publish, CancelAppraisal, RevertBack, OpenAppraisal, SaveLine,
           SubmitRaise, ApproveInBulk, Handed, Above, WithManagers, AppraisalInv, AppraisalTypeOK
  <2>2. u = chain.length /\ chain.md = chain.length /\ u <= Len(appraisal.lines) + 1
    BY <2>1 DEF AppraisalInv
  <2>3. /\ AppraisalInv' /\ Len(appraisal'.lines) = chain.length
        /\ appraisal'.final = appraisal'.lines[chain.length].raise
    BY <2>1, <2>2, DecidedKeeps
  <2>4. Ordered(appraisal'.lines, chain.length)
    BY <2>1, <2>3 DEF AppraisalInv, Ordered
  <2>5. chain.length \in DOMAIN appraisal'.lines
    BY <2>0, <2>1, <2>3, <2>4 DEF Ordered
  <2>6. /\ appraisal'.lines[chain.length] \in LinesOf(chain.length)
        /\ appraisal'.lines[chain.length].by = chain.length
    BY <2>4, <2>5 DEF Ordered
  <2>7. appraisal'.lines[chain.length] = [by |-> chain.md, raise |-> appraisal'.final]
    BY <2>2, <2>3, <2>6 DEF LinesOf
  <2> QED BY <2>5, <2>7
<1> QED BY <1>1, AppraisalInvariant, PTL DEF AppraisalSpec, RaiseIsDirectors
-----------------------------------------------------------------------------
(***************************************************************************)
(* An approved document request has its newest file in the documents, with *)
(* the signature on it: for any number of files and signatures.            *)
(***************************************************************************)

DocumentInv == DocumentTypeOK /\ DocumentFollows /\ SignatureOnFile

\* What a request looks like when it is approved: the file bears the signature,
\* and the document has the file.
LEMMA ApprovedFollows ==
    ASSUME DocumentInv, NEW r,
           r \in [state : {"draft", "pending", "approved", "rejected"}, file : 0..MaxFiles,
                  signature : 0..MaxSignatures, stamped : BOOLEAN],
           Approved(r)
    PROVE  /\ request' \in [state : {"draft", "pending", "approved", "rejected"}, file : 0..MaxFiles,
                            signature : 0..MaxSignatures, stamped : BOOLEAN]
           /\ document' \in -1..MaxFiles /\ stamps' \in [Files -> SUBSET (1..MaxSignatures)]
           /\ DocumentFollows' /\ SignatureOnFile'
<1> DEFINE DocumentRows == [state : {"draft", "pending", "approved", "rejected"}, file : 0..MaxFiles,
                        signature : 0..MaxSignatures, stamped : BOOLEAN]
<1>1. MaxFiles \in Nat /\ MaxSignatures \in Nat
  BY DocumentAssumption
<1>2. WithStamp(r) \in DocumentRows /\ WithStamp(r).file = r.file /\ WithStamp(r).signature = r.signature
  BY DEF WithStamp
<1>3. /\ request' \in DocumentRows /\ request'.file = r.file /\ request'.signature = r.signature
  BY <1>2 DEF Approved
<1>4. document' \in -1..MaxFiles /\ DocumentFollows'
  BY <1>1, <1>3 DEF Approved, Synced, DocumentFollows, DocumentInv, DocumentTypeOK
<1>5. ASSUME NEW marks \in [Files -> SUBSET (1..MaxSignatures)]
      PROVE  /\ Stamped(r, marks) \in [Files -> SUBSET (1..MaxSignatures)]
             /\ r.file # 0 /\ r.signature # 0 /\ r.file \notin Unreadable => r.signature \in Stamped(r, marks)[r.file]
  <2>1. CASE r.file # 0 /\ r.signature # 0 /\ r.file \notin Unreadable
    <3>1. r.file \in Files /\ r.signature \in 1..MaxSignatures
      BY <1>1, <2>1 DEF Files
    <3>2. Stamped(r, marks) = [marks EXCEPT ![r.file] = @ \cup {r.signature}]
      BY <2>1 DEF Stamped
    <3> QED BY <3>1, <3>2
  <2>2. CASE ~(r.file # 0 /\ r.signature # 0 /\ r.file \notin Unreadable)
    BY <2>2 DEF Stamped
  <2> QED BY <2>1, <2>2
<1>6. stamps' \in [Files -> SUBSET (1..MaxSignatures)]
      /\ (r.file # 0 /\ r.signature # 0 /\ r.file \notin Unreadable => r.signature \in stamps'[r.file])
  <2>1. stamps \in [Files -> SUBSET (1..MaxSignatures)]
    BY DEF DocumentInv, DocumentTypeOK
  <2> QED BY <1>5, <2>1 DEF Approved
<1>7. SignatureOnFile'
  BY <1>3, <1>6 DEF SignatureOnFile
<1> QED BY <1>3, <1>4, <1>6, <1>7

\* The invariant holds of a new request.
LEMMA DocumentInitially == RequestInit => DocumentInv
<1> SUFFICES ASSUME RequestInit PROVE DocumentInv
  OBVIOUS
<1>1. MaxFiles \in Nat /\ MaxSignatures \in Nat
  BY DocumentAssumption
<1>2. request.file = 0 /\ request.state # "approved" /\ document \in {-1, 0}
  BY DEF RequestInit
<1>3. request \in [state : {"draft", "pending", "approved", "rejected"}, file : 0..MaxFiles,
                  signature : 0..MaxSignatures, stamped : BOOLEAN]
  <2>1. 0 \in 0..MaxFiles /\ 0 \in 0..MaxSignatures
    BY <1>1
  <2>2. \E s \in {"draft", "pending"} : request = [state |-> s, file |-> 0, signature |-> 0, stamped |-> FALSE]
    BY DEF RequestInit
  <2>3. ASSUME NEW s \in {"draft", "pending"}
        PROVE  [state |-> s, file |-> 0, signature |-> 0, stamped |-> FALSE]
                  \in [state : {"draft", "pending", "approved", "rejected"}, file : 0..MaxFiles,
                       signature : 0..MaxSignatures, stamped : BOOLEAN]
    BY <2>1
  <2> QED BY <2>2, <2>3
<1>4. stamps \in [Files -> SUBSET (1..MaxSignatures)] /\ sent \in [files : 0..MaxFiles, signatures : 0..MaxSignatures]
  BY <1>1 DEF RequestInit
<1>5. document \in -1..MaxFiles
  BY <1>1, <1>2
<1> QED BY <1>2, <1>3, <1>4, <1>5 DEF DocumentInv, DocumentTypeOK, DocumentFollows, SignatureOnFile

\* Every step keeps it.
LEMMA DocumentInductive == DocumentInv /\ [RequestNext]_docVars => DocumentInv'
<1> SUFFICES ASSUME DocumentInv, [RequestNext]_docVars PROVE DocumentInv'
  OBVIOUS
<1>0. MaxFiles \in Nat /\ MaxSignatures \in Nat
  BY DocumentAssumption
<1>1. CASE SendRequest \/ RejectRequest \/ ResetRequest
  BY <1>1 DEF SendRequest, RejectRequest, ResetRequest, DocumentInv, DocumentTypeOK, DocumentFollows, SignatureOnFile
<1>2. CASE ApproveRequest
  BY <1>2, ApprovedFollows DEF ApproveRequest, DocumentInv, DocumentTypeOK
<1>3. CASE StampButton
  <2>1. request.file \in Files /\ request.signature \in 1..MaxSignatures
    BY <1>0, <1>3 DEF StampButton, DocumentInv, DocumentTypeOK, Files
  <2>2. DocumentTypeOK' /\ request'.file = request.file /\ request'.signature = request.signature /\ request'.state = request.state
    <3>1. /\ request' \in [state : {"draft", "pending", "approved", "rejected"}, file : 0..MaxFiles,
                           signature : 0..MaxSignatures, stamped : BOOLEAN]
          /\ request'.file = request.file /\ request'.signature = request.signature /\ request'.state = request.state
      BY <1>3 DEF StampButton, WithStamp, DocumentInv, DocumentTypeOK
    <3>2. document' \in -1..MaxFiles
      BY <1>0, <1>3, <2>1 DEF StampButton, DocumentInv, DocumentTypeOK, Files
    <3>3. stamps' \in [Files -> SUBSET (1..MaxSignatures)]
      BY <1>3, <2>1 DEF StampButton, Stamped, DocumentInv, DocumentTypeOK
    <3> QED BY <1>3, <3>1, <3>2, <3>3 DEF StampButton, DocumentInv, DocumentTypeOK
  <2>3. DocumentFollows'
    BY <1>3, <2>2 DEF StampButton, DocumentInv, DocumentFollows
  <2>4. \A f \in Files : stamps[f] \subseteq stamps'[f]
    BY <1>3, <2>1 DEF StampButton, Stamped, DocumentInv, DocumentTypeOK
  <2>5. SignatureOnFile'
    BY <2>1, <2>2, <2>4 DEF DocumentInv, SignatureOnFile
  <2> QED BY <2>2, <2>3, <2>5 DEF DocumentInv
<1>4. ASSUME NEW withFile \in BOOLEAN, NEW signed \in BOOLEAN, PostForm(withFile, signed)
      PROVE  DocumentInv'
  <2> DEFINE files == sent.files + (IF withFile THEN 1 ELSE 0)
             signatures == sent.signatures + (IF signed THEN 1 ELSE 0)
             received == [request EXCEPT !.file = IF withFile THEN files ELSE @,
                                         !.signature = IF signed THEN signatures ELSE @]
  <2>1. /\ files <= MaxFiles /\ signatures <= MaxSignatures
        /\ sent' = [files |-> files, signatures |-> signatures]
        /\ Approved(received)
    BY <1>4 DEF PostForm
  <2>2. files \in 0..MaxFiles /\ signatures \in 0..MaxSignatures
    BY <1>0, <2>1 DEF DocumentInv, DocumentTypeOK
  <2> HIDE DEF files, signatures
  <2>3. received \in [state : {"draft", "pending", "approved", "rejected"}, file : 0..MaxFiles,
                      signature : 0..MaxSignatures, stamped : BOOLEAN]
    BY <2>2 DEF DocumentInv, DocumentTypeOK
  <2> HIDE DEF received
  <2> QED BY <2>1, <2>2, <2>3, ApprovedFollows DEF DocumentInv, DocumentTypeOK
<1>5. CASE UNCHANGED docVars
  BY <1>5 DEF docVars, DocumentInv, DocumentTypeOK, DocumentFollows, SignatureOnFile
<1> QED BY <1>1, <1>2, <1>3, <1>4, <1>5 DEF RequestNext

\* The invariant of the document request holds always.
LEMMA DocumentInvariant == RequestSpec => []DocumentInv
BY DocumentInitially, DocumentInductive, PTL DEF RequestSpec

\* The values a document request may have, whatever is sent and pressed.
THEOREM DocumentTypes == RequestSpec => []DocumentTypeOK
BY DocumentInvariant, PTL DEF DocumentInv

\* The document is the file that the employee sent last.
THEOREM DocumentHasNewestFile == RequestSpec => []DocumentFollows
BY DocumentInvariant, PTL DEF DocumentInv

\* An approved file bears the newest signature.
THEOREM ApprovedIsSigned == RequestSpec => []SignatureOnFile
BY DocumentInvariant, PTL DEF DocumentInv
-----------------------------------------------------------------------------
(***************************************************************************)
(* Nobody is hired on other terms than those of the letter that was the    *)
(* newest when he accepted: for any terms, officers and revisions.         *)
(***************************************************************************)

\* The inductive invariant of an offer: an offer that was sent has the terms of
\* the newest letter, one that was accepted those of the letter that was the
\* newest then, and there is no contract before somebody is hired.
OfferInv ==
    /\ OfferTypeOK
    /\ offer.state = "sent" => Len(letters) > 0 /\ letters[Len(letters)] = offer.terms
    /\ offer.state = "accepted" => answer.newest \in 1..Len(letters) /\ letters[answer.newest] = offer.terms
    /\ ~offer.hired => contracts = <<>>

\* The invariant holds of a new offer.
LEMMA OfferInitially == OfferInit => OfferInv
<1> SUFFICES ASSUME OfferInit PROVE OfferInv
  OBVIOUS
<1>1. MaxRevisions \in Nat /\ MaxLetters \in Nat
  BY OfferAssumption
<1>2. offer \in [state : OfferStates, terms : Terms, revision : 0..MaxRevisions, hired : BOOLEAN]
  <2>1. offer.state \in OfferStates /\ offer.revision \in 0..MaxRevisions /\ offer.hired \in BOOLEAN /\ offer.terms \in Terms
    <3>1. offer.state \in {"draft"} /\ offer.revision \in {0} /\ offer.terms \in Terms
      BY DEF OfferInit
    <3>2. offer.hired \in {FALSE}
      BY DEF OfferInit
    <3>3. offer.hired \in BOOLEAN
      BY <3>2, Zenon
    <3> QED BY <1>1, <3>1, <3>3 DEF OfferStates
  <2>2. offer = [state |-> offer.state, terms |-> offer.terms, revision |-> offer.revision, hired |-> offer.hired]
    BY DEF OfferInit
  <2> QED BY <2>1, <2>2
<1> QED BY <1>1, <1>2 DEF OfferInit, OfferInv, OfferTypeOK, OfferStates

\* Every step keeps it.
LEMMA OfferInductive == OfferInv /\ [OfferNext]_offerVars => OfferInv'
<1> SUFFICES ASSUME OfferInv, [OfferNext]_offerVars PROVE OfferInv'
  OBVIOUS
<1>0. MaxRevisions \in Nat /\ MaxLetters \in Nat
  BY OfferAssumption
<1> USE DEF OfferInv, OfferTypeOK, OfferStates
<1>1. ASSUME NEW i \in DOMAIN letters, AcceptOffer(i) PROVE OfferInv'
  <2>1. i \in 0..MaxLetters /\ Len(letters) \in 0..MaxLetters
    BY <1>0
  <2>2. answer' = [read |-> i, newest |-> Len(letters)] /\ UNCHANGED <<shown, letters, contracts>>
    BY <1>1 DEF AcceptOffer
  <2>3. offer.state = "sent" /\ offer' = [offer EXCEPT !.state = "accepted"]
    BY <1>1 DEF AcceptOffer
  <2>4. /\ offer' \in [state : OfferStates, terms : Terms, revision : 0..MaxRevisions, hired : BOOLEAN]
        /\ offer'.state = "accepted" /\ offer'.terms = offer.terms /\ offer'.hired = offer.hired
    BY <2>3
  <2>5. answer' \in [read : 0..MaxLetters, newest : 0..MaxLetters] /\ answer'.newest = Len(letters)
    BY <2>1, <2>2
  <2>6. Len(letters) > 0 /\ letters[Len(letters)] = offer.terms
    BY <2>3
  <2>7. answer'.newest \in 1..Len(letters) /\ letters[answer'.newest] = offer'.terms
    BY <2>1, <2>4, <2>5, <2>6
  <2> QED BY <2>2, <2>4, <2>5, <2>7
<1>2. CASE RejectOffer
  BY <1>2 DEF RejectOffer
<1>3. ASSUME NEW o \in Officers, OpenPage(o) PROVE OfferInv'
  BY <1>3 DEF OpenPage
<1>4. ASSUME NEW o \in Officers, ReviseOffer(o) PROVE OfferInv'
  <2>1. offer.revision + 1 \in 0..MaxRevisions
    BY <1>0, <1>4 DEF ReviseOffer
  <2> QED BY <1>4, <2>1 DEF ReviseOffer
<1>5. ASSUME NEW o \in Officers, CancelOffer(o) PROVE OfferInv'
  BY <1>5 DEF CancelOffer
<1>6. ASSUME NEW o \in Officers, ResetOffer(o) PROVE OfferInv'
  BY <1>6 DEF ResetOffer
<1>7. ASSUME NEW o \in Officers, CreateEmployee(o) PROVE OfferInv'
  <2>1. offer' \in [state : OfferStates, terms : Terms, revision : 0..MaxRevisions, hired : BOOLEAN]
        /\ offer'.state = "done" /\ offer'.hired
    BY <1>7 DEF CreateEmployee
  <2>2. contracts' \in Seq(Terms)
    BY <1>7 DEF CreateEmployee
  <2> QED BY <1>7, <2>1, <2>2 DEF CreateEmployee
<1>8. ASSUME NEW o \in Officers, NEW terms \in Terms, EditOffer(o, terms) PROVE OfferInv'
  BY <1>8 DEF EditOffer, Restricted
<1>9. ASSUME NEW o \in Officers, NEW fails \in BOOLEAN, SendOffer(o, fails) PROVE OfferInv'
  <2>1. letters' \in Seq(Terms) /\ Len(letters') = Len(letters) + 1 /\ Len(letters') <= MaxLetters
    BY <1>0, <1>9 DEF SendOffer
  <2>2. letters'[Len(letters')] = offer.terms /\ \A i \in 1..Len(letters) : letters'[i] = letters[i]
    BY <1>9 DEF SendOffer
  <2>3. offer' \in [state : OfferStates, terms : Terms, revision : 0..MaxRevisions, hired : BOOLEAN]
        /\ offer'.terms = offer.terms /\ offer'.hired = offer.hired /\ offer'.state \in {offer.state, "sent"}
    BY <1>9 DEF SendOffer
  <2>4. shown' \in [Officers -> OfferStates]
    BY <1>9, <2>3 DEF SendOffer
  <2> QED BY <1>9, <2>1, <2>2, <2>3, <2>4 DEF SendOffer
<1>10. CASE UNCHANGED offerVars
  BY <1>10 DEF offerVars
<1> QED BY <1>1, <1>2, <1>3, <1>4, <1>5, <1>6, <1>7, <1>8, <1>9, <1>10 DEF OfferNext

\* The invariant of the offer holds always.
LEMMA OfferInvariant == OfferSpec => []OfferInv
BY OfferInitially, OfferInductive, PTL DEF OfferSpec

\* The offer, its letters and contracts keep their types.
THEOREM OfferTypes == OfferSpec => []OfferTypeOK
BY OfferInvariant, PTL DEF OfferInv

\* Who is hired gets a contract with the terms of the letter that was the newest
\* when he accepted, however often the offer was revised, reset or sent again.
THEOREM HiredOnMailedTerms == OfferSpec => HiredAsMailed
<1>1. OfferInv /\ [OfferNext]_offerVars
          => [contracts' # contracts => contracts = <<>> /\ contracts' = <<letters[answer.newest]>>]_offerVars
  <2> SUFFICES ASSUME OfferInv, [OfferNext]_offerVars, contracts' # contracts
               PROVE  contracts = <<>> /\ contracts' = <<letters[answer.newest]>>
    OBVIOUS
  <2>1. PICK o \in Officers : CreateEmployee(o)
    BY DEF OfferNext, offerVars, AcceptOffer, RejectOffer, OpenPage, ReviseOffer, CancelOffer, ResetOffer, EditOffer, SendOffer
  <2>2. contracts = <<>> /\ letters[answer.newest] = offer.terms /\ contracts' = Append(contracts, offer.terms)
    BY <2>1 DEF CreateEmployee, Hirable, OfferInv
  <2> QED BY <2>2
<1> QED BY <1>1, OfferInvariant, PTL DEF OfferSpec, HiredAsMailed

-----------------------------------------------------------------------------
(***************************************************************************)
(* The installments of a loan cover it, fall in different months, and those *)
(* paid stay as they were paid but for their own buttons: for any amounts,  *)
(* balloons and durations, any number of installments, and however often    *)
(* they are computed anew.                                                  *)
(*                                                                         *)
(* Why: what is spread anew is what the lines kept leave.  Where the last   *)
(* line does not take the rest, the rounded amounts cover it by themselves *)
(* and exceed it by no more than the rounding; by amount that cannot be,   *)
(* since all new lines but the last are too little.  The sums are          *)
(* recursive functions, and what they add up to is proved by induction     *)
(* over the lines.                                                         *)
(***************************************************************************)

\* A sum is the last of its partial sums, and there is no other.
LEMMA SumDefined ==
  ASSUME NEW a \in Seq(Int)
  PROVE  \E t \in [0..Len(a) -> Int] : /\ SumOf(a) = t[Len(a)]
                                       /\ t[0] = 0 /\ \A n \in 1..Len(a) : t[n] = t[n - 1] + a[n]
<1> DEFINE N == Len(a)
           t == CHOOSE t : t = [n \in 0..N |-> IF n = 0 THEN 0 ELSE t[n - 1] + a[n]]
           step == [n \in 1..N |-> [v \in Int |-> v + a[n]]]
<1>1. N \in Nat /\ 0 \in Int /\ step \in [1..N -> [Int -> Int]]
  OBVIOUS
<1>2. PICK u \in [0..N -> Int] : u[0] = 0 /\ \A n \in 1..N : u[n] = step[n][u[n - 1]]
  <2> DEFINE V == Int
             zero == 0
  <2>1. N \in Nat /\ zero \in V /\ step \in Steps(N, V)
    BY <1>1 DEF Steps
  <2>2. \E u \in Walks(N, V) : IsWalk(u, N, zero, step)
    <3> HIDE DEF step, N, V, zero
    <3> QED BY <2>1, Recursion
  <2> QED BY <2>2 DEF Walks, IsWalk
<1>3. ASSUME NEW n \in 1..N PROVE u[n] = u[n - 1] + a[n]
  <2>1. n - 1 \in 0..N /\ u[n - 1] \in Int
    <3>1. N \in Nat
      BY <1>1
    <3> HIDE DEF N, t, step
    <3> QED BY <3>1
  <2> QED BY <1>2, <2>1
<1>4. u = [n \in 0..N |-> IF n = 0 THEN 0 ELSE u[n - 1] + a[n]]
  BY <1>1, <1>2, <1>3
<1>5. t = [n \in 0..N |-> IF n = 0 THEN 0 ELSE t[n - 1] + a[n]]
  BY <1>4
<1>6. SumOf(a) = t[N]
  BY DEF SumOf
<1>7. t[0] = 0 /\ \A n \in 1..N : t[n] = t[n - 1] + a[n]
  <2> HIDE DEF t
  <2> QED BY <1>1, <1>5
<1> DEFINE S == {k \in Nat : k <= N => t[k] \in Int}
<1>8. Nat \subseteq S
  <2>1. 0 \in S
    BY <1>7
  <2>2. ASSUME NEW k \in Nat, k \in S PROVE k + 1 \in S
    <3> HIDE DEF t
    <3>1. CASE k + 1 <= N
      <4>1. k + 1 \in 1..N /\ t[k + 1] = t[k] + a[k + 1] /\ a[k + 1] \in Int /\ t[k] \in Int
        BY <1>1, <1>7, <2>2, <3>1
      <4> QED BY <4>1
    <3> QED BY <3>1
  <2> HIDE DEF S
  <2> QED BY <2>1, <2>2, Induction
<1>9. t \in [0..N -> Int]
  <2> HIDE DEF t
  <2> QED BY <1>5, <1>8
<1> HIDE DEF t
<1> QED BY <1>6, <1>7, <1>9

\* Whatever adds the amounts up one after the other ends with their sum.
LEMMA SumUnique ==
  ASSUME NEW a \in Seq(Int), NEW u, u[0] = 0, \A n \in 1..Len(a) : u[n] = u[n - 1] + a[n]
  PROVE  SumOf(a) = u[Len(a)] /\ SumOf(a) \in Int
<1>1. PICK t \in [0..Len(a) -> Int] : /\ SumOf(a) = t[Len(a)]
                                      /\ t[0] = 0 /\ \A n \in 1..Len(a) : t[n] = t[n - 1] + a[n]
  BY SumDefined
<1> DEFINE S == {k \in Nat : k <= Len(a) => t[k] = u[k]}
<1>2. 0 \in S
  BY <1>1
<1>3. ASSUME NEW k \in Nat, k \in S PROVE k + 1 \in S
  <2>1. CASE k + 1 <= Len(a)
    <3>1. k + 1 \in 1..Len(a) /\ (k + 1) - 1 = k
      BY <2>1
    <3> QED BY <1>1, <1>3, <3>1
  <2> QED BY <2>1
<1>4. Len(a) \in S
  <2>1. Len(a) \in Nat
    OBVIOUS
  <2> HIDE DEF S
  <2> QED BY <1>2, <1>3, <2>1, Induction
<1> QED BY <1>1, <1>4

\* Nothing adds up to nothing.
LEMMA SumEmpty == SumOf(<<>>) = 0
<1> DEFINE u == [n \in {0} |-> 0]
<1>1. u[0] = 0 /\ \A n \in 1..Len(<<>>) : u[n] = u[n - 1] + <<>>[n]
  OBVIOUS
<1>2. <<>> \in Seq(Int) /\ Len(<<>>) = 0
  OBVIOUS
<1> HIDE DEF u
<1> QED BY <1>1, <1>2, SumUnique

\* An amount more adds to the sum.
LEMMA SumLast ==
  ASSUME NEW a \in Seq(Int), Len(a) > 0
  PROVE  SumOf(a) = SumOf([i \in 1..Len(a) - 1 |-> a[i]]) + a[Len(a)]
<1> DEFINE b == [i \in 1..Len(a) - 1 |-> a[i]]
<1>1. b \in Seq(Int) /\ Len(b) = Len(a) - 1
  OBVIOUS
<1>2. PICK t \in [0..Len(a) -> Int] : /\ SumOf(a) = t[Len(a)]
                                      /\ t[0] = 0 /\ \A n \in 1..Len(a) : t[n] = t[n - 1] + a[n]
  BY SumDefined
<1>3. \A n \in 1..Len(b) : t[n] = t[n - 1] + b[n]
  BY <1>1, <1>2
<1>4. SumOf(b) = t[Len(a) - 1]
  <2> HIDE DEF b
  <2> QED BY <1>1, <1>2, <1>3, SumUnique
<1>5. t[Len(a)] = t[Len(a) - 1] + a[Len(a)]
  <2>1. Len(a) \in 1..Len(a)
    OBVIOUS
  <2> QED BY <1>2, <2>1
<1> QED BY <1>2, <1>4, <1>5

\* The columns of an installment.
LEMMA LineTypes ==
  ASSUME NEW l \in Lines
  PROVE  /\ l.principal \in Int /\ l.balloon \in Balloons \cup {0} /\ l.balloon \in Nat /\ l.month \in Nat
         /\ l.state \in {"unpaid", "approve", "paid"}
<1>1. l.principal \in Int /\ l.balloon \in Balloons \cup {0} /\ l.month \in Nat
  BY DEF Lines
<1>2. l.state \in {"unpaid", "approve", "paid"}
  BY DEF Lines
<1>3. Balloons \subseteq Nat
  BY EmployeeLoanAssumption
<1>4. l.balloon \in Nat
  <2>1. 0 \in Nat
    OBVIOUS
  <2> QED BY <1>1, <1>3, <2>1, Zenon
<1> QED BY <1>1, <1>2, <1>4, Zenon

\* A line with another principal is a line.
LEMMA LineWithPrincipal ==
  ASSUME NEW l \in Lines, NEW p \in Int
  PROVE  /\ [l EXCEPT !.principal = p] \in Lines
         /\ [l EXCEPT !.principal = p].principal = p /\ [l EXCEPT !.principal = p].month = l.month
BY DEF Lines

\* One more of the same.
LEMMA OneMoreUnit ==
  ASSUME NEW x \in Int, NEW m \in Int
  PROVE  (m + 1) * x = m * x + x /\ m * x \in Int
OBVIOUS

\* The principals, kept or spread anew, are amounts.
LEMMA AmountTypes ==
  ASSUME NEW ls \in Seq(Lines)
  PROVE  /\ Principals(ls) \in Seq(Int) /\ Len(Principals(ls)) = Len(ls)
         /\ Off(ls) \in Seq(Int) /\ Len(Off(ls)) = Len(ls)
<1>1. ASSUME NEW i \in 1..Len(ls) PROVE ls[i].principal \in Int /\ ls[i].balloon \in Int
  BY LineTypes
<1> QED BY <1>1 DEF Principals, Off

\* What is kept is the last of the recursion's prefixes.
LEMMA KeptDefined ==
  ASSUME NEW ls \in Seq(Lines)
  PROVE  \E k \in [0..Len(ls) -> Seq(Lines)] :
            /\ Kept(ls) = k[Len(ls)] /\ k[0] = <<>>
            /\ \A n \in 1..Len(ls) : k[n] = IF Open(ls[n]) THEN k[n - 1] ELSE Append(k[n - 1], ls[n])
<1> DEFINE N == Len(ls)
           k == CHOOSE k : k = [n \in 0..N |-> IF n = 0 THEN <<>>
                                               ELSE IF Open(ls[n]) THEN k[n - 1] ELSE Append(k[n - 1], ls[n])]
           V == Seq(Lines)
           step == [n \in 1..N |-> [v \in V |-> IF Open(ls[n]) THEN v ELSE Append(v, ls[n])]]
<1>1. N \in Nat /\ <<>> \in V /\ step \in Steps(N, V)
  BY DEF Steps
<1>2. PICK u \in [0..N -> V] : u[0] = <<>> /\ \A n \in 1..N : u[n] = step[n][u[n - 1]]
  <2> DEFINE none == <<>>
  <2>1. N \in Nat /\ none \in V /\ step \in Steps(N, V)
    BY <1>1
  <2>2. \E u \in Walks(N, V) : IsWalk(u, N, none, step)
    <3> HIDE DEF step, N, V, none
    <3> QED BY <2>1, Recursion
  <2> QED BY <2>2 DEF Walks, IsWalk
<1>3. ASSUME NEW n \in 1..N PROVE u[n] = IF Open(ls[n]) THEN u[n - 1] ELSE Append(u[n - 1], ls[n])
  <2>1. n - 1 \in 0..N /\ u[n - 1] \in V
    <3>1. N \in Nat
      BY <1>1
    <3> HIDE DEF N, k, step, V
    <3> QED BY <3>1
  <2> HIDE DEF V, k, N
  <2> QED BY <1>2, <2>1
<1> DEFINE none == <<>>
           next(n, v) == IF Open(ls[n]) THEN v ELSE Append(v, ls[n])
<1>4. u = [n \in 0..N |-> IF n = 0 THEN none ELSE next(n, u[n - 1])]
  <2>1. u[0] = none /\ \A n \in 1..N : u[n] = next(n, u[n - 1])
    BY <1>2, <1>3
  <2> HIDE DEF V, k, step, none, next
  <2> QED BY <1>1, <2>1
<1>5. k = [n \in 0..N |-> IF n = 0 THEN <<>> ELSE IF Open(ls[n]) THEN k[n - 1] ELSE Append(k[n - 1], ls[n])]
  BY <1>4
<1>6. Kept(ls) = k[N]
  BY DEF Kept
<1>7. k[0] = <<>> /\ \A n \in 1..N : k[n] = IF Open(ls[n]) THEN k[n - 1] ELSE Append(k[n - 1], ls[n])
  <2>1. k = [n \in 0..N |-> IF n = 0 THEN none ELSE next(n, k[n - 1])]
    BY <1>5
  <2>2. k[0] = none /\ \A n \in 1..N : k[n] = next(n, k[n - 1])
    <3>1. N \in Nat
      OBVIOUS
    <3> HIDE DEF k, none, next, N, V, step
    <3> QED BY <2>1, <3>1
  <2> HIDE DEF k
  <2> QED BY <2>2
<1> DEFINE S == {n \in Nat : n <= N => k[n] \in V}
<1>8. Nat \subseteq S
  <2>1. 0 \in S
    <3>1. <<>> \in V
      OBVIOUS
    <3> HIDE DEF k, V
    <3> QED BY <1>7, <3>1
  <2>2. ASSUME NEW n \in Nat, n \in S PROVE n + 1 \in S
    <3> HIDE DEF k
    <3>1. CASE n + 1 <= N
      <4>1. n + 1 \in 1..N /\ ls[n + 1] \in Lines /\ k[n] \in V
        BY <1>1, <2>2, <3>1
      <4>2. k[n + 1] = IF Open(ls[n + 1]) THEN k[n] ELSE Append(k[n], ls[n + 1])
        BY <1>7, <4>1
      <4>3. k[n + 1] \in V
        BY <4>1, <4>2
      <4> QED BY <4>3
    <3> QED BY <3>1
  <2> HIDE DEF S
  <2> QED BY <2>1, <2>2, Induction
<1>9. k \in [0..N -> V]
  <2> HIDE DEF k, V
  <2> QED BY <1>5, <1>8
<1> HIDE DEF k
<1> QED BY <1>6, <1>7, <1>9

\* An amount appended adds to the sum.
LEMMA SumAppend ==
  ASSUME NEW a \in Seq(Int), NEW x \in Int
  PROVE  SumOf(Append(a, x)) = SumOf(a) + x
<1> DEFINE b == Append(a, x)
<1>1. b \in Seq(Int) /\ Len(b) > 0 /\ b[Len(b)] = x
  OBVIOUS
<1>2. [i \in 1..Len(b) - 1 |-> b[i]] = a
  OBVIOUS
<1> HIDE DEF b
<1>3. SumOf(b) = SumOf([i \in 1..Len(b) - 1 |-> b[i]]) + b[Len(b)]
  BY <1>1, SumLast
<1>4. SumOf(b) = SumOf(a) + x
  BY <1>1, <1>2, <1>3
<1> QED BY <1>4 DEF b

\* So do equal amounts that follow.
LEMMA SumFollowed ==
  ASSUME NEW a \in Seq(Int), NEW n \in Nat, NEW x \in Int
  PROVE  SumOf(a \o [i \in 1..n |-> x]) = SumOf(a) + n * x
<1> DEFINE b == a \o [i \in 1..n |-> x]
<1>1. PICK t \in [0..Len(a) -> Int] : /\ SumOf(a) = t[Len(a)]
                                      /\ t[0] = 0 /\ \A i \in 1..Len(a) : t[i] = t[i - 1] + a[i]
  BY SumDefined
<1> DEFINE u == [i \in 0..Len(a) + n |-> IF i <= Len(a) THEN t[i] ELSE t[Len(a)] + (i - Len(a)) * x]
<1>2. [i \in 1..n |-> x] \in Seq(Int) /\ Len([i \in 1..n |-> x]) = n
  OBVIOUS
<1>3. b \in Seq(Int) /\ Len(b) = Len(a) + n
  BY <1>2
<1>4. u[0] = 0
  BY <1>1
<1>5. ASSUME NEW i \in 1..Len(b) PROVE u[i] = u[i - 1] + b[i]
  <2>1. i \in 0..Len(a) + n /\ i - 1 \in 0..Len(a) + n
    BY <1>3
  <2>2. CASE i <= Len(a)
    <3>1. i \in 1..Len(a) /\ b[i] = a[i] /\ u[i] = t[i] /\ u[i - 1] = t[i - 1]
      BY <1>2, <2>1, <2>2
    <3> QED BY <1>1, <3>1
  <2>3. CASE i > Len(a)
    <3>1. b[i] = x
      BY <1>2, <1>3, <2>3
    <3>2. u[i] = t[Len(a)] + (i - Len(a)) * x
      BY <2>1, <2>3
    <3>3. u[i - 1] = t[Len(a)] + (i - 1 - Len(a)) * x
      <4>1. CASE i - 1 > Len(a)
        BY <2>1, <4>1
      <4>2. CASE i - 1 = Len(a)
        <5>1. u[i - 1] = t[Len(a)] /\ t[Len(a)] \in Int
          BY <2>1, <4>2
        <5> HIDE DEF u
        <5> QED BY <4>2, <5>1
      <4> QED BY <2>3, <4>1, <4>2
    <3>4. (i - Len(a)) * x = (i - 1 - Len(a)) * x + x
      OBVIOUS
    <3>5. t[Len(a)] \in Int
      OBVIOUS
    <3> HIDE DEF u, b
    <3> QED BY <3>1, <3>2, <3>3, <3>4, <3>5
  <2> QED BY <2>2, <2>3
<1>6. u[Len(b)] = t[Len(a)] + n * x
  <2>1. CASE n = 0
    <3>1. u[Len(b)] = t[Len(a)] /\ t[Len(a)] \in Int
      BY <1>3, <2>1
    <3> HIDE DEF u
    <3> QED BY <2>1, <3>1
  <2>2. CASE n > 0
    BY <1>3, <2>2
  <2> QED BY <2>1, <2>2
<1>7. SumOf(b) = u[Len(b)]
  <2> HIDE DEF b, u
  <2> QED BY <1>3, <1>4, <1>5, SumUnique
<1> QED BY <1>1, <1>6, <1>7

\* Smaller amounts have a smaller sum.
LEMMA SumMonotone ==
  ASSUME NEW a \in Seq(Int), NEW b \in Seq(Int), Len(a) = Len(b), \A i \in 1..Len(a) : a[i] <= b[i]
  PROVE  SumOf(a) <= SumOf(b)
<1>1. PICK t \in [0..Len(a) -> Int] : /\ SumOf(a) = t[Len(a)]
                                      /\ t[0] = 0 /\ \A i \in 1..Len(a) : t[i] = t[i - 1] + a[i]
  BY SumDefined
<1>2. PICK u \in [0..Len(b) -> Int] : /\ SumOf(b) = u[Len(b)]
                                      /\ u[0] = 0 /\ \A i \in 1..Len(b) : u[i] = u[i - 1] + b[i]
  BY SumDefined
<1> DEFINE S == {n \in Nat : n <= Len(a) => t[n] <= u[n]}
<1>3. 0 \in S
  BY <1>1, <1>2
<1>4. ASSUME NEW n \in Nat, n \in S PROVE n + 1 \in S
  <2>1. CASE n + 1 <= Len(a)
    <3>1. n + 1 \in 1..Len(a) /\ (n + 1) - 1 = n
      BY <2>1
    <3>2. t[n + 1] = t[n] + a[n + 1] /\ u[n + 1] = u[n] + b[n + 1] /\ a[n + 1] <= b[n + 1]
      BY <1>1, <1>2, <3>1
    <3>3. n \in 0..Len(a) /\ n \in 0..Len(b) /\ n + 1 \in 1..Len(b)
      BY <2>1
    <3>4. t[n] \in Int /\ u[n] \in Int
      BY <3>3
    <3>5. a[n + 1] \in Int /\ b[n + 1] \in Int
      BY <3>1, <3>3
    <3>6. t[n] <= u[n]
      BY <1>4, <2>1
    <3> QED BY <3>2, <3>4, <3>5, <3>6
  <2> QED BY <2>1
<1>5. Len(a) \in S
  <2>1. Len(a) \in Nat
    OBVIOUS
  <2> HIDE DEF S
  <2> QED BY <1>3, <1>4, <2>1, Induction
<1> QED BY <1>1, <1>2, <1>5

\* The months of the installments, and the principals that are not spread anew.
InOrder(ls) == \A i, j \in 1..Len(ls) : i < j => ls[i].month < ls[j].month
Closed(ls) == [i \in 1..Len(ls) |-> IF Open(ls[i]) THEN 0 ELSE ls[i].principal]

\* The lines kept are those that are not open, in their order.
LEMMA KeptLines ==
  ASSUME NEW ls \in Seq(Lines)
  PROVE  /\ Kept(ls) \in Seq(Lines)
         /\ \A j \in 1..Len(Kept(ls)) : \E i \in 1..Len(ls) : ~Open(ls[i]) /\ Kept(ls)[j] = ls[i]
         /\ \A i \in 1..Len(ls) : ~Open(ls[i]) => \E j \in 1..Len(Kept(ls)) : Kept(ls)[j] = ls[i]
         /\ InOrder(ls) => InOrder(Kept(ls))
         /\ Len(Kept(ls)) <= Len(ls)
         /\ (\E i \in 1..Len(ls) : Open(ls[i])) => Len(Kept(ls)) < Len(ls)
<1>1. PICK k \in [0..Len(ls) -> Seq(Lines)] :
            /\ Kept(ls) = k[Len(ls)] /\ k[0] = <<>>
            /\ \A n \in 1..Len(ls) : k[n] = IF Open(ls[n]) THEN k[n - 1] ELSE Append(k[n - 1], ls[n])
  BY KeptDefined
<1> DEFINE From(n) == \A j \in 1..Len(k[n]) : \E i \in 1..n : ~Open(ls[i]) /\ k[n][j] = ls[i]
           Whole(n) == \A i \in 1..n : ~Open(ls[i]) => \E j \in 1..Len(k[n]) : k[n][j] = ls[i]
           Short(n) == Len(k[n]) <= n /\ ((\E i \in 1..n : Open(ls[i])) => Len(k[n]) < n)
           Sorted(n) == InOrder(ls) => InOrder(k[n])
           S == {n \in Nat : n <= Len(ls) => From(n) /\ Whole(n) /\ Short(n) /\ Sorted(n)}
<1>2. 0 \in S
  BY <1>1 DEF InOrder
<1>3. ASSUME NEW n \in Nat, n \in S PROVE n + 1 \in S
  <2>1. SUFFICES ASSUME n + 1 <= Len(ls)
                 PROVE  From(n + 1) /\ Whole(n + 1) /\ Short(n + 1) /\ Sorted(n + 1)
    OBVIOUS
  <2>2. From(n) /\ Whole(n) /\ Short(n) /\ Sorted(n)
    BY <1>3, <2>1
  <2>3. n + 1 \in 1..Len(ls) /\ (n + 1) - 1 = n /\ n \in 0..Len(ls) /\ n + 1 \in 0..Len(ls)
    BY <2>1
  <2>4. k[n] \in Seq(Lines) /\ k[n + 1] \in Seq(Lines) /\ ls[n + 1] \in Lines
    BY <2>3
  <2>5. CASE Open(ls[n + 1])
    <3>1. k[n + 1] = k[n]
      BY <1>1, <2>3, <2>5
    <3>2. From(n + 1)
      BY <2>2, <3>1
    <3>3. Whole(n + 1)
      <4>1. ASSUME NEW i \in 1..n + 1, ~Open(ls[i]) PROVE i \in 1..n
        BY <2>5, <4>1
      <4> QED BY <2>2, <3>1, <4>1
    <3>4. Short(n + 1)
      <4>1. Len(k[n]) \in Nat
        BY <2>4
      <4> QED BY <2>2, <3>1, <4>1
    <3>5. Sorted(n + 1)
      BY <2>2, <3>1
    <3> QED BY <3>2, <3>3, <3>4, <3>5
  <2>6. CASE ~Open(ls[n + 1])
    <3>1. k[n + 1] = Append(k[n], ls[n + 1])
      BY <1>1, <2>3, <2>6
    <3>2. /\ Len(k[n + 1]) = Len(k[n]) + 1 /\ k[n + 1][Len(k[n + 1])] = ls[n + 1]
          /\ \A j \in 1..Len(k[n]) : k[n + 1][j] = k[n][j]
      BY <2>4, <3>1
    <3>3. From(n + 1)
      <4>1. SUFFICES ASSUME NEW j \in 1..Len(k[n + 1])
                     PROVE  \E i \in 1..n + 1 : ~Open(ls[i]) /\ k[n + 1][j] = ls[i]
        OBVIOUS
      <4>2. CASE j \in 1..Len(k[n])
        BY <2>2, <3>2, <4>2
      <4>3. CASE j = Len(k[n + 1])
        <5>1. n + 1 \in 1..n + 1
          OBVIOUS
        <5> QED BY <2>6, <3>2, <4>3, <5>1
      <4> QED BY <2>4, <3>2, <4>2, <4>3
    <3>4. Whole(n + 1)
      <4>1. SUFFICES ASSUME NEW i \in 1..n + 1, ~Open(ls[i])
                     PROVE  \E j \in 1..Len(k[n + 1]) : k[n + 1][j] = ls[i]
        OBVIOUS
      <4>2. CASE i \in 1..n
        <5>1. PICK j \in 1..Len(k[n]) : k[n][j] = ls[i]
          BY <2>2, <4>1, <4>2
        <5>2. j \in 1..Len(k[n + 1])
          BY <2>4, <3>2
        <5> QED BY <3>2, <5>1, <5>2
      <4>3. CASE i = n + 1
        <5>1. Len(k[n + 1]) \in 1..Len(k[n + 1])
          BY <2>4, <3>2
        <5> QED BY <3>2, <4>3, <5>1
      <4> QED BY <4>2, <4>3
    <3>5. Short(n + 1)
      <4>1. (\E i \in 1..n + 1 : Open(ls[i])) => \E i \in 1..n : Open(ls[i])
        BY <2>6
      <4>2. Len(k[n]) \in Nat
        BY <2>4
      <4> QED BY <2>2, <3>2, <4>1, <4>2
    <3>6. ASSUME InOrder(ls) PROVE InOrder(k[n + 1])
      <4>1. SUFFICES ASSUME NEW i \in 1..Len(k[n + 1]), NEW j \in 1..Len(k[n + 1]), i < j
                     PROVE  k[n + 1][i].month < k[n + 1][j].month
        BY DEF InOrder
      <4>2. i \in 1..Len(k[n]) /\ k[n + 1][i] = k[n][i]
        BY <2>4, <3>2, <4>1
      <4>3. CASE j \in 1..Len(k[n])
        BY <2>2, <3>2, <3>6, <4>1, <4>2, <4>3 DEF InOrder
      <4>4. CASE j = Len(k[n + 1])
        <5>1. PICK p \in 1..n : k[n][i] = ls[p]
          BY <2>2, <4>2
        <5>2. p \in 1..Len(ls) /\ p < n + 1
          BY <2>3
        <5> QED BY <2>3, <3>2, <3>6, <4>2, <4>4, <5>1, <5>2 DEF InOrder
      <4> QED BY <2>4, <3>2, <4>3, <4>4
    <3> QED BY <3>3, <3>4, <3>5, <3>6
  <2> QED BY <2>5, <2>6
<1>4. Len(ls) \in S
  <2>1. Len(ls) \in Nat
    OBVIOUS
  <2> HIDE DEF S
  <2> QED BY <1>2, <1>3, <2>1, Induction
<1>5. k[Len(ls)] \in Seq(Lines)
  OBVIOUS
<1> QED BY <1>1, <1>4, <1>5

\* What the lines kept add up to.
LEMMA KeptTotal ==
  ASSUME NEW ls \in Seq(Lines)
  PROVE  Total(Kept(ls)) = SumOf(Closed(ls))
<1>1. PICK k \in [0..Len(ls) -> Seq(Lines)] :
            /\ Kept(ls) = k[Len(ls)] /\ k[0] = <<>>
            /\ \A n \in 1..Len(ls) : k[n] = IF Open(ls[n]) THEN k[n - 1] ELSE Append(k[n - 1], ls[n])
  BY KeptDefined
<1>2. Closed(ls) \in Seq(Int) /\ Len(Closed(ls)) = Len(ls)
  <2>1. ASSUME NEW i \in 1..Len(ls) PROVE ls[i].principal \in Int
    BY LineTypes
  <2> QED BY <2>1 DEF Closed
<1>3. PICK t \in [0..Len(ls) -> Int] :
            /\ SumOf(Closed(ls)) = t[Len(ls)]
            /\ t[0] = 0 /\ \A n \in 1..Len(ls) : t[n] = t[n - 1] + Closed(ls)[n]
  BY <1>2, SumDefined
<1> DEFINE S == {n \in Nat : n <= Len(ls) => Total(k[n]) = t[n]}
<1>4. 0 \in S
  <2>1. Principals(<<>>) = <<>>
    BY DEF Principals
  <2> QED BY <1>1, <1>3, <2>1, SumEmpty DEF Total
<1>5. ASSUME NEW n \in Nat, n \in S PROVE n + 1 \in S
  <2>1. SUFFICES ASSUME n + 1 <= Len(ls) PROVE Total(k[n + 1]) = t[n + 1]
    OBVIOUS
  <2>2. n + 1 \in 1..Len(ls) /\ (n + 1) - 1 = n /\ n \in 0..Len(ls)
    BY <2>1
  <2>3. k[n] \in Seq(Lines) /\ ls[n + 1] \in Lines /\ Total(k[n]) = t[n]
    BY <1>5, <2>1, <2>2
  <2>4. t[n] \in Int /\ t[n + 1] = t[n] + Closed(ls)[n + 1]
    BY <1>3, <2>2
  <2>5. CASE Open(ls[n + 1])
    <3>1. k[n + 1] = k[n] /\ Closed(ls)[n + 1] = 0
      BY <1>1, <2>2, <2>5 DEF Closed
    <3> QED BY <2>3, <2>4, <3>1
  <2>6. CASE ~Open(ls[n + 1])
    <3>1. k[n + 1] = Append(k[n], ls[n + 1]) /\ Closed(ls)[n + 1] = ls[n + 1].principal
      BY <1>1, <2>2, <2>6 DEF Closed
    <3>2. Principals(k[n + 1]) = Append(Principals(k[n]), ls[n + 1].principal)
      BY <2>3, <3>1 DEF Principals
    <3>3. Principals(k[n]) \in Seq(Int) /\ ls[n + 1].principal \in Int
      BY <2>3, AmountTypes, LineTypes
    <3> QED BY <2>3, <2>4, <3>1, <3>2, <3>3, SumAppend DEF Total
  <2> QED BY <2>5, <2>6
<1>6. Len(ls) \in S
  <2>1. Len(ls) \in Nat
    OBVIOUS
  <2> HIDE DEF S
  <2> QED BY <1>4, <1>5, <2>1, Induction
<1> QED BY <1>1, <1>3, <1>6

\* What the lines add up to when the open ones share an amount.
LEMMA SharedTotal ==
  ASSUME NEW ls \in Seq(Lines), NEW share \in Int
  PROVE  SumOf([i \in 1..Len(ls) |-> IF Open(ls[i]) THEN share ELSE ls[i].principal])
            = SumOf(Closed(ls)) + (Len(ls) - Len(Kept(ls))) * share
<1> DEFINE b == [i \in 1..Len(ls) |-> IF Open(ls[i]) THEN share ELSE ls[i].principal]
<1>1. PICK k \in [0..Len(ls) -> Seq(Lines)] :
            /\ Kept(ls) = k[Len(ls)] /\ k[0] = <<>>
            /\ \A n \in 1..Len(ls) : k[n] = IF Open(ls[n]) THEN k[n - 1] ELSE Append(k[n - 1], ls[n])
  BY KeptDefined
<1>2. Closed(ls) \in Seq(Int) /\ Len(Closed(ls)) = Len(ls)
  <2>1. ASSUME NEW i \in 1..Len(ls) PROVE ls[i].principal \in Int
    BY LineTypes
  <2> QED BY <2>1 DEF Closed
<1>3. PICK t \in [0..Len(ls) -> Int] :
            /\ SumOf(Closed(ls)) = t[Len(ls)]
            /\ t[0] = 0 /\ \A n \in 1..Len(ls) : t[n] = t[n - 1] + Closed(ls)[n]
  BY <1>2, SumDefined
<1> DEFINE u == [n \in 0..Len(ls) |-> t[n] + (n - Len(k[n])) * share]
<1>4. b \in Seq(Int) /\ Len(b) = Len(ls)
  <2>1. ASSUME NEW i \in 1..Len(ls) PROVE ls[i].principal \in Int
    BY LineTypes
  <2> QED BY <2>1
<1>5. u[0] = 0
  BY <1>1, <1>3
<1>6. ASSUME NEW n \in 1..Len(b) PROVE u[n] = u[n - 1] + b[n]
  <2>1. n \in 1..Len(ls) /\ n - 1 \in 0..Len(ls) /\ n \in 0..Len(ls)
    BY <1>4
  <2>2. k[n - 1] \in Seq(Lines) /\ k[n] \in Seq(Lines) /\ ls[n] \in Lines
    BY <2>1
  <2>3. Len(k[n - 1]) \in Nat /\ Len(k[n]) \in Nat
    BY <2>2
  <2>4. t[n - 1] \in Int /\ t[n] = t[n - 1] + Closed(ls)[n]
    BY <1>3, <2>1
  <2>5. u[n] = t[n] + (n - Len(k[n])) * share /\ u[n - 1] = t[n - 1] + (n - 1 - Len(k[n - 1])) * share
    BY <2>1
  <2>6. CASE Open(ls[n])
    <3>1. k[n] = k[n - 1] /\ Closed(ls)[n] = 0 /\ b[n] = share
      BY <1>1, <2>1, <2>6 DEF Closed
    <3> DEFINE m == n - 1 - Len(k[n - 1])
    <3>2. m \in Int /\ n - Len(k[n]) = m + 1
      BY <2>3, <3>1
    <3>3. u[n] = t[n - 1] + (m + 1) * share /\ u[n - 1] = t[n - 1] + m * share
      <4> HIDE DEF u
      <4>1. t[n] = t[n - 1]
        BY <2>4, <3>1
      <4> QED BY <2>5, <3>2, <4>1
    <3> HIDE DEF u, b, m
    <3> QED BY <2>4, <3>1, <3>2, <3>3, OneMoreUnit
  <2>7. CASE ~Open(ls[n])
    <3>1. k[n] = Append(k[n - 1], ls[n]) /\ Closed(ls)[n] = ls[n].principal /\ b[n] = ls[n].principal
      BY <1>1, <2>1, <2>7 DEF Closed
    <3>2. n - Len(k[n]) = n - 1 - Len(k[n - 1])
      BY <2>2, <2>3, <3>1
    <3>3. ls[n].principal \in Int
      BY <2>2, LineTypes
    <3> DEFINE more == (n - 1 - Len(k[n - 1])) * share
    <3>4. more \in Int
      BY <2>3, OneMoreUnit
    <3>5. u[n] = t[n] + more /\ u[n - 1] = t[n - 1] + more
      <4> HIDE DEF u
      <4> QED BY <2>5, <3>2
    <3> HIDE DEF u, b, more
    <3> QED BY <2>4, <3>1, <3>3, <3>4, <3>5
  <2> QED BY <2>6, <2>7
<1>7. SumOf(b) = u[Len(b)]
  <2> HIDE DEF b, u
  <2> QED BY <1>4, <1>5, <1>6, SumUnique
<1>8. u[Len(b)] = t[Len(ls)] + (Len(ls) - Len(Kept(ls))) * share
  BY <1>1, <1>4
<1> QED BY <1>3, <1>7, <1>8

\* A sum of amounts is an amount.
LEMMA SumInt ==
  ASSUME NEW a \in Seq(Int)
  PROVE  SumOf(a) \in Int
BY SumDefined, SumUnique

\* The last installment's part of the total.
LEMMA FrontTotal ==
  ASSUME NEW ls \in Seq(Lines), ls # <<>>
  PROVE  /\ Front(ls) \in Seq(Lines) /\ Len(Front(ls)) = Len(ls) - 1
         /\ Total(ls) = Total(Front(ls)) + ls[Len(ls)].principal
         /\ Total(Front(ls)) \in Int /\ ls[Len(ls)].principal \in Int
<1>1. Front(ls) \in Seq(Lines) /\ Len(Front(ls)) = Len(ls) - 1 /\ Len(ls) \in 1..Len(ls)
  <2>1. Len(ls) \in 1..Len(ls)
    OBVIOUS
  <2>2. Front(ls) = [i \in 1..Len(ls) - 1 |-> ls[i]]
    BY DEF Front
  <2> QED BY <2>1, <2>2
<1>2. Principals(Front(ls)) = [i \in 1..Len(Principals(ls)) - 1 |-> Principals(ls)[i]]
  BY <1>1 DEF Principals, Front
<1>3. Principals(ls) \in Seq(Int) /\ Len(Principals(ls)) = Len(ls) /\ Principals(Front(ls)) \in Seq(Int)
  BY <1>1, AmountTypes
<1>4. Principals(ls)[Len(Principals(ls))] = ls[Len(ls)].principal
  BY <1>1, <1>3 DEF Principals
<1>5. Total(ls) = Total(Front(ls)) + ls[Len(ls)].principal
  BY <1>1, <1>2, <1>3, <1>4, SumLast DEF Total
<1>6. Total(Front(ls)) \in Int
  BY <1>3, SumInt DEF Total
<1>7. ls[Len(ls)].principal \in Int
  BY <1>1, LineTypes
<1> QED BY <1>1, <1>5, <1>6, <1>7

\* The loan as it was granted, or with another installment.
AsAgreed ==
    /\ loan \in [principal : Nat \ {0}, duration : Nat, months : Nat, disb : Nat \ {0},
                 mode : {"amount", "months", "flat"}, method : {"cash", "salary"}]
    /\ (loan.months > 0) = (loan.mode = "months") /\ (loan.duration > 0) = (loan.mode # "months")
NotNegative(ls) == \A i \in 1..Len(ls) : ls[i].principal >= 0
LinesCover(ls) ==
    ls # <<>> /\ NotNegative(ls) =>
        /\ 0 <= Total(ls) - loan.principal
        /\ 2 * (Total(ls) - loan.principal) <= Len(ls)

\* The columns of a loan.
LEMMA LoanColumns ==
  ASSUME AsAgreed
  PROVE  /\ loan.principal \in Nat \ {0} /\ loan.duration \in Nat /\ loan.months \in Nat
         /\ loan.disb \in Nat
         /\ loan.mode \in {"amount", "months", "flat"}
         /\ loan.mode = "months" => loan.months > 0
         /\ loan.mode # "months" => loan.duration > 0
BY DEF AsAgreed

\* check_total_amount leaves all lines but the last, and makes the rest fit.
LEMMA BalancedLines ==
  ASSUME NEW ls \in Seq(Lines), ls # <<>>, AsAgreed
  PROVE  /\ Balanced(ls) \in Seq(Lines) /\ Len(Balanced(ls)) = Len(ls)
         /\ \A i \in 1..Len(ls) : i < Len(ls) => Balanced(ls)[i] = ls[i]
         /\ InOrder(ls) => InOrder(Balanced(ls))
         /\ NotNegative(ls) => NotNegative(Balanced(ls))
         /\ \/ Balanced(ls) = ls /\ Total(Front(ls)) >= loan.principal
            \/ Total(Balanced(ls)) = loan.principal
         /\ \/ Balanced(ls)[Len(ls)] = ls[Len(ls)]
            \/ Balanced(ls)[Len(ls)] =
                  [ls[Len(ls)] EXCEPT !.principal = loan.principal - Total(Front(Balanced(ls)))]
<1> DEFINE rest == loan.principal - Total(Front(ls))
           c == [ls EXCEPT ![Len(ls)].principal = rest]
<1>1. rest \in Int /\ loan.principal \in Nat /\ Total(Front(ls)) \in Int
  BY FrontTotal, LoanColumns
<1>2. Len(ls) \in 1..Len(ls) /\ ls[Len(ls)] \in Lines
  OBVIOUS
<1>3. CASE rest > 0
  <2>1. Balanced(ls) = c
    BY <1>3 DEF Balanced
  <2>2. [ls[Len(ls)] EXCEPT !.principal = rest] \in Lines
    BY <1>1, <1>2 DEF Lines
  <2>3. c \in Seq(Lines) /\ Len(c) = Len(ls)
    BY <1>2, <2>2
  <2>4. ASSUME NEW i \in 1..Len(ls) PROVE c[i].month = ls[i].month
    BY <1>2 DEF Lines
  <2>5. \A i \in 1..Len(ls) : i < Len(ls) => c[i] = ls[i]
    OBVIOUS
  <2>6. c[Len(c)].principal = rest
    BY <1>2, <2>3 DEF Lines
  <2>7. Front(c) = Front(ls)
    BY <1>2 DEF Front
  <2>8. Total(c) = loan.principal
    <3> HIDE DEF c
    <3>1. Total(c) = Total(Front(ls)) + rest
      BY <1>2, <2>3, <2>6, <2>7, FrontTotal
    <3> QED BY <1>1, <3>1
  <2>9. InOrder(ls) => InOrder(c)
    <3> HIDE DEF c
    <3> QED BY <2>3, <2>4 DEF InOrder
  <2>10. NotNegative(ls) => NotNegative(c)
    <3> HIDE DEF c
    <3>1. ASSUME NotNegative(ls), NEW i \in 1..Len(c) PROVE c[i].principal >= 0
      <4>1. CASE i < Len(ls)
        BY <2>3, <2>5, <3>1, <4>1 DEF NotNegative
      <4>2. CASE i = Len(c)
        BY <1>1, <1>3, <2>6, <4>2
      <4> QED BY <2>3, <4>1, <4>2
    <3> QED BY <3>1 DEF NotNegative
  <2>11. c[Len(ls)] = [ls[Len(ls)] EXCEPT !.principal = rest]
    BY <1>2
  <2> HIDE DEF c
  <2>12. c[Len(ls)] = [ls[Len(ls)] EXCEPT !.principal = loan.principal - Total(Front(c))]
    BY <2>7, <2>11
  <2> QED BY <2>1, <2>3, <2>5, <2>8, <2>9, <2>10, <2>12
<1>4. CASE ~(rest > 0)
  <2>1. Balanced(ls) = ls
    BY <1>4 DEF Balanced
  <2>2. Total(Front(ls)) >= loan.principal
    BY <1>1, <1>4
  <2> QED BY <2>1, <2>2
<1> QED BY <1>3, <1>4

\* Rounded parts exceed the whole by half a unit each, at most.
LEMMA RoundedBound ==
  ASSUME NEW a \in Int, NEW n \in Nat \ {0}
  PROVE  Rounded(a, n) \in Int /\ 2 * (n * Rounded(a, n)) <= 2 * a + n
<1> DEFINE x == 2 * a + n
           m == 2 * n
           q == x \div m
<1>1. x \in Int /\ m \in Nat \ {0}
  OBVIOUS
<1>2. q \in Int /\ m * q <= x
  <2> HIDE DEF x, m
  <2> QED BY <1>1
<1>3. m * q = 2 * (n * q)
  <2> HIDE DEF q
  <2> QED BY <1>2
<1> QED BY <1>2, <1>3 DEF Rounded

\* All installments but the last are less than the whole.
LEMMA CeilingBound ==
  ASSUME NEW a \in Int, NEW n \in Nat \ {0}, a >= n
  PROVE  Ceiling(a, n) \in Nat \ {0} /\ (Ceiling(a, n) - 1) * n < a
<1> DEFINE x == -a
           q == x \div n
<1>1. q \in Int /\ n * q <= x /\ x < n * q + n
  <2>1. x \in Int
    OBVIOUS
  <2> HIDE DEF x
  <2> QED BY <2>1
<1>2. q < 0
  <2>1. n * q < 0
    BY <1>1
  <2> HIDE DEF q
  <2> QED BY <1>1, <2>1
<1>3. (-q - 1) * n = -(n * q) - n
  <2> HIDE DEF q
  <2> QED BY <1>1
<1>4. Ceiling(a, n) = -q
  BY DEF Ceiling
<1>5. n * q \in Int
  <2> HIDE DEF q
  <2> QED BY <1>1
<1> HIDE DEF q
<1> QED BY <1>1, <1>2, <1>3, <1>4, <1>5

\* What is left of a loan; what is kept of it is at most what is off.
LEMMA LeftBound ==
  ASSUME NEW ls \in Seq(Lines), AsAgreed
  PROVE  Left(ls) \in Int /\ SumOf(Closed(ls)) \in Int /\ SumOf(Closed(ls)) + Left(ls) <= loan.principal
<1>1. Off(ls) \in Seq(Int) /\ Len(Off(ls)) = Len(ls)
  BY AmountTypes
<1>2. ASSUME NEW i \in 1..Len(ls)
      PROVE  Closed(ls)[i] \in Int /\ Closed(ls)[i] <= Off(ls)[i]
  <2>1. ls[i].principal \in Int /\ ls[i].balloon \in Nat
    BY LineTypes
  <2> QED BY <2>1 DEF Closed, Off
<1>3. Closed(ls) \in Seq(Int) /\ Len(Closed(ls)) = Len(ls)
  BY <1>2 DEF Closed
<1>4. SumOf(Closed(ls)) <= SumOf(Off(ls))
  BY <1>1, <1>2, <1>3, SumMonotone
<1>5. SumOf(Closed(ls)) \in Int /\ SumOf(Off(ls)) \in Int
  BY <1>1, <1>3, SumInt
<1>6. loan.principal \in Int
  BY LoanColumns
<1> QED BY <1>4, <1>5, <1>6 DEF Left

\* The number of new installments, and the amount of each.
Number(ls) == IF loan.mode = "months" THEN loan.months ELSE Ceiling(Left(ls), loan.duration)
Amount(ls) == IF loan.mode = "months" THEN Rounded(Left(ls), Number(ls)) ELSE loan.duration
Spreadable(ls) == loan.mode # "flat" \/ ls = <<>>

\* What the new installments add up to.
LEMMA NewAmounts ==
  ASSUME NEW ls \in Seq(Lines), AsAgreed, Spreadable(ls), Computable(ls)
  PROVE  /\ Number(ls) \in Nat \ {0} /\ Amount(ls) \in Int
         /\ loan.mode = "months" => 2 * (Number(ls) * Amount(ls)) <= 2 * Left(ls) + Number(ls)
         /\ loan.mode # "months" => Amount(ls) > 0 /\ (Number(ls) - 1) * Amount(ls) < Left(ls)
<1>1. Left(ls) \in Int
  BY LeftBound
<1>2. CASE loan.mode = "months"
  <2>1. loan.months \in Nat \ {0} /\ Number(ls) = loan.months /\ Amount(ls) = Rounded(Left(ls), loan.months)
    BY <1>2, LoanColumns DEF Number, Amount
  <2> QED BY <1>1, <1>2, <2>1, RoundedBound
<1>3. CASE loan.mode # "months"
  <2>1. loan.duration \in Nat \ {0}
    BY <1>3, LoanColumns
  <2>2. Left(ls) >= loan.duration
    <3>1. CASE loan.mode = "amount"
      BY <3>1 DEF Computable
    <3>2. CASE loan.mode = "flat" /\ ls = <<>>
      BY <3>2 DEF Computable
    <3> QED BY <1>3, <3>1, <3>2, LoanColumns DEF Spreadable
  <2>3. Number(ls) = Ceiling(Left(ls), loan.duration) /\ Amount(ls) = loan.duration
    BY <1>3 DEF Number, Amount
  <2>4. Number(ls) \in Nat \ {0} /\ (Number(ls) - 1) * Amount(ls) < Left(ls)
    BY <1>1, <2>1, <2>2, <2>3, CeilingBound
  <2> QED BY <1>3, <2>1, <2>3, <2>4
<1> QED BY <1>2, <1>3

\* The lines kept and the new ones after them.
LEMMA SpreadLines ==
  ASSUME NEW ls \in Seq(Lines), AsAgreed, Spreadable(ls), Computable(ls), today \in Nat
  PROVE  /\ Spread(ls) \in Seq(Lines) /\ Len(Spread(ls)) = Len(Kept(ls)) + Number(ls)
         /\ \A i \in 1..Len(Kept(ls)) : Spread(ls)[i] = Kept(ls)[i]
         /\ InOrder(ls) => InOrder(Spread(ls))
         /\ \A i \in 1..Len(Spread(ls)) :
               i <= Len(Kept(ls)) \/ Spread(ls)[i].principal = Amount(ls)
         /\ Total(Spread(ls)) = SumOf(Closed(ls)) + Number(ls) * Amount(ls)
<1> DEFINE n == Number(ls)
           new == [i \in 1..n |-> [principal |-> Amount(ls), balloon |-> 0, state |-> "unpaid",
                                   month |-> First(ls) + i - 1]]
           k == Kept(ls)
<1>1. n \in Nat \ {0} /\ Amount(ls) \in Int
  BY NewAmounts
<1>2. NewLines(ls) = new
  BY DEF NewLines, Number, Amount
<1>3. k \in Seq(Lines) /\ (InOrder(ls) => InOrder(k)) /\ Len(k) \in Nat
  BY KeptLines
<1>4. First(ls) \in Nat /\ (InOrder(k) => \A i \in 1..Len(k) : k[i].month < First(ls))
  <2>1. CASE k = <<>>
    <3>1. loan.disb \in Nat
      BY LoanColumns
    <3> QED BY <2>1, <3>1 DEF First
  <2>2. CASE k # <<>>
    <3>1. Len(k) \in 1..Len(k)
      BY <1>3, <2>2
    <3>2. First(ls) = k[Len(k)].month + 1
      <4>1. ls # <<>>
        BY <2>2, KeptLines
      <4> QED BY <2>2, <4>1 DEF First, Last
    <3>3. \A i \in 1..Len(k) : k[i].month \in Nat
      BY <1>3, LineTypes
    <3>4. ASSUME InOrder(k), NEW i \in 1..Len(k) PROVE k[i].month < First(ls)
      <4>1. CASE i = Len(k)
        BY <3>1, <3>2, <3>3, <4>1
      <4>2. CASE i < Len(k)
        <5>1. k[i].month < k[Len(k)].month
          BY <3>1, <3>4, <4>2 DEF InOrder
        <5> QED BY <3>1, <3>2, <3>3, <5>1
      <4> QED BY <1>3, <4>1, <4>2
    <3>5. First(ls) \in Nat
      BY <3>1, <3>2, <3>3
    <3> QED BY <3>4, <3>5
  <2> QED BY <2>1, <2>2
<1>5. \A i \in 1..n : new[i] \in Lines
  BY <1>1, <1>4 DEF Lines
<1>6. new \in Seq(Lines) /\ Len(new) = n
  BY <1>1, <1>5
<1>7. \A i \in 1..n : new[i].principal = Amount(ls) /\ new[i].month = First(ls) + i - 1
  OBVIOUS
<1> DEFINE x == k \o new
<1>8. Spread(ls) = x
  BY <1>2 DEF Spread
<1> HIDE DEF n, new, k
<1>9. x \in Seq(Lines) /\ Len(x) = Len(k) + n
  BY <1>3, <1>6
<1>10. \A i \in 1..Len(k) : x[i] = k[i]
  BY <1>3, <1>6
<1>11. ASSUME NEW i \in 1..Len(x), i > Len(k) PROVE i - Len(k) \in 1..n /\ x[i] = new[i - Len(k)]
  BY <1>1, <1>3, <1>6, <1>9, <1>11
<1>12. ASSUME InOrder(k) PROVE InOrder(x)
  <2> HIDE DEF x
  <2> SUFFICES ASSUME NEW i \in 1..Len(x), NEW j \in 1..Len(x), i < j PROVE x[i].month < x[j].month
    BY DEF InOrder
  <2>1. CASE j <= Len(k)
    <3>1. i \in 1..Len(k) /\ j \in 1..Len(k)
      BY <1>3, <1>9, <2>1
    <3> QED BY <1>10, <1>12, <3>1 DEF InOrder
  <2>2. CASE j > Len(k)
    <3>1. j - Len(k) \in 1..n /\ x[j].month = First(ls) + (j - Len(k)) - 1
      BY <1>7, <1>11, <2>2
    <3>2. CASE i <= Len(k)
      <4>1. i \in 1..Len(k) /\ x[i].month < First(ls)
        BY <1>3, <1>4, <1>9, <1>10, <1>12, <3>2
      <4>2. x[i].month \in Nat
        BY <1>9, LineTypes
      <4> QED BY <1>4, <3>1, <4>1, <4>2
    <3>3. CASE i > Len(k)
      <4>1. i - Len(k) \in 1..n /\ x[i].month = First(ls) + (i - Len(k)) - 1
        BY <1>7, <1>11, <3>3
      <4> QED BY <1>1, <1>3, <1>4, <3>1, <4>1
    <3> QED BY <1>3, <3>2, <3>3
  <2> QED BY <1>3, <2>1, <2>2
<1>13. Total(x) = SumOf(Closed(ls)) + n * Amount(ls)
  <2>1. Principals(x) = Principals(k) \o [i \in 1..n |-> Amount(ls)]
    <3> DEFINE p == Principals(k)
               same == [i \in 1..n |-> Amount(ls)]
               b == p \o same
    <3> HIDE DEF x
    <3>1. p \in Seq(Int) /\ Len(p) = Len(k) /\ \A i \in 1..Len(k) : p[i] = k[i].principal
      BY <1>3, AmountTypes DEF Principals
    <3>2. same \in Seq(Int) /\ Len(same) = n /\ \A i \in 1..n : same[i] = Amount(ls)
      BY <1>1
    <3> HIDE DEF p, same
    <3>3. b \in Seq(Int) /\ Len(b) = Len(x)
      BY <1>9, <3>1, <3>2
    <3>4. Principals(x) \in Seq(Int) /\ Len(Principals(x)) = Len(x)
      BY <1>9, AmountTypes
    <3>5. ASSUME NEW i \in 1..Len(x) PROVE Principals(x)[i] = b[i]
      <4>1. Principals(x)[i] = x[i].principal
        BY DEF Principals
      <4>2. CASE i <= Len(k)
        <5>1. i \in 1..Len(k) /\ b[i] = p[i]
          BY <1>3, <3>1, <3>2, <4>2
        <5> HIDE DEF b
        <5> QED BY <1>10, <3>1, <4>1, <5>1
      <4>3. CASE i > Len(k)
        <5>1. i - Len(k) \in 1..n /\ x[i] = new[i - Len(k)]
          BY <1>11, <4>3
        <5>2. b[i] = same[i - Len(k)]
          BY <1>3, <1>9, <3>1, <3>2, <4>3
        <5> HIDE DEF b
        <5> QED BY <1>7, <3>2, <4>1, <5>1, <5>2
      <4>4. i \in Nat /\ Len(k) \in Nat
        BY <1>3
      <4> HIDE DEF b
      <4> QED BY <4>2, <4>3, <4>4
    <3> HIDE DEF b
    <3>6. Principals(x) = b
      BY <3>3, <3>4, <3>5
    <3> QED BY <3>6 DEF b, p, same
  <2>2. Principals(k) \in Seq(Int)
    BY <1>3, AmountTypes
  <2>3. Total(k) = SumOf(Closed(ls))
    BY KeptTotal DEF k
  <2> HIDE DEF x
  <2> QED BY <1>1, <2>1, <2>2, <2>3, SumFollowed DEF Total
<1>14. \A i \in 1..Len(x) : i <= Len(k) \/ x[i].principal = Amount(ls)
  <2> HIDE DEF x
  <2>1. ASSUME NEW i \in 1..Len(x), i > Len(k) PROVE x[i].principal = Amount(ls)
    BY <1>7, <1>11, <2>1
  <2> QED BY <1>3, <2>1
<1> HIDE DEF x
<1> QED BY <1>3, <1>8, <1>9, <1>10, <1>12, <1>13, <1>14 DEF n, k

\* The open lines of a flat loan share what is left.
LEMMA SharedLines ==
  ASSUME NEW ls \in Seq(Lines), AsAgreed, \E i \in 1..Len(ls) : Open(ls[i]), NotNegative(ls), LinesCover(ls)
  PROVE  /\ Shared(ls) \in Seq(Lines) /\ Len(Shared(ls)) = Len(ls)
         /\ \A i \in 1..Len(ls) : ~Open(ls[i]) => Shared(ls)[i] = ls[i]
         /\ InOrder(ls) => InOrder(Shared(ls))
         /\ NotNegative(Shared(ls))
         /\ 2 * (Total(Shared(ls)) - loan.principal) <= Len(ls)
<1> DEFINE open == Len(ls) - Len(Kept(ls))
           rounded == Rounded(Left(ls), open)
           share == Max({0, rounded})
           x == [i \in 1..Len(ls) |-> IF Open(ls[i]) THEN [ls[i] EXCEPT !.principal = share] ELSE ls[i]]
<1>1. Left(ls) \in Int /\ SumOf(Closed(ls)) \in Int /\ SumOf(Closed(ls)) + Left(ls) <= loan.principal
  BY LeftBound
<1>2. open \in Nat \ {0} /\ open <= Len(ls)
  <2>1. Kept(ls) \in Seq(Lines) /\ Len(Kept(ls)) < Len(ls)
    BY KeptLines
  <2> QED BY <2>1
<1>3. rounded \in Int /\ 2 * (open * rounded) <= 2 * Left(ls) + open
  <2> HIDE DEF open
  <2> QED BY <1>1, <1>2, RoundedBound
<1>4. share \in Nat /\ (share = rounded \/ share = 0)
  <2> HIDE DEF rounded
  <2>1. \E m \in {0, rounded} : \A y \in {0, rounded} : m >= y
    BY <1>3
  <2>2. share \in {0, rounded} /\ \A y \in {0, rounded} : share >= y
    BY <2>1 DEF Max
  <2> QED BY <1>3, <2>2
<1>5. Shared(ls) = x
  BY DEF Shared
<1> HIDE DEF open, rounded, share
<1>6. ASSUME NEW i \in 1..Len(ls)
      PROVE  /\ x[i] \in Lines /\ x[i].month = ls[i].month
             /\ x[i].principal = IF Open(ls[i]) THEN share ELSE ls[i].principal
  <2>1. ls[i] \in Lines
    OBVIOUS
  <2>2. /\ [ls[i] EXCEPT !.principal = share] \in Lines
        /\ [ls[i] EXCEPT !.principal = share].month = ls[i].month
        /\ [ls[i] EXCEPT !.principal = share].principal = share
    BY <1>4, <2>1, LineWithPrincipal
  <2>4. CASE Open(ls[i])
    <3>1. x[i] = [ls[i] EXCEPT !.principal = share]
      BY <2>4
    <3> QED BY <2>2, <2>4, <3>1
  <2>5. CASE ~Open(ls[i])
    <3>1. x[i] = ls[i]
      BY <2>5
    <3> QED BY <2>1, <2>5, <3>1
  <2> QED BY <2>4, <2>5
<1>7. x \in Seq(Lines) /\ Len(x) = Len(ls)
  BY <1>6
<1>8. \A i \in 1..Len(ls) : ~Open(ls[i]) => x[i] = ls[i]
  OBVIOUS
<1> HIDE DEF x
<1>9. InOrder(ls) => InOrder(x)
  BY <1>6, <1>7 DEF InOrder
<1>10. NotNegative(x)
  BY <1>4, <1>6, <1>7 DEF NotNegative
<1>11. Total(x) = SumOf(Closed(ls)) + open * share
  <2>1. Principals(x) = [i \in 1..Len(ls) |-> IF Open(ls[i]) THEN share ELSE ls[i].principal]
    BY <1>6, <1>7 DEF Principals
  <2>2. SumOf([i \in 1..Len(ls) |-> IF Open(ls[i]) THEN share ELSE ls[i].principal])
           = SumOf(Closed(ls)) + (Len(ls) - Len(Kept(ls))) * share
    <3>1. share \in Int
      BY <1>4
    <3> QED BY <3>1, SharedTotal
  <2> QED BY <2>1, <2>2 DEF Total, open
<1>12. 2 * (Total(x) - loan.principal) <= Len(ls)
  <2>1. loan.principal \in Int /\ Len(ls) \in Nat
    BY LoanColumns
  <2>2. CASE share = rounded
    <3>1. open * rounded \in Int
      BY <1>2, <1>3
    <3> QED BY <1>1, <1>2, <1>3, <1>11, <2>1, <2>2, <3>1
  <2>3. CASE share = 0
    <3>1. Total(x) = SumOf(Closed(ls))
      BY <1>1, <1>2, <1>11, <2>3
    <3>2. SumOf(Closed(ls)) <= Total(ls)
      <4>1. Principals(ls) \in Seq(Int) /\ Len(Principals(ls)) = Len(ls)
        BY AmountTypes
      <4>2. ASSUME NEW i \in 1..Len(ls)
            PROVE  Closed(ls)[i] \in Int /\ Closed(ls)[i] <= Principals(ls)[i]
        <5>1. ls[i].principal \in Int /\ ls[i].principal >= 0
          BY LineTypes DEF NotNegative
        <5> QED BY <5>1 DEF Closed, Principals
      <4>3. Closed(ls) \in Seq(Int) /\ Len(Closed(ls)) = Len(ls)
        BY <4>2 DEF Closed
      <4> QED BY <4>1, <4>2, <4>3, SumMonotone DEF Total
    <3>3. Total(ls) \in Int
      BY AmountTypes, SumInt DEF Total
    <3>4. 2 * (Total(ls) - loan.principal) <= Len(ls)
      BY DEF LinesCover
    <3> QED BY <1>1, <2>1, <3>1, <3>2, <3>3, <3>4
  <2> QED BY <1>4, <2>2, <2>3
<1> QED BY <1>5, <1>7, <1>8, <1>9, <1>10, <1>12

\* A line that is given what the others leave.
TakesTheRest(line, ls, i) == ls[i] = [line EXCEPT !.principal = loan.principal - Total(Front(ls))]

\* What an installment computed anew adds up to, and that what is paid stays.
LEMMA ComputedLines ==
  ASSUME NEW ls \in Seq(Lines), AsAgreed, today \in Nat, Computable(ls),
         loan.mode # "months" => NotNegative(ls), LinesCover(ls), InOrder(ls)
  PROVE  /\ Computed(ls) \in Seq(Lines) /\ Computed(ls) # <<>>
         /\ InOrder(Computed(ls))
         /\ loan.mode # "months" => NotNegative(Computed(ls))
         /\ LinesCover(Computed(ls))
         /\ \A i \in 1..Len(ls) :
               ~Open(ls[i]) =>
                  \/ \E j \in 1..Len(Computed(ls)) : Computed(ls)[j] = ls[i]
                  \/ loan.mode = "flat" /\ i = Len(ls) /\ TakesTheRest(ls[i], Computed(ls), i)
<1> DEFINE x == IF loan.mode = "flat" /\ ls # <<>> THEN Shared(ls) ELSE Spread(ls)
           c == Balanced(x)
<1>1. Computed(ls) = c
  BY DEF Computed
<1>2. /\ x \in Seq(Lines) /\ x # <<>> /\ InOrder(x)
      /\ loan.mode # "months" => NotNegative(x)
      /\ 2 * (Total(x) - loan.principal) <= Len(x) \/ Total(Front(x)) < loan.principal
      /\ \A i \in 1..Len(ls) :
            ~Open(ls[i]) => \/ \E j \in 1..Len(x) : j < Len(x) /\ x[j] = ls[i]
                            \/ loan.mode = "flat" /\ i = Len(ls) /\ i = Len(x) /\ x[i] = ls[i]
  <2>1. CASE loan.mode = "flat" /\ ls # <<>>
    <3>1. x = Shared(ls)
      BY <2>1
    <3>2. \E i \in 1..Len(ls) : Open(ls[i])
      BY <2>1 DEF Computable
    <3>3. NotNegative(ls)
      BY <2>1
    <3> HIDE DEF x
    <3>4. /\ x \in Seq(Lines) /\ Len(x) = Len(ls)
          /\ \A i \in 1..Len(ls) : ~Open(ls[i]) => x[i] = ls[i]
          /\ InOrder(x) /\ NotNegative(x) /\ 2 * (Total(x) - loan.principal) <= Len(ls)
      BY <3>1, <3>2, <3>3, SharedLines
    <3>5. ASSUME NEW i \in 1..Len(ls), ~Open(ls[i])
          PROVE  \/ \E j \in 1..Len(x) : j < Len(x) /\ x[j] = ls[i]
                 \/ i = Len(ls) /\ i = Len(x) /\ x[i] = ls[i]
      BY <3>4, <3>5
    <3>6. x # <<>>
      BY <2>1, <3>4
    <3> QED BY <2>1, <3>4, <3>5, <3>6
  <2>2. CASE ~(loan.mode = "flat" /\ ls # <<>>)
    <3>1. x = Spread(ls) /\ Spreadable(ls)
      BY <2>2 DEF Spreadable
    <3> HIDE DEF x
    <3> DEFINE n == Number(ls)
               a == Amount(ls)
               closed == SumOf(Closed(ls))
    <3>2. /\ x \in Seq(Lines) /\ Len(x) = Len(Kept(ls)) + n
          /\ \A i \in 1..Len(Kept(ls)) : x[i] = Kept(ls)[i]
          /\ InOrder(x)
          /\ \A i \in 1..Len(x) : i <= Len(Kept(ls)) \/ x[i].principal = a
          /\ Total(x) = closed + n * a
      BY <3>1, SpreadLines
    <3>3. /\ n \in Nat \ {0} /\ a \in Int
          /\ loan.mode = "months" => 2 * (n * a) <= 2 * Left(ls) + n
          /\ loan.mode # "months" => a > 0 /\ (n - 1) * a < Left(ls)
      BY <3>1, NewAmounts
    <3>4. /\ Kept(ls) \in Seq(Lines) /\ Len(Kept(ls)) \in Nat
          /\ \A j \in 1..Len(Kept(ls)) : \E i \in 1..Len(ls) : Kept(ls)[j] = ls[i]
          /\ \A i \in 1..Len(ls) : ~Open(ls[i]) => \E j \in 1..Len(Kept(ls)) : Kept(ls)[j] = ls[i]
      BY KeptLines
    <3>5. /\ Left(ls) \in Int /\ closed \in Int /\ closed + Left(ls) <= loan.principal /\ loan.principal \in Int
      BY LeftBound, LoanColumns
    <3> HIDE DEF n, a, closed
    <3>6. x # <<>> /\ Len(x) \in Nat /\ Len(x) > Len(Kept(ls))
      BY <3>2, <3>3, <3>4
    <3>7. ASSUME loan.mode # "months" PROVE NotNegative(x)
      <4>1. ASSUME NEW i \in 1..Len(x) PROVE x[i].principal >= 0
        <5>1. CASE i \in 1..Len(Kept(ls))
          BY <3>2, <3>4, <3>7, <5>1 DEF NotNegative
        <5>2. CASE x[i].principal = a
          BY <3>3, <3>7, <5>2
        <5> QED BY <3>2, <3>4, <5>1, <5>2
      <4> QED BY <4>1 DEF NotNegative
    <3>8. n * a \in Int /\ (n - 1) * a = n * a - a
      BY <3>3
    <3>9. 2 * (Total(x) - loan.principal) <= Len(x) \/ Total(Front(x)) < loan.principal
      <4>1. CASE loan.mode = "months"
        BY <3>2, <3>3, <3>4, <3>5, <3>8, <4>1
      <4>2. CASE loan.mode # "months"
        <5>1. Total(x) = Total(Front(x)) + x[Len(x)].principal /\ Total(Front(x)) \in Int
          BY <3>2, <3>6, FrontTotal
        <5>2. x[Len(x)].principal = a
          BY <3>2, <3>4, <3>6
        <5> QED BY <3>2, <3>3, <3>5, <3>8, <4>2, <5>1, <5>2
      <4> QED BY <4>1, <4>2
    <3>10. ASSUME NEW i \in 1..Len(ls), ~Open(ls[i])
           PROVE  \E j \in 1..Len(x) : j < Len(x) /\ x[j] = ls[i]
      <4>1. PICK j \in 1..Len(Kept(ls)) : Kept(ls)[j] = ls[i]
        BY <3>4, <3>10
      <4>2. j \in 1..Len(x) /\ j < Len(x) /\ x[j] = ls[i]
        BY <3>2, <3>4, <3>6, <4>1
      <4> QED BY <4>2
    <3> QED BY <3>2, <3>6, <3>7, <3>9, <3>10
  <2> QED BY <2>1, <2>2
<1> HIDE DEF x
<1>3. /\ c \in Seq(Lines) /\ Len(c) = Len(x)
      /\ \A i \in 1..Len(x) : i < Len(x) => c[i] = x[i]
      /\ InOrder(c) /\ (NotNegative(x) => NotNegative(c))
      /\ \/ c = x /\ Total(Front(x)) >= loan.principal
         \/ Total(c) = loan.principal
      /\ c[Len(x)] = x[Len(x)] \/ TakesTheRest(x[Len(x)], c, Len(x))
  BY <1>2, BalancedLines DEF TakesTheRest
<1>4. c # <<>>
  BY <1>2, <1>3
<1> HIDE DEF c
<1>5. LinesCover(c)
  <2>1. loan.principal \in Int /\ Len(c) \in Nat
    BY <1>3, LoanColumns
  <2>2. CASE Total(c) = loan.principal
    BY <2>1, <2>2 DEF LinesCover
  <2>3. CASE c = x /\ Total(Front(x)) >= loan.principal
    <3>1. SUFFICES ASSUME NotNegative(x)
                   PROVE  0 <= Total(x) - loan.principal /\ 2 * (Total(x) - loan.principal) <= Len(x)
      BY <2>3 DEF LinesCover
    <3>2. /\ Total(x) = Total(Front(x)) + x[Len(x)].principal /\ Total(Front(x)) \in Int
          /\ x[Len(x)].principal \in Int
      BY <1>2, FrontTotal
    <3>3. x[Len(x)].principal >= 0
      BY <1>2, <3>1 DEF NotNegative
    <3>4. 2 * (Total(x) - loan.principal) <= Len(x)
      BY <1>2, <2>1, <2>3, <3>2
    <3> QED BY <2>1, <2>3, <3>2, <3>3, <3>4
  <2> QED BY <1>3, <2>2, <2>3
<1>6. ASSUME NEW i \in 1..Len(ls), ~Open(ls[i])
      PROVE  \/ \E j \in 1..Len(c) : c[j] = ls[i]
             \/ loan.mode = "flat" /\ i = Len(ls) /\ TakesTheRest(ls[i], c, i)
  <2>1. CASE \E j \in 1..Len(x) : j < Len(x) /\ x[j] = ls[i]
    BY <1>3, <2>1
  <2>2. CASE loan.mode = "flat" /\ i = Len(ls) /\ i = Len(x) /\ x[i] = ls[i]
    <3>1. i \in 1..Len(c)
      BY <1>3, <2>2
    <3>2. CASE c[i] = x[i]
      BY <2>2, <3>1, <3>2
    <3>3. CASE TakesTheRest(x[i], c, i)
      <4>1. TakesTheRest(ls[i], c, i)
        BY <2>2, <3>3
      <4> QED BY <2>2, <4>1
    <3> QED BY <1>3, <2>2, <3>2, <3>3
  <2> QED BY <1>2, <1>6, <2>1, <2>2
<1>7. loan.mode # "months" => NotNegative(c)
  BY <1>2, <1>3
<1> QED BY <1>1, <1>3, <1>4, <1>5, <1>6, <1>7

-----------------------------------------------------------------------------
\* The inductive invariant: what is left to prove is what a step computes, and
\* that nothing else changes a principal or a month.
LoanInv ==
    /\ LoanTypeOK
    /\ AsAgreed
    /\ InOrder(lines)
    /\ loan.mode # "months" => NotNegative(lines)
    /\ LinesCover(lines)

\* Two schedules that differ in states and balloons only.
SamePlan(old, new) ==
    /\ new \in Seq(Lines) /\ Len(new) = Len(old)
    /\ \A i \in 1..Len(old) : new[i].principal = old[i].principal /\ new[i].month = old[i].month

\* The plan is all that the invariant looks at.
LEMMA SamePlanKeeps ==
  ASSUME NEW old \in Seq(Lines), NEW new, SamePlan(old, new)
  PROVE  /\ InOrder(old) => InOrder(new)
         /\ NotNegative(old) <=> NotNegative(new)
         /\ LinesCover(old) => LinesCover(new)
         /\ new \in Seq(Lines)
<1>1. new \in Seq(Lines) /\ Len(new) = Len(old)
  BY DEF SamePlan
<1>2. InOrder(old) => InOrder(new)
  BY DEF InOrder, SamePlan
<1>3. NotNegative(old) <=> NotNegative(new)
  BY DEF NotNegative, SamePlan
<1>4. Principals(old) = Principals(new)
  BY DEF Principals, SamePlan
<1>5. (old = <<>>) <=> (new = <<>>)
  BY <1>1
<1> QED BY <1>1, <1>2, <1>3, <1>4, <1>5 DEF LinesCover, Total

\* A line with another state.
LEMMA SamePlanStates ==
  ASSUME NEW ls \in Seq(Lines), NEW i \in 1..Len(ls), NEW s \in {"unpaid", "approve", "paid"}
  PROVE  SamePlan(ls, [ls EXCEPT ![i].state = s]) /\ [ls EXCEPT ![i].state = s][i] = [ls[i] EXCEPT !.state = s]
<1>1. ls[i] \in Lines
  OBVIOUS
<1>2. /\ [ls[i] EXCEPT !.state = s] \in Lines
      /\ [ls[i] EXCEPT !.state = s].principal = ls[i].principal /\ [ls[i] EXCEPT !.state = s].month = ls[i].month
  BY <1>1 DEF Lines
<1> QED BY <1>2 DEF SamePlan

\* A line with another balloon.
LEMMA SamePlanBalloons ==
  ASSUME NEW ls \in Seq(Lines), NEW i \in 1..Len(ls), NEW b \in Balloons
  PROVE  SamePlan(ls, [ls EXCEPT ![i].balloon = b])
<1>1. ls[i] \in Lines
  OBVIOUS
<1>2. /\ [ls[i] EXCEPT !.balloon = b] \in Lines
      /\ [ls[i] EXCEPT !.balloon = b].principal = ls[i].principal
      /\ [ls[i] EXCEPT !.balloon = b].month = ls[i].month
  BY <1>1 DEF Lines
<1> QED BY <1>2 DEF SamePlan

\* A new computation of lines that have the plan of those there are.
LEMMA RecomputeKeeps ==
  ASSUME LoanInv, NEW ls, SamePlan(lines, ls), Recompute(ls), UNCHANGED <<loan, stage, today>>
  PROVE  LoanInv'
<1>1. lines \in Seq(Lines) /\ today \in Nat
  BY DEF LoanInv, LoanTypeOK
<1>2. ls \in Seq(Lines) /\ InOrder(ls) /\ LinesCover(ls) /\ (loan.mode # "months" => NotNegative(ls))
  BY <1>1, SamePlanKeeps DEF LoanInv
<1>3. AsAgreed /\ Computable(ls) /\ lines' = Computed(ls) /\ Len(lines') <= MaxLines
  BY DEF LoanInv, Recompute
<1>4. /\ lines' \in Seq(Lines) /\ InOrder(lines') /\ LinesCover(lines')
      /\ loan.mode # "months" => NotNegative(lines')
  BY <1>1, <1>2, <1>3, ComputedLines
<1>5. LoanTypeOK'
  BY <1>3, <1>4 DEF LoanInv, LoanTypeOK
<1>6. AsAgreed'
  BY <1>3 DEF AsAgreed
<1>7. InOrder(lines)' /\ LinesCover(lines)' /\ (loan.mode # "months" => NotNegative(lines))'
  BY <1>4 DEF InOrder, LinesCover, NotNegative, Total, Principals, SumOf
<1> QED BY <1>5, <1>6, <1>7 DEF LoanInv

\* A change of a state or a balloon.
LEMMA SamePlanInv ==
  ASSUME LoanInv, SamePlan(lines, lines'), UNCHANGED <<loan, stage, today>>
  PROVE  LoanInv'
<1>1. lines \in Seq(Lines)
  BY DEF LoanInv, LoanTypeOK
<1>2. /\ InOrder(lines') /\ LinesCover(lines') /\ lines' \in Seq(Lines)
      /\ loan.mode # "months" => NotNegative(lines')
  BY <1>1, SamePlanKeeps DEF LoanInv
<1>3. LoanTypeOK'
  BY <1>2 DEF LoanInv, LoanTypeOK, SamePlan
<1>4. AsAgreed'
  BY DEF LoanInv, AsAgreed
<1>5. InOrder(lines)' /\ LinesCover(lines)' /\ (loan.mode # "months" => NotNegative(lines))'
  BY <1>2 DEF InOrder, LinesCover, NotNegative, Total, Principals, SumOf
<1> QED BY <1>3, <1>4, <1>5 DEF LoanInv

\* A step that does not touch the lines, nor the amount of the loan.
LEMMA LinesUntouched ==
  ASSUME LoanInv, lines' = lines, loan'.principal = loan.principal, loan'.mode = loan.mode
  PROVE  (InOrder(lines) /\ LinesCover(lines) /\ (loan.mode # "months" => NotNegative(lines)))'
<1>1. InOrder(lines)' /\ (NotNegative(lines)' <=> NotNegative(lines))
  BY DEF LoanInv, InOrder, NotNegative
<1>2. Total(lines)' = Total(lines)
  BY DEF Total, Principals, SumOf
<1>3. LinesCover(lines)
  BY DEF LoanInv
<1>4. LinesCover(lines)'
  BY <1>1, <1>2, <1>3 DEF LinesCover
<1> QED BY <1>1, <1>4 DEF LoanInv

\* A new loan has no installments.
LEMMA LoanInvInit == LoanInit => LoanInv
<1> SUFFICES ASSUME LoanInit PROVE LoanInv
  OBVIOUS
<1>1. lines = <<>> /\ stage = "draft" /\ today = 1 /\ loan \in Loans
  BY DEF LoanInit
<1>2. LoanTypeOK
  BY <1>1, EmployeeLoanAssumption DEF LoanTypeOK
<1>3. AsAgreed
  BY <1>1, EmployeeLoanAssumption DEF AsAgreed
<1>4. InOrder(lines) /\ NotNegative(lines) /\ LinesCover(lines)
  BY <1>1 DEF InOrder, NotNegative, LinesCover
<1> QED BY <1>2, <1>3, <1>4 DEF LoanInv

\* Every step of the loan keeps the invariant.
LEMMA LoanInvNext == LoanInv /\ [LoanNext]_loanVars => LoanInv'
<1> SUFFICES ASSUME LoanInv, [LoanNext]_loanVars PROVE LoanInv'
  OBVIOUS
<1>1. /\ lines \in Seq(Lines) /\ Len(lines) \in Nat /\ DOMAIN lines = 1..Len(lines)
      /\ stage \in {"draft", "applied"} /\ today \in 1..MaxMonth
  BY DEF LoanInv, LoanTypeOK
<1>2. CASE Apply
  <2>1. LoanTypeOK'
    BY <1>2 DEF Apply, LoanInv, LoanTypeOK
  <2>2. AsAgreed'
    BY <1>2 DEF Apply, LoanInv, AsAgreed
  <2>3. (InOrder(lines) /\ LinesCover(lines) /\ (loan.mode # "months" => NotNegative(lines)))'
    BY <1>2, LinesUntouched DEF Apply
  <2> QED BY <2>1, <2>2, <2>3 DEF LoanInv
<1>3. CASE Compute
  <2>1. SamePlan(lines, lines)
    BY <1>1 DEF SamePlan
  <2> QED BY <1>3, <2>1, RecomputeKeeps DEF Compute
<1>4. CASE NextMonth
  <2>1. LoanTypeOK'
    BY <1>4, EmployeeLoanAssumption DEF NextMonth, LoanInv, LoanTypeOK
  <2>2. AsAgreed'
    BY <1>4 DEF NextMonth, LoanInv, AsAgreed
  <2>3. (InOrder(lines) /\ LinesCover(lines) /\ (loan.mode # "months" => NotNegative(lines)))'
    BY <1>4, LinesUntouched DEF NextMonth
  <2> QED BY <2>1, <2>2, <2>3 DEF LoanInv
<1>5. ASSUME NEW d \in Durations, ChangeDuration(d) PROVE LoanInv'
  <2>1. d \in Nat \ {0} /\ loan.mode # "months" /\ loan' = [loan EXCEPT !.duration = d]
    BY <1>5, EmployeeLoanAssumption DEF ChangeDuration
  <2>2. AsAgreed
    BY DEF LoanInv
  <2>3. /\ loan'.principal = loan.principal /\ loan'.mode = loan.mode /\ loan'.months = loan.months
        /\ loan'.duration = d
        /\ loan' \in [principal : Nat \ {0}, duration : Nat, months : Nat, disb : Nat \ {0},
                      mode : {"amount", "months", "flat"}, method : {"cash", "salary"}]
    BY <2>1, <2>2 DEF AsAgreed
  <2>4. AsAgreed'
    <3>1. (loan.months > 0) = (loan.mode = "months")
      BY <2>2 DEF AsAgreed
    <3> QED BY <2>1, <2>3, <3>1 DEF AsAgreed
  <2>5. LoanTypeOK'
    BY <1>5 DEF ChangeDuration, LoanInv, LoanTypeOK
  <2>6. (InOrder(lines) /\ LinesCover(lines) /\ (loan.mode # "months" => NotNegative(lines)))'
    BY <1>5, <2>3, LinesUntouched DEF ChangeDuration
  <2> QED BY <2>4, <2>5, <2>6 DEF LoanInv
<1>6. ASSUME NEW i \in DOMAIN lines, ApprovePayment(i) \/ ResetPayment(i) PROVE LoanInv'
  <2>1. PICK s \in {"unpaid", "approve", "paid"} : lines' = [lines EXCEPT ![i].state = s]
    BY <1>6 DEF ApprovePayment, ResetPayment
  <2>2. SamePlan(lines, lines')
    BY <1>1, <2>1, SamePlanStates
  <2> QED BY <1>6, <2>2, SamePlanInv DEF ApprovePayment, ResetPayment
<1>7. ASSUME NEW i \in DOMAIN lines, PayInstallment(i) PROVE LoanInv'
  <2> DEFINE paid == [lines EXCEPT ![i].state = "paid"]
  <2>1. SamePlan(lines, paid)
    BY <1>1, SamePlanStates
  <2>2. UNCHANGED <<loan, stage, today>> /\ (Recompute(paid) \/ lines' = paid)
    BY <1>7 DEF PayInstallment
  <2> HIDE DEF paid
  <2>3. CASE Recompute(paid)
    BY <2>1, <2>2, <2>3, RecomputeKeeps
  <2>4. CASE lines' = paid
    BY <2>1, <2>2, <2>4, SamePlanInv
  <2> QED BY <2>2, <2>3, <2>4
<1>8. ASSUME NEW i \in DOMAIN lines, NEW b \in Balloons, SetBalloon(i, b) PROVE LoanInv'
  <2>1. SamePlan(lines, lines')
    BY <1>1, <1>8, SamePlanBalloons DEF SetBalloon
  <2> QED BY <1>8, <2>1, SamePlanInv DEF SetBalloon
<1>9. CASE UNCHANGED loanVars
  <2>1. SamePlan(lines, lines') /\ UNCHANGED <<loan, stage, today>>
    BY <1>1, <1>9 DEF SamePlan, loanVars
  <2> QED BY <2>1, SamePlanInv
<1> QED BY <1>2, <1>3, <1>4, <1>5, <1>6, <1>7, <1>8, <1>9 DEF LoanNext, PayslipDone

\* The inductive invariant holds in every state of a loan.
THEOREM LoanInvariance == LoanSpec => []LoanInv
BY LoanInvInit, LoanInvNext, PTL DEF LoanSpec

\* Installments are installments, and there are no more than the bound.
THEOREM LoanTypes == LoanSpec => []LoanTypeOK
<1>1. LoanInv => LoanTypeOK
  BY DEF LoanInv
<1> QED BY <1>1, LoanInvariance, PTL

\* However often the installments of compute_installments are computed anew,
\* no two are due in one month.
THEOREM MonthsAreDueOnce == LoanSpec => []OnePerMonth
<1>1. LoanInv => OnePerMonth
  <2>1. SUFFICES ASSUME LoanInv, NEW i \in 1..Len(lines), NEW j \in 1..Len(lines),
                        lines[i].month = lines[j].month, i < j
                 PROVE  FALSE
    BY DEF OnePerMonth, LoanInv, LoanTypeOK
  <2>2. lines[i].month \in Nat /\ lines[i].month < lines[j].month
    BY <2>1, LineTypes DEF LoanInv, LoanTypeOK, InOrder
  <2> QED BY <2>1, <2>2
<1> QED BY <1>1, LoanInvariance, PTL

\* What check_total_amount leaves covers the loan, but for the rounding of each
\* installment, whatever was paid, reset or typed before.
THEOREM LoanIsCovered == LoanSpec => []ScheduleCovers
<1>1. LoanInv => ScheduleCovers
  BY DEF LoanInv, LoanTypeOK, LinesCover, NotNegative, ScheduleCovers
<1> QED BY <1>1, LoanInvariance, PTL

\* What a new computation leaves of the lines that are paid.
LEMMA PaidIsKept ==
  ASSUME LoanInv, NEW ls, SamePlan(lines, ls), Recompute(ls), NEW i \in 1..Len(lines),
         ls[i] = lines[i], lines[i].state = "paid"
  PROVE  \/ \E j \in DOMAIN lines' : lines'[j] = lines[i]
         \/ loan.mode = "flat" /\ i = Len(lines) /\ TakesTheRest(lines[i], lines', i)
<1>1. lines \in Seq(Lines) /\ today \in Nat /\ AsAgreed
  BY DEF LoanInv, LoanTypeOK
<1>2. ls \in Seq(Lines) /\ InOrder(ls) /\ LinesCover(ls) /\ (loan.mode # "months" => NotNegative(ls))
  BY <1>1, SamePlanKeeps DEF LoanInv
<1>3. Computable(ls) /\ lines' = Computed(ls) /\ ~Open(ls[i]) /\ Len(ls) = Len(lines)
  BY DEF Recompute, SamePlan, Open
<1>4. /\ Computed(ls) \in Seq(Lines)
      /\ \/ \E j \in 1..Len(Computed(ls)) : Computed(ls)[j] = ls[i]
         \/ loan.mode = "flat" /\ i = Len(ls) /\ TakesTheRest(ls[i], Computed(ls), i)
  BY <1>1, <1>2, <1>3, ComputedLines
<1> QED BY <1>3, <1>4

\* PaidStays, about one line.
Stays(i) ==
    lines[i].state = "paid" =>
        \/ \E j \in DOMAIN lines' : lines'[j] = lines[i]
        \/ \E s \in {"unpaid", "approve"} : lines' = [lines EXCEPT ![i].state = s]
        \/ \E b \in Balloons : lines' = [lines EXCEPT ![i].balloon = b]
        \/ loan.mode = "flat" /\ i = Len(lines) /\ TakesTheRest(lines[i], lines', i)

\* No step changes an installment that is paid, but those of its own buttons.
LEMMA PaidStaysStep ==
  ASSUME LoanInv, [LoanNext]_loanVars, NEW i \in DOMAIN lines, lines[i].state = "paid"
  PROVE  Stays(i)
<1>1. lines \in Seq(Lines) /\ DOMAIN lines = 1..Len(lines)
  BY DEF LoanInv, LoanTypeOK
<1>2. ASSUME lines' = lines PROVE Stays(i)
  BY <1>2 DEF Stays
<1>3. CASE Compute
  <2>1. SamePlan(lines, lines)
    BY <1>1 DEF SamePlan
  <2>2. Recompute(lines) /\ i \in 1..Len(lines)
    BY <1>1, <1>3 DEF Compute
  <2>3. \/ \E j \in DOMAIN lines' : lines'[j] = lines[i]
        \/ loan.mode = "flat" /\ i = Len(lines) /\ TakesTheRest(lines[i], lines', i)
    BY <2>1, <2>2, PaidIsKept
  <2> QED BY <2>3 DEF Stays
<1>4. ASSUME NEW k \in DOMAIN lines, PayInstallment(k) PROVE Stays(i)
  <2> DEFINE paid == [lines EXCEPT ![k].state = "paid"]
  <2>1. SamePlan(lines, paid) /\ DOMAIN paid = DOMAIN lines
    BY <1>1, SamePlanStates
  <2>2. paid[i] = lines[i]
    <3>1. CASE i = k
      <4>1. lines[i] \in Lines
        BY <1>1
      <4>2. [lines[i] EXCEPT !.state = "paid"] = lines[i]
        BY <4>1 DEF Lines
      <4> QED BY <1>1, <3>1, <4>2
    <3>2. CASE i # k
      BY <1>1, <3>2
    <3> QED BY <3>1, <3>2
  <2>3. Recompute(paid) \/ lines' = paid
    BY <1>4 DEF PayInstallment
  <2> HIDE DEF paid
  <2>4. CASE Recompute(paid)
    <3>1. i \in 1..Len(lines)
      BY <1>1
    <3>2. \/ \E j \in DOMAIN lines' : lines'[j] = lines[i]
          \/ loan.mode = "flat" /\ i = Len(lines) /\ TakesTheRest(lines[i], lines', i)
      BY <2>1, <2>2, <2>4, <3>1, PaidIsKept
    <3> QED BY <3>2 DEF Stays
  <2>5. CASE lines' = paid
    BY <2>1, <2>2, <2>5 DEF Stays
  <2> QED BY <2>3, <2>4, <2>5
<1>5. ASSUME NEW k \in DOMAIN lines, NEW b \in Balloons, SetBalloon(k, b) PROVE Stays(i)
  <2>1. CASE k = i
    BY <1>5, <2>1 DEF SetBalloon, Stays
  <2>2. CASE k # i
    <3>1. DOMAIN lines' = DOMAIN lines /\ lines'[i] = lines[i]
      BY <1>1, <1>5, <2>2 DEF SetBalloon
    <3> QED BY <3>1 DEF Stays
  <2> QED BY <2>1, <2>2
<1>6. ASSUME NEW k \in DOMAIN lines, ApprovePayment(k) \/ ResetPayment(k) PROVE Stays(i)
  <2>1. CASE k = i
    BY <1>6, <2>1 DEF ApprovePayment, ResetPayment, Stays
  <2>2. CASE k # i
    <3>1. DOMAIN lines' = DOMAIN lines /\ lines'[i] = lines[i]
      BY <1>1, <1>6, <2>2 DEF ApprovePayment, ResetPayment
    <3> QED BY <3>1 DEF Stays
  <2> QED BY <2>1, <2>2
<1>7. CASE Apply \/ NextMonth \/ \E d \in Durations : ChangeDuration(d)
  BY <1>2, <1>7 DEF Apply, NextMonth, ChangeDuration
<1>8. CASE UNCHANGED loanVars
  BY <1>2, <1>8 DEF loanVars
<1> QED BY <1>3, <1>4, <1>5, <1>6, <1>7, <1>8 DEF LoanNext, PayslipDone


\* An installment that is paid is neither deleted nor changed by what is computed,
\* typed or paid for other lines; only its own buttons and balloon do that, and
\* check_total_amount with the principal of the last line of a flat loan.
THEOREM PaymentsStay == LoanSpec => PaidStays
<1>1. LoanInv /\ [LoanNext]_loanVars =>
         [\A i \in DOMAIN lines :
             lines[i].state = "paid" =>
                 \/ \E j \in DOMAIN lines' : lines'[j] = lines[i]
                 \/ \E s \in {"unpaid", "approve"} : lines' = [lines EXCEPT ![i].state = s]
                 \/ \E b \in Balloons : lines' = [lines EXCEPT ![i].balloon = b]
                 \/ /\ loan.mode = "flat" /\ i = Len(lines)
                    /\ lines'[i] = [lines[i] EXCEPT !.principal = loan.principal - Total(Front(lines'))]]_loanVars
  BY PaidStaysStep DEF Stays, TakesTheRest
<1> QED BY <1>1, LoanInvariance, PTL DEF LoanSpec, PaidStays
-----------------------------------------------------------------------------
(* All of them *)

\* Side by side every kind of record behaves as it does alone, whatever becomes of
\* the others: what is proved of each holds of all of them.
THEOREM RecordsAreIndependent ==
  Spec => /\ TravelSpec /\ RequestSpec /\ OfferSpec /\ LoanSpec /\ AppraisalSpec
          /\ AttendanceSpec /\ AbsenceSpec
<1>1. Init => /\ TravelInit /\ RequestInit /\ OfferInit /\ LoanInit /\ AppraisalInit
              /\ AttendanceInit /\ AbsenceInit
  BY DEF Init
<1> USE DEF Next, OthersNext, recordVars, others
<1>2. [Next]_recordVars => [TravelNext]_travelVars
  OBVIOUS
<1>3. [Next]_recordVars => [RequestNext]_docVars
  OBVIOUS
<1>4. [Next]_recordVars => [OfferNext]_offerVars
  OBVIOUS
<1>5. [Next]_recordVars => [LoanNext]_loanVars
  OBVIOUS
<1>6. [Next]_recordVars => [AppraisalNext]_appraisalVars
  OBVIOUS
<1>7. [Next]_recordVars => [AttendanceNext]_attendanceVars
  OBVIOUS
<1>8. [Next]_recordVars => [AbsenceNext]_absenceVars
  OBVIOUS
<1> QED BY <1>1, <1>2, <1>3, <1>4, <1>5, <1>6, <1>7, <1>8, PTL
        DEF Spec, TravelSpec, RequestSpec, OfferSpec, LoanSpec, AppraisalSpec, AttendanceSpec, AbsenceSpec

\* The records of every kind keep their types.
THEOREM RecordTypes == Spec => []RecordsTypeOK
<1>1. TravelTypeOK /\ DocumentTypeOK /\ OfferTypeOK /\ LoanTypeOK /\ AppraisalTypeOK
      /\ AttendanceTypeOK /\ AbsenceTypeOK => RecordsTypeOK
  BY DEF RecordsTypeOK
<1> QED BY <1>1, RecordsAreIndependent, TravelTypes, DocumentTypes, OfferTypes, LoanTypes, AppraisalTypes,
           AttendanceTypes, AbsenceTypes, PTL
=============================================================================
