---------------------------- MODULE PfLoanProofs ----------------------------
(***************************************************************************)
(* Theorems about PfLoan, for any number of applications, sessions and     *)
(* people and any designation of approvers.                                *)
(***************************************************************************)
EXTENDS PfLoan, TLAPS

\* Facts about the tables of stages, used instead of the tables themselves.
LEMMA StageFacts ==
    /\ Waiting \subseteq Stages
    /\ {"none", "draft", "returned", "approved", "rejected", "cancel"} \subseteq Stages
    /\ "draft" \in Waiting
    /\ \A q \in Waiting : Successor[q] \in (Waiting \ {q}) \cup {"approved"}
    /\ \A q \in Waiting : Predecessor[q] \in Waiting \cup {"returned"}
  BY DEF Waiting, Stages, Closed, Successor, Predecessor

\* A signature passes the level it signs and no other; a return passes none.
LEMMA RankFacts ==
    /\ \A r \in Waiting : ~(Rank[r] < Rank["draft"])
    /\ \A q, r \in Waiting :
          Successor[q] \in Waiting /\ Rank[r] < Rank[Successor[q]] =>
             r = q \/ Rank[r] < Rank[q]
    /\ \A q, r \in Waiting : Successor[q] = "approved" => r = q \/ Rank[r] < Rank[q]
    /\ \A q, r \in Waiting :
          Predecessor[q] \in Waiting /\ Rank[r] < Rank[Predecessor[q]] =>
             Rank[r] < Rank[q]
  BY DEF Waiting, Rank, Successor, Predecessor
-----------------------------------------------------------------------------
\* Types are kept by every step.
LEMMA TypeStep == TypeOK /\ [Next]_vars => TypeOK'
<1> SUFFICES ASSUME TypeOK, [Next]_vars
             PROVE  TypeOK'
  OBVIOUS
<1>1. CASE UNCHANGED vars
  BY <1>1 DEF TypeOK, vars
<1>2. ASSUME NEW s \in Sessions, FindNoActive(s) \/ Fail(s)
      PROVE  TypeOK'
  BY <1>2 DEF TypeOK, FindNoActive, Fail
<1>3. ASSUME NEW s \in Sessions, NEW a \in Applications,
             Insert(s, a) \/ OpenEdit(s, a) \/ CloseEdit(s, a) \/ Save(s, a)
      PROVE  TypeOK'
  BY <1>3, StageFacts DEF TypeOK, Insert, OpenEdit, CloseEdit, Save
<1>4. ASSUME NEW p \in People, NEW a \in Applications, NEW q \in Waiting,
             Approve(p, a, q)
      PROVE  TypeOK'
  BY <1>4, StageFacts DEF TypeOK, Approve
<1>5. ASSUME NEW a \in Applications, Return(a)
      PROVE  TypeOK'
  BY <1>5, StageFacts DEF TypeOK, Return, Stages
<1>6. ASSUME NEW a \in Applications, Reject(a) \/ Cancel(a)
      PROVE  TypeOK'
  BY <1>6, StageFacts DEF TypeOK, Reject, Cancel
<1> QED
  BY <1>1, <1>2, <1>3, <1>4, <1>5, <1>6 DEF Next

\* Every application has a stage of the selection, and only waiting stages are
\* signed, whatever the requests and their order.
THEOREM LoanTypeOK == Spec => []TypeOK
<1>1. Init => TypeOK
  BY DEF Init, TypeOK, Stages
<1> QED
  BY <1>1, TypeStep, PTL DEF Spec
-----------------------------------------------------------------------------
(* StageIsSigned for one application, so that a step that changes one        *)
(* application need not look at the others.                                  *)
SignedBelow(a) ==
    /\ state[a] = "approved" => \A r \in Waiting : SignedAt(a, r)
    /\ \A q, r \in Waiting : state[a] = q /\ Rank[r] < Rank[q] => SignedAt(a, r)

\* The property, application by application.
LEMMA SignedBelowAll == StageIsSigned <=> \A a \in Applications : SignedBelow(a)
  BY DEF StageIsSigned, SignedBelow

\* What no step has touched stays signed.
LEMMA SameSignatures ==
    ASSUME NEW b \in Applications, SignedBelow(b),
           state'[b] = state[b], signed'[b] = signed[b]
    PROVE  SignedBelow(b)'
  BY DEF SignedBelow, SignedAt, MaySign

\* Every step keeps the signatures below the stage.
LEMMA SignedStep == TypeOK /\ StageIsSigned /\ [Next]_vars => StageIsSigned'
<1> SUFFICES ASSUME TypeOK, StageIsSigned, [Next]_vars,
                    NEW b \in Applications
             PROVE  SignedBelow(b)'
  BY SignedBelowAll DEF StageIsSigned, SignedBelow
<1>0. SignedBelow(b)
  BY SignedBelowAll
<1>1. CASE UNCHANGED vars
  BY <1>0, <1>1, SameSignatures DEF vars
<1>2. ASSUME NEW s \in Sessions, FindNoActive(s) \/ Fail(s)
      PROVE  SignedBelow(b)'
  BY <1>0, <1>2, SameSignatures DEF FindNoActive, Fail
<1>3. ASSUME NEW s \in Sessions, NEW a \in Applications,
             OpenEdit(s, a) \/ CloseEdit(s, a)
      PROVE  SignedBelow(b)'
  BY <1>0, <1>3, SameSignatures DEF OpenEdit, CloseEdit
<1>4. ASSUME NEW s \in Sessions, NEW a \in Applications,
             Insert(s, a) \/ Save(s, a)
      PROVE  SignedBelow(b)'
  \* The application starts again at the first level, below which is none.
  <2>1. CASE a = b
    <3>1. state'[b] = "draft"
      BY <1>4, <2>1 DEF Insert, Save, TypeOK
    <3> QED
      BY <3>1, RankFacts DEF SignedBelow
  <2>2. CASE a # b
    BY <1>0, <1>4, <2>2, SameSignatures DEF Insert, Save, TypeOK
  <2> QED
    BY <2>1, <2>2
<1>5. ASSUME NEW p \in People, NEW a \in Applications, NEW q \in Waiting,
             Approve(p, a, q)
      PROVE  SignedBelow(b)'
  <2>1. CASE a = b
    <3>1. state[b] = q /\ state'[b] = Successor[q]
      BY <1>5, <2>1 DEF Approve, TypeOK
    <3>2. SignedAt(b, q)'
      BY <1>5, <2>1 DEF Approve, TypeOK, SignedAt, MaySign
    <3>3. ASSUME NEW r \in Waiting, Rank[r] < Rank[q]
          PROVE  SignedAt(b, r)'
      <4>1. SignedAt(b, r)
        BY <1>0, <3>1, <3>3 DEF SignedBelow
      <4> QED
        BY <1>5, <2>1, <4>1 DEF Approve, TypeOK, SignedAt, MaySign
    <3>4. ASSUME NEW r \in Waiting, state'[b] = "approved"
          PROVE  SignedAt(b, r)'
      BY <3>1, <3>2, <3>3, <3>4, RankFacts
    <3>5. ASSUME NEW w \in Waiting, NEW r \in Waiting,
                 state'[b] = w, Rank[r] < Rank[w]
          PROVE  SignedAt(b, r)'
      BY <3>1, <3>2, <3>3, <3>5, RankFacts
    <3> QED
      BY <3>4, <3>5 DEF SignedBelow
  <2>2. CASE a # b
    BY <1>0, <1>5, <2>2, SameSignatures DEF Approve, TypeOK
  <2> QED
    BY <2>1, <2>2
<1>6. ASSUME NEW a \in Applications, Return(a)
      PROVE  SignedBelow(b)'
  <2>1. CASE a = b
    <3>1. /\ state[b] \in Waiting
          /\ state'[b] = Predecessor[state[b]]
          /\ signed'[b] = signed[b]
      BY <1>6, <2>1 DEF Return, TypeOK
    <3>2. state'[b] # "approved"
      BY <3>1, StageFacts DEF Waiting
    <3>3. ASSUME NEW w \in Waiting, NEW r \in Waiting,
                 state'[b] = w, Rank[r] < Rank[w]
          PROVE  SignedAt(b, r)'
      <4>1. Rank[r] < Rank[state[b]]
        BY <3>1, <3>3, RankFacts
      <4>2. SignedAt(b, r)
        BY <1>0, <3>1, <4>1 DEF SignedBelow
      <4> QED
        BY <3>1, <4>2 DEF SignedAt, MaySign
    <3> QED
      BY <3>2, <3>3 DEF SignedBelow
  <2>2. CASE a # b
    BY <1>0, <1>6, <2>2, SameSignatures DEF Return, TypeOK
  <2> QED
    BY <2>1, <2>2
<1>7. ASSUME NEW a \in Applications, Reject(a) \/ Cancel(a)
      PROVE  SignedBelow(b)'
  <2>1. CASE a = b
    <3>1. state'[b] \in Closed
      BY <1>7, <2>1 DEF Reject, Cancel, TypeOK, Closed
    <3> QED
      BY <3>1 DEF SignedBelow, Closed, Waiting
  <2>2. CASE a # b
    BY <1>0, <1>7, <2>2, SameSignatures DEF Reject, Cancel, TypeOK
  <2> QED
    BY <2>1, <2>2
<1> QED
  BY <1>1, <1>2, <1>3, <1>4, <1>5, <1>6, <1>7 DEF Next

\* No level of the chain is skipped: what is approved carries the signatures of
\* all five levels, given after the employee last submitted it.
THEOREM EveryLevelSigned == Spec => []StageIsSigned
<1>1. Init => TypeOK /\ StageIsSigned
  BY DEF Init, TypeOK, Stages, StageIsSigned, Waiting
<1>2. TypeOK /\ StageIsSigned /\ [Next]_vars => (TypeOK /\ StageIsSigned)'
  BY TypeStep, SignedStep
<1> QED
  BY <1>1, <1>2, PTL DEF Spec
-----------------------------------------------------------------------------
\* A rejected or cancelled application leaves that state only by the save of an
\* edit form opened before: signatures and returns that come late change nothing.
THEOREM ClosedLeftBySave == Spec => ClosedIsLeftBySaveOnly
<1> DEFINE Left == \A a \in Applications :
                      state[a] \in Closed /\ state'[a] \notin Closed =>
                         \E s \in Sessions : <<s, a>> \in editing \ editing'
<1>1. ASSUME TypeOK, [Next]_vars
      PROVE  [Left]_vars
  <2> SUFFICES ASSUME NEW b \in Applications,
                      state[b] \in Closed, state'[b] \notin Closed
               PROVE  \E s \in Sessions : <<s, b>> \in editing \ editing'
    OBVIOUS
  <2>1. CASE UNCHANGED vars
    BY <2>1 DEF vars
  <2>2. ASSUME NEW s \in Sessions, FindNoActive(s) \/ Fail(s)
        PROVE  FALSE
    BY <2>2 DEF FindNoActive, Fail
  <2>3. ASSUME NEW s \in Sessions, NEW a \in Applications,
               Insert(s, a) \/ OpenEdit(s, a) \/ CloseEdit(s, a)
        PROVE  FALSE
    BY <1>1, <2>3 DEF TypeOK, Insert, OpenEdit, CloseEdit, Closed
  <2>4. ASSUME NEW s \in Sessions, NEW a \in Applications, Save(s, a)
        PROVE  <<s, b>> \in editing \ editing'
    BY <1>1, <2>4 DEF TypeOK, Save
  <2>5. ASSUME NEW p \in People, NEW a \in Applications, NEW q \in Waiting,
               Approve(p, a, q)
        PROVE  FALSE
    BY <1>1, <2>5 DEF TypeOK, Approve, Closed, Waiting
  <2>6. ASSUME NEW a \in Applications, Return(a)
        PROVE  FALSE
    BY <1>1, <2>6 DEF TypeOK, Return, Closed, Waiting
  <2>7. ASSUME NEW a \in Applications, Reject(a) \/ Cancel(a)
        PROVE  FALSE
    BY <1>1, <2>7 DEF TypeOK, Reject, Cancel, Closed
  <2> QED
    BY <1>1, <2>1, <2>2, <2>3, <2>4, <2>5, <2>6, <2>7 DEF Next
<1> QED
  BY <1>1, LoanTypeOK, PTL DEF Spec, ClosedIsLeftBySaveOnly
-----------------------------------------------------------------------------
(* One session at a time.  What is active is at most the application the     *)
(* session edits, and nothing while the session submits a new one.           *)
Alone ==
    /\ OneActiveApplication
    /\ posting # {} => editing = {} /\ \A a \in Applications : ~Active(a)
    /\ \A s, t \in Sessions, a, b \in Applications :
          <<s, a>> \in editing /\ <<t, b>> \in editing => a = b
    /\ \A s \in Sessions, a, b \in Applications :
          <<s, a>> \in editing /\ Active(b) => a = b

\* With one session, every step keeps the invariant.
LEMMA AloneStep ==
    ASSUME \A s, t \in Sessions : s = t, TypeOK, Alone, [Next]_vars
    PROVE  Alone'
<1>1. CASE UNCHANGED vars
  BY <1>1 DEF vars, Alone, OneActiveApplication, Active
<1>2. ASSUME NEW s \in Sessions, FindNoActive(s)
      PROVE  Alone'
  \* The only session was free, so no edit form is open.
  <2>1. editing = {} /\ editing' = {} /\ state' = state
    BY <1>2 DEF FindNoActive, Free, TypeOK
  <2> QED
    BY <1>2, <2>1 DEF FindNoActive, Alone, OneActiveApplication, Active
<1>3. ASSUME NEW s \in Sessions, Fail(s)
      PROVE  Alone'
  BY <1>3 DEF Fail, Alone, OneActiveApplication, Active
<1>4. ASSUME NEW s \in Sessions, NEW a \in Applications, Insert(s, a)
      PROVE  Alone'
  \* The only submission under way is over, and found nothing active.
  <2>1. posting' = {} /\ editing' = {}
    BY <1>4 DEF Insert, Alone, TypeOK
  <2>2. \A b \in Applications : Active(b)' => b = a
    BY <1>4 DEF Insert, Alone, TypeOK, Active
  <2> QED
    BY <2>1, <2>2 DEF Alone, OneActiveApplication
<1>5. ASSUME NEW s \in Sessions, NEW a \in Applications, OpenEdit(s, a)
      PROVE  Alone'
  <2>1. /\ editing = {} /\ editing' = {<<s, a>>}
        /\ posting = {} /\ posting' = {}
        /\ state' = state
    BY <1>5 DEF OpenEdit, Free, TypeOK
  <2>2. \A b \in Applications : Active(b) => b = a
    BY <1>5 DEF OpenEdit, Alone, OneActiveApplication, Active, ActiveStages
  <2> QED
    BY <2>1, <2>2 DEF Alone, OneActiveApplication, Active
<1>6. ASSUME NEW s \in Sessions, NEW a \in Applications, CloseEdit(s, a)
      PROVE  Alone'
  BY <1>6 DEF CloseEdit, Alone, OneActiveApplication, Active
<1>7. ASSUME NEW s \in Sessions, NEW a \in Applications, Save(s, a)
      PROVE  Alone'
  \* Whatever has become of a, no other application is active.
  <2>1. posting' = {}
    BY <1>7 DEF Save, Alone
  <2>2. \A b \in Applications : Active(b)' => b = a
    BY <1>7 DEF Save, Alone, TypeOK, Active
  <2>3. \A t \in Sessions, b \in Applications : <<t, b>> \in editing' => b = a
    BY <1>7 DEF Save, Alone
  <2> QED
    BY <2>1, <2>2, <2>3 DEF Alone, OneActiveApplication
<1>8. ASSUME NEW a \in Applications,
             \/ \E p \in People, q \in Waiting : Approve(p, a, q)
             \/ Return(a) \/ Reject(a) \/ Cancel(a)
      PROVE  Alone'
  <2>1. \A b \in Applications : Active(b)' => Active(b)
    BY <1>8 DEF TypeOK, Approve, Return, Reject, Cancel, Active, ActiveStages,
                Waiting, Successor, Predecessor
  <2>2. UNCHANGED <<posting, editing>>
    BY <1>8 DEF Approve, Return, Reject, Cancel
  <2> QED
    BY <2>1, <2>2 DEF Alone, OneActiveApplication
<1> QED
  BY <1>1, <1>2, <1>3, <1>4, <1>5, <1>6, <1>7, <1>8 DEF Next

\* An employee for whom one session submits, one thing at a time, never has two
\* active applications, however long that session keeps an edit form open and
\* whatever the approvers do meanwhile.
THEOREM OneSessionOneActive ==
    ASSUME \A s, t \in Sessions : s = t
    PROVE  Spec => []OneActiveApplication
<1>1. Init => TypeOK /\ Alone
  BY DEF Init, TypeOK, Stages, Alone, OneActiveApplication, Active, ActiveStages, Waiting
<1>2. TypeOK /\ Alone /\ [Next]_vars => (TypeOK /\ Alone)'
  BY TypeStep, AloneStep
<1>3. Alone => OneActiveApplication
  BY DEF Alone
<1> QED
  BY <1>1, <1>2, <1>3, PTL DEF Spec
=============================================================================
