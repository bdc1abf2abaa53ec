---------------------------- MODULE TravelProofs ----------------------------
(***************************************************************************)
(* An approved travel request is one that everyone asked has approved, a   *)
(* refused one has no leave, and a journey abroad is approved twice: for   *)
(* any number of approvers and any settings, whoever votes at the same     *)
(* time.  Who takes an approval back in an overlap is set aside.           *)
(*                                                                         *)
(* Why: a vote, a button and a portal page each commit what they read,     *)
(* merged with what was written since.  What a transaction read is related *)
(* to what is committed now (Behind): the rows nobody wrote are the same,  *)
(* the leave changes with the request's own row only, and while that row   *)
(* stays an approval stays too, or is set aside.                           *)
(***************************************************************************)
EXTENDS TravelRequest, TLAPS

\* What a request may be, and the rows a transaction may write.
RequestRows ==
    [status : {"none", "new", "pending", "approved", "refused"}, kind : Kinds,
     leave : {"none", "confirm", "validate", "refuse"},
     expense : {"none", "submitted", "hr_approved", "approved", "refused"},
     votes : [Approvers -> Votes]]
AllRows == {"request", "leave", "expense"} \cup Approvers

\* What every request looks like, committed or read by a running transaction:
\* who refused is followed by the leave, and so is an approval.
Sound(t) ==
    /\ t \in RequestRows
    /\ t.status = "refused" \/ (\E u \in Approvers : t.votes[u] = "refused") => t.leave \in {"none", "refuse"}
    /\ t.status = "approved" => t.leave \in {"none", "validate"}
    /\ t.status = "none" => t.leave = "none" /\ t.expense = "none" /\ \A u \in Approvers : t.votes[u] = "none"

\* An approval rests on the votes, up to those that wd took back in an overlap.
Backed(t, wd) ==
    /\ wd \subseteq Approvers /\ \A u \in wd : t.votes[u] = "refused"
    /\ t.status = "approved" =>
          /\ \A u \in Approvers \ wd : t.votes[u] \in {"none", "approved"}
          /\ \E u \in Approvers : t.votes[u] = "approved" \/ u \in wd

\* How the votes of a request move while its own row stays: an approval stays or
\* is taken back when there is no leave, and none but the second approver is
\* brought in.
Moved(o, t, wd, s) ==
    \A v \in Approvers :
        /\ o.votes[v] = "approved" => t.votes[v] = "approved" \/ (v \in wd /\ o.leave = "none")
        /\ o.votes[v] = "none" => t.votes[v] = "none" \/ (v = s.second /\ Awaits(o, s))

\* How the request t that is committed relates to the request o that a running
\* transaction read, when the rows m were written since.
Behind(o, t, m, wd, s) ==
    /\ \A r \in AllRows \ m : Row(o, r) = Row(t, r)
    /\ "request" \notin m => t.leave = o.leave /\ Moved(o, t, wd, s)
    /\ o.leave = "none" /\ t.leave # "none" => \A u \in Approvers : o.votes[u] # "none" => u \in m
    /\ t.leave \in {"confirm", "validate"} /\ t.leave # o.leave
          => \A u \in Approvers : o.votes[u] = "pending" => u \in m

\* The inductive invariant.
TravelInv ==
    /\ setting \in Settings /\ settings \in 0..MaxSettings /\ missed \subseteq AllRows
    /\ Sound(travel) /\ Backed(travel, withdrawn)
    /\ travel.status = "none" => missed = {}
    /\ slow = <<>> => missed = {}
    /\ slow # <<>> => Sound(slow[1]) /\ Behind(slow[1], travel, missed, withdrawn, setting)
-----------------------------------------------------------------------------
(* The operators *)

\* The status that is computed from the votes: refused as soon as one is, approved
\* when all who were asked have approved.
LEMMA StatusOfVotes ==
    ASSUME NEW votes \in [Approvers -> Votes]
    PROVE  /\ Status(votes) \in {"new", "pending", "approved", "refused"}
           /\ Status(votes) = "refused" <=> \E u \in Approvers : votes[u] = "refused"
           /\ Status(votes) = "approved"
                 <=> (\A u \in Approvers : votes[u] \in {"none", "approved"})
                     /\ \E u \in Approvers : votes[u] = "approved"
<1> DEFINE cast == {votes[u] : u \in Approvers} \ {"none"}
<1>1. cast \subseteq {"pending", "approved", "refused"}
  BY DEF Votes
<1>2. /\ "refused" \in cast <=> \E u \in Approvers : votes[u] = "refused"
      /\ "approved" \in cast <=> \E u \in Approvers : votes[u] = "approved"
      /\ "pending" \in cast <=> \E u \in Approvers : votes[u] = "pending"
  OBVIOUS
<1>3. cast = {"approved"} <=> "approved" \in cast /\ "pending" \notin cast /\ "refused" \notin cast
  BY <1>1
<1>4. Status(votes) = CASE cast = {} -> "new"
                        [] "refused" \in cast -> "refused"
                        [] cast = {"approved"} -> "approved"
                        [] OTHER -> "pending"
  BY DEF Status
<1>5. cast = {} => "refused" \notin cast /\ cast # {"approved"}
  OBVIOUS
<1>6. \A u \in Approvers : votes[u] \in {"none", "pending", "approved", "refused"}
  BY DEF Votes
<1> HIDE DEF cast
<1>7. /\ Status(votes) \in {"new", "pending", "approved", "refused"}
      /\ Status(votes) = "refused" <=> "refused" \in cast
      /\ Status(votes) = "approved" <=> cast = {"approved"}
  BY <1>3, <1>4, <1>5
<1> QED BY <1>2, <1>3, <1>6, <1>7

\* What the votes of a request become, row by row.
LEMMA Rows ==
    /\ \A t : Row(t, "request") = <<t.status, t.kind>>
    /\ \A t : Row(t, "leave") = t.leave
    /\ \A t : Row(t, "expense") = t.expense
    /\ \A t, u : u \in Approvers => Row(t, u) = t.votes[u] /\ u \notin {"request", "leave", "expense"}
BY TravelAssumption DEF Row

\* A transaction writes the rows in which what it leaves differs from what it read.
LEMMA WrittenRows ==
    ASSUME NEW o \in RequestRows, NEW new \in RequestRows
    PROVE  /\ Written(o, new) \subseteq AllRows
           /\ "request" \in Written(o, new) <=> o.status # new.status \/ o.kind # new.kind
           /\ "leave" \in Written(o, new) <=> o.leave # new.leave
           /\ "expense" \in Written(o, new) <=> o.expense # new.expense
           /\ \A u \in Approvers : u \in Written(o, new) <=> o.votes[u] # new.votes[u]
BY Rows DEF Written, AllRows

\* The rows of a transaction that overlaps with none replace those it read.
LEMMA MergedAlone ==
    ASSUME travel \in RequestRows, NEW new \in RequestRows, NEW w, Written(travel, new) \subseteq w
    PROVE  Merged(new, w) = new
<1>1. /\ Merged(new, w).status = new.status /\ Merged(new, w).kind = new.kind
      /\ Merged(new, w).leave = new.leave /\ Merged(new, w).expense = new.expense
  BY WrittenRows DEF Merged
<1>2. Merged(new, w).votes = new.votes
  <2>1. \A u \in Approvers : (IF u \in w THEN new.votes[u] ELSE travel.votes[u]) = new.votes[u]
    BY WrittenRows
  <2>2. Merged(new, w).votes = [u \in Approvers |-> IF u \in w THEN new.votes[u] ELSE travel.votes[u]]
    BY DEF Merged
  <2> QED BY <2>1, <2>2 DEF RequestRows
<1>3. Merged(new, w) = [status |-> Merged(new, w).status, kind |-> Merged(new, w).kind, leave |-> Merged(new, w).leave,
                        expense |-> Merged(new, w).expense, votes |-> Merged(new, w).votes]
  BY DEF Merged
<1>4. new = [status |-> new.status, kind |-> new.kind, leave |-> new.leave, expense |-> new.expense, votes |-> new.votes]
  BY DEF RequestRows
<1> QED BY <1>1, <1>2, <1>3, <1>4

\* What is committed is a request again.
LEMMA MergedTyped ==
    ASSUME travel \in RequestRows, NEW new \in RequestRows, NEW w
    PROVE  Merged(new, w) \in RequestRows
<1>1. [u \in Approvers |-> IF u \in w THEN new.votes[u] ELSE travel.votes[u]] \in [Approvers -> Votes]
  BY DEF RequestRows
<1> QED BY <1>1 DEF Merged, RequestRows
-----------------------------------------------------------------------------
(* What a transaction that read o may leave *)

Billed(o, new, replaced) ==
    /\ o.status # "none" /\ replaced = {}
    /\ \E e \in {"submitted", "hr_approved", "approved", "refused"} : new = [o EXCEPT !.expense = e]

Resubmitted(o, new, replaced) ==
    /\ new \in RequestRows /\ replaced \subseteq AllRows
    /\ o.status # "none" => {"request"} \cup Approvers \subseteq replaced
    /\ new.status \in {"new", "pending"} /\ \A u \in Approvers : new.votes[u] \in {"none", "pending"}
    /\ new.expense = o.expense /\ new.leave \in {o.leave, "confirm"}

Rekinded(o, new, replaced) ==
    o.status = "refused" /\ replaced = {} /\ \E kind \in Kinds : new = [o EXCEPT !.kind = kind]

\* The second approver is brought in, ...
BroughtIn(o, new, u, s) ==
    /\ Awaits(o, s)
    /\ new = [o EXCEPT !.votes = [@ EXCEPT ![u] = "approved", ![s.second] = "pending"], !.status = "pending"]
\* ... the request is approved by u, ...
GrantedRequest(o, new, u, s) == ~Awaits(o, s) /\ new = Grant(o, u)
\* ... or refused.
RefusedBy(o, new, u) == new = Refuse(o, u).travel

\* What a vote for the request leaves.
LEMMA GrantedTo ==
    ASSUME NEW o \in RequestRows, NEW u \in Approvers
    PROVE  /\ Grant(o, u) \in RequestRows
           /\ Grant(o, u).votes = [o.votes EXCEPT ![u] = "approved"]
           /\ Grant(o, u).status = Status([o.votes EXCEPT ![u] = "approved"])
           /\ Grant(o, u).kind = o.kind /\ Grant(o, u).expense = o.expense
           /\ Grant(o, u).leave = IF Grant(o, u).status = "approved" /\ o.leave # "none" THEN "validate" ELSE o.leave
<1> DEFINE votes == [o.votes EXCEPT ![u] = "approved"]
           granted == [o EXCEPT !.votes = votes, !.status = Status(votes)]
<1>1. votes \in [Approvers -> Votes]
  BY DEF RequestRows, Votes
<1>2. Status(votes) \in {"new", "pending", "approved", "refused"}
  BY <1>1, StatusOfVotes
<1> HIDE DEF votes
<1>3. granted \in RequestRows /\ granted.votes = votes /\ granted.status = Status(votes)
      /\ granted.kind = o.kind /\ granted.leave = o.leave /\ granted.expense = o.expense
  BY <1>1, <1>2 DEF RequestRows
<1>4. Grant(o, u) = IF granted.status = "approved" /\ o.leave # "none" THEN [granted EXCEPT !.leave = "validate"] ELSE granted
  BY DEF Grant, Voted, votes
<1> HIDE DEF granted
<1>5. /\ Grant(o, u) \in RequestRows
      /\ Grant(o, u).votes = votes /\ Grant(o, u).status = Status(votes)
      /\ Grant(o, u).kind = o.kind /\ Grant(o, u).expense = o.expense
      /\ Grant(o, u).leave = IF Grant(o, u).status = "approved" /\ o.leave # "none" THEN "validate" ELSE o.leave
  BY <1>3, <1>4 DEF RequestRows
<1> QED BY <1>5 DEF votes

\* What a vote against it leaves.
LEMMA RefusedTo ==
    ASSUME NEW o \in RequestRows, NEW u \in Approvers
    PROVE  /\ Refuse(o, u).travel \in RequestRows
           /\ Refuse(o, u).travel.votes = [o.votes EXCEPT ![u] = "refused"]
           /\ Refuse(o, u).travel.status = "refused"
           /\ Refuse(o, u).travel.kind = o.kind /\ Refuse(o, u).travel.expense = o.expense
           /\ Refuse(o, u).travel.leave = IF o.leave = "none" THEN "none" ELSE "refuse"
<1> DEFINE votes == [o.votes EXCEPT ![u] = "refused"]
           refused == [o EXCEPT !.votes = votes, !.status = Status(votes)]
<1>1. votes \in [Approvers -> Votes] /\ votes[u] = "refused"
  BY DEF RequestRows, Votes
<1>2. Status(votes) = "refused"
  BY <1>1, StatusOfVotes
<1> HIDE DEF votes
<1>3. refused \in RequestRows /\ refused.votes = votes /\ refused.status = "refused"
      /\ refused.kind = o.kind /\ refused.leave = o.leave /\ refused.expense = o.expense
  BY <1>1, <1>2 DEF RequestRows
<1>4. Refuse(o, u).travel = IF o.leave \in {"none", "refuse"} THEN refused ELSE [refused EXCEPT !.leave = "refuse"]
  BY DEF Refuse, Voted, votes, Done, Raised
<1> HIDE DEF refused
<1>5. /\ Refuse(o, u).travel \in RequestRows
      /\ Refuse(o, u).travel.votes = votes /\ Refuse(o, u).travel.status = "refused"
      /\ Refuse(o, u).travel.kind = o.kind /\ Refuse(o, u).travel.expense = o.expense
      /\ Refuse(o, u).travel.leave = IF o.leave = "none" THEN "none" ELSE "refuse"
  BY <1>3, <1>4 DEF RequestRows
<1> QED BY <1>5 DEF votes

\* What the last vote leaves when the second approver has yet to be asked.
LEMMA BroughtInTo ==
    ASSUME NEW o \in RequestRows, NEW u \in Approvers, NEW s \in Settings, NEW new, BroughtIn(o, new, u, s)
    PROVE  /\ s.second \in Approvers /\ o.votes[s.second] = "none" /\ o.kind = "international"
           /\ new \in RequestRows
           /\ new.votes = [[o.votes EXCEPT ![u] = "approved"] EXCEPT ![s.second] = "pending"]
           /\ new.status = "pending" /\ new.kind = o.kind /\ new.expense = o.expense /\ new.leave = o.leave
<1>1. s.second \in Approvers /\ o.votes[s.second] = "none" /\ o.kind = "international"
  BY TravelAssumption DEF BroughtIn, Awaits
<1> DEFINE votes == [[o.votes EXCEPT ![u] = "approved"] EXCEPT ![s.second] = "pending"]
<1>2. votes \in [Approvers -> Votes]
  BY <1>1 DEF RequestRows, Votes
<1>3. new = [o EXCEPT !.votes = votes, !.status = "pending"]
  BY DEF BroughtIn
<1> HIDE DEF votes
<1>4. new \in RequestRows /\ new.votes = votes
      /\ new.status = "pending" /\ new.kind = o.kind /\ new.expense = o.expense /\ new.leave = o.leave
  BY <1>2, <1>3 DEF RequestRows
<1> QED BY <1>1, <1>4 DEF votes
-----------------------------------------------------------------------------
(* What is committed is sound *)

\* Who took an approval back in an overlap, once the rows w are written.
Aside(o, new, w) == (withdrawn \ w) \cup TakenBack(o, new)

\* A transaction that read o writes the rows w, none of which was written since.
Commits(o, new, w, m, s) ==
    /\ Sound(o) /\ Sound(travel) /\ Backed(travel, withdrawn) /\ Behind(o, travel, m, withdrawn, s)
    /\ (travel.status = "none" => m = {}) /\ (m # {} => slow # <<>>)
    /\ new \in RequestRows /\ Written(o, new) \subseteq w /\ w \subseteq AllRows /\ w \cap m = {}

\* A journey abroad that x approves has the second approver's agreement, or he
\* took it back in an overlap.
Agreed(x, wd, s) ==
    x.status = "approved" /\ travel.status # "approved" /\ x.kind = "international" /\ s.second # NoUser
        => x.votes[s.second] = "approved" \/ s.second \in wd

\* What a commit has to leave.
StillSo(x, wd, s) == Sound(x) /\ Backed(x, wd) /\ Agreed(x, wd, s)

\* Rows that nobody wrote since are as they were read.
LEMMA Unmissed ==
    ASSUME NEW o, NEW new, NEW w, NEW m, NEW s, Commits(o, new, w, m, s)
    PROVE  /\ "request" \notin m => travel.status = o.status /\ travel.kind = o.kind
           /\ "leave" \notin m => travel.leave = o.leave
           /\ \A u \in Approvers : u \notin m => travel.votes[u] = o.votes[u]
           /\ travel.status = "none" => o.status = "none" /\ m = {}
           /\ \A r \in w : r \notin m
<1>1. \A r \in AllRows \ m : Row(o, r) = Row(travel, r)
  BY DEF Commits, Behind
<1>2. "request" \notin m => travel.status = o.status /\ travel.kind = o.kind
  BY <1>1, Rows DEF AllRows
<1>3. "leave" \notin m => travel.leave = o.leave
  BY <1>1, Rows DEF AllRows
<1>4. \A u \in Approvers : u \notin m => travel.votes[u] = o.votes[u]
  BY <1>1, Rows DEF AllRows
<1>5. travel.status = "none" => o.status = "none" /\ m = {}
  BY <1>2 DEF Commits
<1> QED BY <1>2, <1>3, <1>4, <1>5 DEF Commits

\* What is committed, field by field.
LEMMA MergedFields ==
    ASSUME NEW new, NEW w
    PROVE  /\ Merged(new, w).status = IF "request" \in w THEN new.status ELSE travel.status
           /\ Merged(new, w).kind = IF "request" \in w THEN new.kind ELSE travel.kind
           /\ Merged(new, w).leave = IF "leave" \in w THEN new.leave ELSE travel.leave
           /\ Merged(new, w).expense = IF "expense" \in w THEN new.expense ELSE travel.expense
           /\ \A u \in Approvers : Merged(new, w).votes[u] = IF u \in w THEN new.votes[u] ELSE travel.votes[u]
BY DEF Merged

\* Who is set aside has refused.
LEMMA AsideRefused ==
    ASSUME NEW o, NEW new, NEW w, NEW m, NEW s, Commits(o, new, w, m, s)
    PROVE  /\ Aside(o, new, w) \subseteq Approvers
           /\ \A u \in Aside(o, new, w) : Merged(new, w).votes[u] = "refused"
           /\ \A u \in withdrawn : u \notin w => u \in Aside(o, new, w)
           /\ \A u \in TakenBack(o, new) : u \in Aside(o, new, w)
<1>1. o \in RequestRows /\ new \in RequestRows /\ withdrawn \subseteq Approvers
      /\ \A u \in withdrawn : travel.votes[u] = "refused"
  BY DEF Commits, Sound, Backed
<1>2. \A u \in TakenBack(o, new) : u \in Approvers /\ u \in Written(o, new) /\ new.votes[u] = "refused"
  BY <1>1, WrittenRows DEF TakenBack
<1>3. \A u \in withdrawn \ w : Merged(new, w).votes[u] = "refused"
  BY <1>1, MergedFields
<1>4. \A u \in TakenBack(o, new) : Merged(new, w).votes[u] = "refused"
  BY <1>2, MergedFields DEF Commits
<1> QED BY <1>1, <1>2, <1>3, <1>4 DEF Aside

\* An approved request stays backed when the votes that change become approvals
\* or are set aside.
LEMMA StaysBacked ==
    ASSUME NEW o, NEW new, NEW w, NEW m, NEW s, Commits(o, new, w, m, s),
           travel.status = "approved" \/ Merged(new, w).status # "approved",
           \A u \in Approvers : \/ Merged(new, w).votes[u] = travel.votes[u] /\ u \notin w
                                \/ Merged(new, w).votes[u] = "approved"
                                \/ u \in Aside(o, new, w)
    PROVE  Backed(Merged(new, w), Aside(o, new, w))
<1> DEFINE x == Merged(new, w)
           wd == Aside(o, new, w)
<1>1. wd \subseteq Approvers /\ (\A u \in wd : x.votes[u] = "refused") /\ \A u \in withdrawn : u \notin w => u \in wd
  BY AsideRefused
<1>2. /\ withdrawn \subseteq Approvers
      /\ travel.status = "approved" =>
            /\ \A u \in Approvers \ withdrawn : travel.votes[u] \in {"none", "approved"}
            /\ \E u \in Approvers : travel.votes[u] = "approved" \/ u \in withdrawn
  BY DEF Commits, Backed
<1>3. \A u \in Approvers : \/ x.votes[u] = travel.votes[u] /\ u \notin w
                           \/ x.votes[u] = "approved"
                           \/ u \in wd
  OBVIOUS
<1>4. travel.status = "approved" \/ x.status # "approved"
  OBVIOUS
<1> HIDE DEF x, wd
<1>5. ASSUME x.status = "approved"
      PROVE  /\ \A u \in Approvers \ wd : x.votes[u] \in {"none", "approved"}
             /\ \E u \in Approvers : x.votes[u] = "approved" \/ u \in wd
  <2>1. ASSUME NEW u \in Approvers \ wd
        PROVE  x.votes[u] \in {"none", "approved"}
    <3>1. CASE x.votes[u] = travel.votes[u] /\ u \notin w
      <4>1. u \notin withdrawn
        BY <1>1, <3>1
      <4> QED BY <1>2, <1>4, <1>5, <3>1, <4>1
    <3> QED BY <1>3, <3>1
  <2>2. PICK u \in Approvers : travel.votes[u] = "approved" \/ u \in withdrawn
    BY <1>2, <1>4, <1>5
  <2>3. x.votes[u] = "approved" \/ u \in wd
    BY <1>1, <1>3, <2>2
  <2> QED BY <2>1, <2>3
<1>6. Backed(x, wd)
  BY <1>1, <1>5 DEF Backed
<1> QED BY <1>6 DEF x, wd

\* A commit that leaves the status and the votes alone.
LEMMA VotesAlone ==
    ASSUME NEW o, NEW new, NEW w, NEW m, NEW s, Commits(o, new, w, m, s),
           Merged(new, w).status = travel.status, Merged(new, w).leave = travel.leave,
           travel.status = "none" => Merged(new, w).expense = "none",
           \A u \in Approvers : u \notin w
    PROVE  StillSo(Merged(new, w), Aside(o, new, w), s)
<1> DEFINE x == Merged(new, w)
<1>1. \A u \in Approvers : x.votes[u] = travel.votes[u]
  <2>1. x.votes = [u \in Approvers |-> IF u \in w THEN new.votes[u] ELSE travel.votes[u]]
    BY DEF Merged
  <2> HIDE DEF x
  <2> QED BY <2>1
<1>2. x \in RequestRows
  BY MergedTyped DEF Commits, Sound
<1>3. Backed(x, Aside(o, new, w))
  BY <1>1, StaysBacked
<1>4. x.status = travel.status /\ x.leave = travel.leave /\ (travel.status = "none" => x.expense = "none")
  OBVIOUS
<1> HIDE DEF x
<1>5. Sound(x)
  BY <1>1, <1>2, <1>4 DEF Sound, Commits
<1>6. StillSo(x, Aside(o, new, w), s)
  BY <1>3, <1>4, <1>5 DEF StillSo, Agreed
<1> QED BY <1>6 DEF x

\* A commit about the expense leaves a sound request.
LEMMA BilledSound ==
    ASSUME NEW o, NEW new, NEW m, NEW s, Commits(o, new, Written(o, new), m, s), Billed(o, new, {})
    PROVE  StillSo(Merged(new, Written(o, new)), Aside(o, new, Written(o, new)), s)
<1>1. o \in RequestRows /\ new \in RequestRows
  BY DEF Commits, Sound
<1>2. new.status = o.status /\ new.kind = o.kind /\ new.leave = o.leave /\ new.votes = o.votes
  BY <1>1 DEF Billed, RequestRows
<1>3. "request" \notin Written(o, new) /\ "leave" \notin Written(o, new) /\ \A u \in Approvers : u \notin Written(o, new)
  BY <1>1, <1>2, WrittenRows
<1>4. travel.status # "none"
  BY Unmissed DEF Billed
<1>5. Merged(new, Written(o, new)).status = travel.status /\ Merged(new, Written(o, new)).leave = travel.leave
  BY <1>3, MergedFields
<1> QED BY <1>3, <1>4, <1>5, VotesAlone

\* So does one that changes the kind of a refused request.
LEMMA RekindedSound ==
    ASSUME NEW o, NEW new, NEW m, NEW s, Commits(o, new, Written(o, new), m, s), Rekinded(o, new, {})
    PROVE  StillSo(Merged(new, Written(o, new)), Aside(o, new, Written(o, new)), s)
<1> DEFINE w == Written(o, new)
<1>1. o \in RequestRows /\ new \in RequestRows
  BY DEF Commits, Sound
<1>2. new.status = o.status /\ new.leave = o.leave /\ new.expense = o.expense /\ new.votes = o.votes /\ o.status = "refused"
  BY <1>1 DEF Rekinded, RequestRows
<1>3. "leave" \notin w /\ "expense" \notin w /\ \A u \in Approvers : u \notin w
  BY <1>1, <1>2, WrittenRows
<1>4. "request" \in w => travel.status = o.status
  BY Unmissed
<1>5. travel.status # "none"
  BY <1>2, Unmissed
<1>6. Merged(new, w).status = travel.status /\ Merged(new, w).leave = travel.leave
  BY <1>2, <1>3, <1>4, MergedFields
<1> QED BY <1>3, <1>5, <1>6, VotesAlone

\* So does one that submits it again: it replaces the votes.
LEMMA ResubmittedSound ==
    ASSUME NEW o, NEW new, NEW replaced, NEW m, NEW s,
           Commits(o, new, Written(o, new) \cup replaced, m, s), Resubmitted(o, new, replaced)
    PROVE  StillSo(Merged(new, Written(o, new) \cup replaced), Aside(o, new, Written(o, new) \cup replaced), s)
<1> DEFINE w == Written(o, new) \cup replaced
           x == Merged(new, w)
           wd == Aside(o, new, w)
<1>1. o \in RequestRows /\ new \in RequestRows /\ travel \in RequestRows
  BY DEF Commits, Sound
<1>2. "request" \in w
  <2>1. CASE o.status = "none"
    BY <1>1, <2>1, WrittenRows DEF Resubmitted
  <2>2. CASE o.status # "none"
    BY <2>2 DEF Resubmitted
  <2> QED BY <2>1, <2>2
<1>3. x.status \in {"new", "pending"}
  BY <1>2, MergedFields DEF Resubmitted
<1>4. \A u \in Approvers : x.votes[u] \in {"none", "pending"}
  <2>1. CASE o.status # "none"
    <3>1. \A u \in Approvers : u \in w
      BY <2>1 DEF Resubmitted
    <3>2. \A u \in Approvers : x.votes[u] = new.votes[u]
      BY <3>1, MergedFields
    <3> QED BY <3>2 DEF Resubmitted
  <2>2. CASE o.status = "none"
    <3>1. "request" \notin m
      BY <1>2, Unmissed
    <3>2. travel.status = "none"
      BY <2>2, <3>1, Unmissed
    <3>3. \A u \in Approvers : travel.votes[u] = "none"
      BY <3>2 DEF Commits, Sound
    <3>4. \A u \in Approvers : x.votes[u] \in {new.votes[u], travel.votes[u]}
      BY MergedFields
    <3> QED BY <3>3, <3>4 DEF Resubmitted
  <2> QED BY <2>1, <2>2
<1>5. x \in RequestRows
  BY <1>1, MergedTyped
<1>6. wd \subseteq Approvers /\ \A u \in wd : x.votes[u] = "refused"
  BY AsideRefused
<1> HIDE DEF x, wd
<1>7. Sound(x) /\ Backed(x, wd)
  BY <1>3, <1>4, <1>5, <1>6 DEF Sound, Backed
<1>8. StillSo(x, wd, s)
  BY <1>3, <1>7 DEF StillSo, Agreed
<1> QED BY <1>8 DEF x, wd

\* A commit that brings in the second approver does: somebody is still asked, and
\* nothing was refused in between.
LEMMA BroughtInSound ==
    ASSUME NEW o, NEW new, NEW m, NEW s \in Settings, Commits(o, new, Written(o, new), m, s),
           NEW u \in Approvers, o.votes[u] = "pending", BroughtIn(o, new, u, s)
    PROVE  StillSo(Merged(new, Written(o, new)), Aside(o, new, Written(o, new)), s)
<1> DEFINE w == Written(o, new)
           x == Merged(new, w)
           wd == Aside(o, new, w)
<1>1. o \in RequestRows /\ new \in RequestRows /\ travel \in RequestRows
  BY DEF Commits, Sound
<1>2. /\ s.second \in Approvers /\ o.votes[s.second] = "none"
      /\ new.votes = [[o.votes EXCEPT ![u] = "approved"] EXCEPT ![s.second] = "pending"]
      /\ new.status = "pending" /\ new.kind = o.kind /\ new.leave = o.leave
  BY <1>1, BroughtInTo
<1>3. u # s.second
  BY <1>2
<1>4. /\ new.votes[u] = "approved" /\ new.votes[s.second] = "pending"
      /\ \A v \in Approvers \ {u, s.second} : new.votes[v] = o.votes[v]
  BY <1>1, <1>2, <1>3 DEF RequestRows
<1>5. u \in w
  BY <1>1, <1>4, WrittenRows
<1>6. travel.votes[u] = "pending" /\ o.status # "none" /\ travel.status # "none" /\ travel.status # "approved"
  <2>1. travel.votes[u] = "pending"
    BY <1>5, Unmissed
  <2>2. o.status # "none" /\ travel.status # "none"
    BY <2>1 DEF Commits, Sound
  <2>3. u \notin withdrawn
    BY <2>1 DEF Commits, Backed
  <2>4. travel.status # "approved"
    BY <2>1, <2>3 DEF Commits, Backed
  <2> QED BY <2>1, <2>2, <2>4
<1>7. x.status \notin {"none", "approved"} /\ (x.status = "refused" => travel.status = "refused")
  BY <1>2, <1>6, MergedFields
<1>8. x.leave = travel.leave
  BY <1>1, <1>2, WrittenRows, MergedFields
<1>9. ASSUME NEW v \in Approvers, x.votes[v] = "refused"
      PROVE  travel.votes[v] = "refused"
  <2>1. x.votes[v] = IF v \in w THEN new.votes[v] ELSE travel.votes[v]
    BY MergedFields
  <2>2. CASE v \notin w
    BY <1>9, <2>1, <2>2
  <2>3. CASE v \in w
    <3>1. new.votes[v] = "refused" /\ new.votes[v] # o.votes[v]
      BY <1>1, <1>9, <2>1, <2>3, WrittenRows
    <3> QED BY <1>4, <3>1
  <2> QED BY <2>2, <2>3
<1>10. x \in RequestRows
  BY <1>1, MergedTyped
<1>11. wd \subseteq Approvers /\ \A v \in wd : x.votes[v] = "refused"
  BY AsideRefused
<1> HIDE DEF x, wd
<1>12. Sound(x)
  BY <1>7, <1>8, <1>9, <1>10 DEF Sound, Commits
<1>13. Backed(x, wd)
  BY <1>7, <1>11 DEF Backed
<1>14. StillSo(x, wd, s)
  BY <1>7, <1>12, <1>13 DEF StillSo, Agreed
<1> QED BY <1>14 DEF x, wd

\* A commit that approves does: if the status becomes that of an approved request,
\* the others had approved when it was read, and who took it back since is set
\* aside.
LEMMA GrantedSound ==
    ASSUME NEW o, NEW new, NEW m, NEW s \in Settings, Commits(o, new, Written(o, new), m, s),
           NEW u \in Approvers, o.votes[u] # "none", GrantedRequest(o, new, u, s)
    PROVE  StillSo(Merged(new, Written(o, new)), Aside(o, new, Written(o, new)), s)
<1> DEFINE w == Written(o, new)
           x == Merged(new, w)
           wd == Aside(o, new, w)
<1>1. o \in RequestRows /\ new \in RequestRows /\ travel \in RequestRows
  BY DEF Commits, Sound
<1>2. /\ new.votes = [o.votes EXCEPT ![u] = "approved"] /\ new.status = Status(new.votes)
      /\ new.kind = o.kind
      /\ new.leave = IF new.status = "approved" /\ o.leave # "none" THEN "validate" ELSE o.leave
  BY <1>1, GrantedTo DEF GrantedRequest
<1>3. new.votes[u] = "approved" /\ \A v \in Approvers \ {u} : new.votes[v] = o.votes[v]
  BY <1>1, <1>2 DEF RequestRows
<1>4. o.status # "none" /\ travel.status # "none"
  <2>1. o.status # "none"
    BY DEF Commits, Sound
  <2> QED BY <2>1, Unmissed
<1>5. x \in RequestRows
  BY <1>1, MergedTyped
<1>6. /\ x.votes[u] = "approved" \/ (u \notin w /\ x.votes[u] = travel.votes[u] /\ o.votes[u] = "approved")
      /\ \A v \in Approvers \ {u} : v \notin w /\ x.votes[v] = travel.votes[v]
  <2>1. \A v \in Approvers \ {u} : v \notin w
    BY <1>1, <1>3, WrittenRows
  <2>2. u \notin w => o.votes[u] = "approved"
    BY <1>1, <1>3, WrittenRows
  <2> QED BY <1>3, <2>1, <2>2, MergedFields
<1>7. /\ new.status \in {"new", "pending", "approved", "refused"}
      /\ new.status = "refused" <=> \E v \in Approvers : new.votes[v] = "refused"
      /\ new.status = "approved" <=> (\A v \in Approvers : new.votes[v] \in {"none", "approved"})
                                        /\ \E v \in Approvers : new.votes[v] = "approved"
  BY <1>1, <1>2, StatusOfVotes DEF RequestRows
<1>8. wd \subseteq Approvers /\ (\A v \in wd : x.votes[v] = "refused") /\ \A v \in withdrawn : v \notin w => v \in wd
  BY AsideRefused
<1>9. \A v \in Approvers : x.votes[v] = "refused" => travel.votes[v] = "refused"
  BY <1>6
<1>10. CASE "request" \notin w
  <2>1. x.status = travel.status /\ new.status = o.status
    BY <1>1, <1>10, MergedFields, WrittenRows
  <2>2. "leave" \notin w
    <3>1. new.status = "approved" => o.leave \in {"none", "validate"}
      BY <2>1 DEF Commits, Sound
    <3>2. new.leave = o.leave
      BY <1>2, <3>1
    <3> QED BY <1>1, <3>2, WrittenRows
  <2>3. x.leave = travel.leave
    BY <2>2, MergedFields
  <2>4. Backed(x, wd)
    BY <1>6, <2>1, StaysBacked
  <2> HIDE DEF x, wd
  <2>5. Sound(x)
    BY <1>4, <1>5, <1>9, <2>1, <2>3 DEF Sound, Commits
  <2>6. StillSo(x, wd, s)
    BY <2>1, <2>4, <2>5 DEF StillSo, Agreed
  <2> QED BY <2>6 DEF x, wd
<1>11. CASE "request" \in w
  <2>1. "request" \notin m /\ travel.status = o.status /\ travel.kind = o.kind
    BY <1>11, Unmissed
  <2>2. travel.leave = o.leave /\ Moved(o, travel, withdrawn, s)
    BY <2>1 DEF Commits, Behind
  <2>3. x.status = new.status /\ x.kind = o.kind
    BY <1>2, <1>11, MergedFields
  <2>4. x.leave = new.leave
    <3>1. "leave" \notin w => new.leave = o.leave
      BY <1>1, WrittenRows
    <3> QED BY <2>2, <3>1, MergedFields
  <2>5. CASE new.status # "approved"
    <3>1. x.leave = travel.leave /\ x.leave = o.leave
      BY <1>2, <2>2, <2>4, <2>5
    <3>2. new.status = "refused" => x.leave \in {"none", "refuse"}
      <4> SUFFICES ASSUME new.status = "refused" PROVE x.leave \in {"none", "refuse"}
        OBVIOUS
      <4>1. PICK v \in Approvers : new.votes[v] = "refused"
        BY <1>7
      <4>2. o.votes[v] = "refused"
        BY <1>3, <4>1
      <4> QED BY <3>1, <4>2 DEF Commits, Sound
    <3> HIDE DEF x, wd
    <3>3. Sound(x)
      BY <1>5, <1>7, <1>9, <2>3, <2>5, <3>1, <3>2 DEF Sound, Commits
    <3>4. Backed(x, wd)
      BY <1>8, <2>3, <2>5 DEF Backed
    <3>5. StillSo(x, wd, s)
      BY <2>3, <2>5, <3>3, <3>4 DEF StillSo, Agreed
    <3> QED BY <3>5 DEF x, wd
  <2>6. CASE new.status = "approved"
    <3>1. \A v \in Approvers \ {u} : o.votes[v] \in {"none", "approved"}
      BY <1>3, <1>7, <2>6
    <3>2. ~Awaits(o, s)
      BY DEF GrantedRequest
    <3>3. ASSUME NEW v \in Approvers
          PROVE  /\ o.votes[v] = "none" /\ v # u => x.votes[v] = "none"
                 /\ o.votes[v] = "approved" \/ v = u => x.votes[v] = "approved" \/ (v \in wd /\ o.leave = "none")
      <4>1. ASSUME o.votes[v] = "none", v # u PROVE x.votes[v] = "none"
        BY <1>6, <2>2, <3>2, <4>1 DEF Moved
      <4>2. ASSUME o.votes[v] = "approved", v \notin w, x.votes[v] = travel.votes[v]
            PROVE  x.votes[v] = "approved" \/ (v \in wd /\ o.leave = "none")
        BY <1>8, <2>2, <4>2 DEF Moved
      <4> QED BY <1>6, <4>1, <4>2
    <3>4. \A v \in Approvers : x.votes[v] \in {"none", "approved"} \/ (v \in wd /\ o.leave = "none")
      BY <3>1, <3>3
    <3>5. x.leave \in {"none", "validate"} /\ (o.leave = "none" => x.leave = "none")
      BY <1>2, <2>4, <2>6
    <3>6. x.kind = "international" /\ s.second # NoUser => x.votes[s.second] = "approved" \/ s.second \in wd
      <4> SUFFICES ASSUME x.kind = "international", s.second # NoUser
                   PROVE  x.votes[s.second] = "approved" \/ s.second \in wd
        OBVIOUS
      <4>1. s.second \in Approvers
        BY TravelAssumption
      <4>2. o.votes[s.second] # "none"
        BY <2>3, <3>2 DEF Awaits
      <4> QED BY <3>1, <3>3, <4>1, <4>2
    <3> HIDE DEF x, wd
    <3>7. Sound(x)
      BY <1>5, <2>3, <2>6, <3>4, <3>5 DEF Sound
    <3>8. Backed(x, wd)
      <4>1. \A v \in Approvers \ wd : x.votes[v] \in {"none", "approved"}
        BY <3>4
      <4>2. x.votes[u] = "approved" \/ u \in wd
        BY <3>3
      <4> QED BY <1>8, <4>1, <4>2 DEF Backed
    <3>9. StillSo(x, wd, s)
      BY <3>6, <3>7, <3>8 DEF StillSo, Agreed
    <3> QED BY <3>9 DEF x, wd
  <2> QED BY <2>5, <2>6
<1> QED BY <1>10, <1>11

\* Whoever refuses is asked, or the leave is not refused yet.
Refuses(o, u) == o.votes[u] # "none" /\ (o.votes[u] = "pending" \/ o.leave # "refuse")

\* A commit that refuses does: the leave it refuses is the one there is, or another
\* vote against it has refused it already.
LEMMA RefusedSound ==
    ASSUME NEW o, NEW new, NEW m, NEW s \in Settings, Commits(o, new, Written(o, new), m, s),
           NEW u \in Approvers, Refuses(o, u), RefusedBy(o, new, u)
    PROVE  StillSo(Merged(new, Written(o, new)), Aside(o, new, Written(o, new)), s)
<1> DEFINE w == Written(o, new)
           x == Merged(new, w)
           wd == Aside(o, new, w)
<1>1. o \in RequestRows /\ new \in RequestRows /\ travel \in RequestRows
  BY DEF Commits, Sound
<1>2. /\ new.votes = [o.votes EXCEPT ![u] = "refused"] /\ new.status = "refused"
      /\ new.kind = o.kind
      /\ new.leave = IF o.leave = "none" THEN "none" ELSE "refuse"
  BY <1>1, RefusedTo DEF RefusedBy
<1>3. new.votes[u] = "refused" /\ \A v \in Approvers \ {u} : new.votes[v] = o.votes[v]
  BY <1>1, <1>2 DEF RequestRows
<1>4. o.status # "none" /\ travel.status # "none"
  <2>1. o.status # "none"
    BY DEF Refuses, Commits, Sound
  <2> QED BY <2>1, Unmissed
<1>5. x \in RequestRows
  BY <1>1, MergedTyped
<1>6. wd \subseteq Approvers /\ (\A v \in wd : x.votes[v] = "refused") /\ \A v \in TakenBack(o, new) : v \in wd
  BY AsideRefused
<1>7. /\ \A v \in Approvers \ {u} : v \notin w /\ x.votes[v] = travel.votes[v]
      /\ u \in w <=> o.votes[u] # "refused"
      /\ x.votes[u] = IF u \in w THEN "refused" ELSE travel.votes[u]
  <2>1. \A v \in Approvers \ {u} : v \notin w
    BY <1>1, <1>3, WrittenRows
  <2>2. u \in w <=> o.votes[u] # "refused"
    BY <1>1, <1>3, WrittenRows
  <2> QED BY <1>3, <2>1, <2>2, MergedFields
<1>8. /\ "request" \in w => x.status = "refused" /\ travel.leave = o.leave
      /\ "request" \notin w => x.status = travel.status /\ o.status = "refused" /\ o.leave \in {"none", "refuse"}
  <2>1. CASE "request" \in w
    <3>1. "request" \notin m
      BY <2>1, Unmissed
    <3> QED BY <1>2, <2>1, <3>1, MergedFields DEF Commits, Behind
  <2>2. CASE "request" \notin w
    <3>1. o.status = "refused"
      BY <1>1, <1>2, <2>2, WrittenRows
    <3> QED BY <2>2, <3>1, MergedFields DEF Commits, Sound
  <2> QED BY <2>1, <2>2
<1>9. /\ "leave" \in w => x.leave = "refuse"
      /\ "leave" \notin w => x.leave = travel.leave /\ o.leave \in {"none", "refuse"}
  <2>1. "leave" \in w <=> o.leave # new.leave
    BY <1>1, WrittenRows
  <2> QED BY <1>2, <2>1, MergedFields
<1>10. CASE u \in w
  <2>1. u \notin m /\ travel.votes[u] = o.votes[u]
    BY <1>10, Unmissed
  <2>2. x.leave \in {"none", "refuse"}
    <3>1. CASE "leave" \in w
      BY <1>9, <3>1
    <3>2. CASE "leave" \notin w /\ o.leave = "none"
      BY <1>9, <2>1, <3>2 DEF Refuses, Commits, Behind
    <3>3. CASE "leave" \notin w /\ o.leave = "refuse"
      <4>1. o.votes[u] = "pending"
        BY <3>3 DEF Refuses
      <4>2. travel.leave \notin {"confirm", "validate"}
        BY <2>1, <3>3, <4>1 DEF Commits, Behind
      <4> QED BY <1>1, <1>9, <3>3, <4>2 DEF RequestRows
    <3> QED BY <1>9, <3>1, <3>2, <3>3
  <2>3. ASSUME x.status = "approved"
        PROVE  travel.status = "approved" /\ x.leave = "none" /\ u \in wd
    <3>1. "request" \notin w /\ travel.status = "approved" /\ o.status = "refused" /\ o.leave \in {"none", "refuse"}
      BY <1>8, <2>3
    <3>2. "leave" \notin w
      BY <1>1, <1>2, <3>1, WrittenRows
    <3>3. x.leave = "none"
      BY <1>9, <2>2, <3>1, <3>2 DEF Commits, Sound
    <3>4. travel.votes[u] = "approved"
      <4>1. u \notin withdrawn
        BY <1>7, <1>10, <2>1 DEF Commits, Backed
      <4> QED BY <2>1, <3>1, <4>1 DEF Refuses, Commits, Backed
    <3>5. m # {}
      BY <3>1, Unmissed
    <3>6. slow # <<>>
      BY <3>5 DEF Commits
    <3>7. u \in TakenBack(o, new)
      BY <1>3, <2>1, <3>4, <3>6 DEF TakenBack
    <3> QED BY <1>6, <3>1, <3>3, <3>7
  <2>4. Backed(x, wd)
    <3>1. CASE x.status = "approved"
      <4>1. \A v \in Approvers : (x.votes[v] = travel.votes[v] /\ v \notin w) \/ x.votes[v] = "approved" \/ v \in wd
        BY <1>7, <2>3, <3>1
      <4> QED BY <2>3, <3>1, <4>1, StaysBacked
    <3>2. CASE x.status # "approved"
      <4> HIDE DEF x, wd
      <4> QED BY <1>6, <3>2 DEF Backed
    <3> QED BY <3>1, <3>2
  <2> HIDE DEF x, wd
  <2>5. x.status # "none"
    BY <1>4, <1>8
  <2>6. Sound(x)
    BY <1>5, <2>2, <2>3, <2>5 DEF Sound
  <2>7. StillSo(x, wd, s)
    BY <2>3, <2>4, <2>6 DEF StillSo, Agreed
  <2> QED BY <2>7 DEF x, wd
<1>11. CASE u \notin w
  <2>1. o.votes[u] = "refused" /\ o.leave = "none"
    BY <1>7, <1>11 DEF Refuses, Commits, Sound
  <2>2. x.leave = travel.leave
    BY <1>1, <1>2, <2>1, WrittenRows, MergedFields
  <2>3. \A v \in Approvers : v \notin w /\ x.votes[v] = travel.votes[v]
    BY <1>7, <1>11
  <2>4. CASE "request" \notin w
    <3>1. x.status = travel.status
      BY <1>8, <2>4
    <3> QED BY <1>4, <2>2, <2>3, <3>1, VotesAlone
  <2>5. CASE "request" \in w
    <3>1. x.status = "refused" /\ x.leave = "none"
      BY <1>8, <2>1, <2>2, <2>5
    <3> HIDE DEF x, wd
    <3>2. Sound(x)
      BY <1>5, <3>1 DEF Sound
    <3>3. Backed(x, wd)
      BY <1>6, <3>1 DEF Backed
    <3>4. StillSo(x, wd, s)
      BY <3>1, <3>2, <3>3 DEF StillSo, Agreed
    <3> QED BY <3>4 DEF x, wd
  <2> QED BY <2>4, <2>5
<1> QED BY <1>10, <1>11
-----------------------------------------------------------------------------
(* The steps *)

\* How a commit that overlaps with a running transaction changes the request t
\* into new: what that transaction may count on.
Advances(t, new, w, wd, wd2, s) ==
    /\ "request" \notin w =>
          /\ new.leave = t.leave /\ Moved(t, new, wd2, s)
          /\ \A v \in wd : new.votes[v] = "approved" \/ v \in wd2
    /\ t.leave = "none" /\ new.leave # "none" => \A u \in Approvers : t.votes[u] # "none" => u \in w
    /\ new.leave \in {"confirm", "validate"} /\ new.leave # t.leave
          => \A u \in Approvers : u \in w \/ new.votes[u] # "pending"

\* What a running transaction read stays behind by what is committed meanwhile.
LEMMA BehindGrows ==
    ASSUME NEW o \in RequestRows, NEW t \in RequestRows, NEW new \in RequestRows, NEW m, NEW w, NEW wd, NEW wd2, NEW s,
           Behind(o, t, m, wd, s), Written(t, new) \subseteq w, Advances(t, new, w, wd, wd2, s)
    PROVE  Behind(o, new, m \cup w, wd2, s)
<1>1. ASSUME NEW r \in AllRows \ (m \cup w)
      PROVE  Row(o, r) = Row(new, r)
  <2>1. r \notin Written(t, new)
    OBVIOUS
  <2>2. Row(t, r) = Row(new, r)
    BY <2>1 DEF Written, AllRows
  <2>3. Row(o, r) = Row(t, r)
    BY DEF Behind
  <2> QED BY <2>2, <2>3
<1>2. ASSUME "request" \notin m \cup w
      PROVE  new.leave = o.leave /\ Moved(o, new, wd2, s)
  <2>1. t.leave = o.leave /\ Moved(o, t, wd, s)
    BY <1>2 DEF Behind
  <2>2. /\ new.leave = t.leave /\ Moved(t, new, wd2, s)
        /\ \A v \in wd : new.votes[v] = "approved" \/ v \in wd2
    BY <1>2 DEF Advances
  <2>3. o.kind = t.kind
    <3>1. Row(o, "request") = Row(t, "request")
      BY <1>2 DEF Behind, AllRows
    <3> QED BY <3>1, Rows
  <2>4. ASSUME NEW v \in Approvers, o.votes[v] = "approved"
        PROVE  new.votes[v] = "approved" \/ (v \in wd2 /\ o.leave = "none")
    <3>1. t.votes[v] = "approved" \/ (v \in wd /\ o.leave = "none")
      BY <2>1, <2>4 DEF Moved
    <3>2. t.votes[v] = "approved" => new.votes[v] = "approved" \/ (v \in wd2 /\ t.leave = "none")
      BY <2>2 DEF Moved
    <3> QED BY <2>1, <2>2, <3>1, <3>2
  <2>5. ASSUME NEW v \in Approvers, o.votes[v] = "none"
        PROVE  new.votes[v] = "none" \/ (v = s.second /\ Awaits(o, s))
    <3>1. t.votes[v] = "none" \/ (v = s.second /\ Awaits(o, s))
      BY <2>1, <2>5 DEF Moved
    <3>2. t.votes[v] = "none" => new.votes[v] = "none" \/ (v = s.second /\ Awaits(t, s))
      BY <2>2 DEF Moved
    <3>3. v = s.second /\ Awaits(t, s) => Awaits(o, s)
      BY <2>3, <2>5 DEF Awaits
    <3> QED BY <3>1, <3>2, <3>3
  <2> QED BY <2>1, <2>2, <2>4, <2>5 DEF Moved
<1>3. ASSUME NEW u \in Approvers, u \notin m \cup w
      PROVE  o.votes[u] = t.votes[u] /\ t.votes[u] = new.votes[u]
  <2>1. u \in AllRows /\ u \notin Written(t, new)
    BY <1>3 DEF AllRows
  <2>2. Row(o, u) = Row(t, u) /\ Row(t, u) = Row(new, u)
    BY <1>3, <2>1 DEF Behind, Written, AllRows
  <2> QED BY <2>2, Rows
<1>4. ASSUME o.leave = "none", new.leave # "none", NEW u \in Approvers, o.votes[u] # "none"
      PROVE  u \in m \cup w
  <2>1. CASE t.leave # "none"
    BY <1>4, <2>1 DEF Behind
  <2>2. CASE t.leave = "none"
    BY <1>3, <1>4, <2>2 DEF Advances
  <2> QED BY <2>1, <2>2
<1>5. ASSUME new.leave \in {"confirm", "validate"}, new.leave # o.leave,
             NEW u \in Approvers, o.votes[u] = "pending"
      PROVE  u \in m \cup w
  <2>1. CASE new.leave = t.leave
    BY <1>5, <2>1 DEF Behind
  <2>2. CASE new.leave # t.leave
    BY <1>3, <1>5, <2>2 DEF Advances
  <2> QED BY <2>1, <2>2
<1> QED BY <1>1, <1>2, <1>4, <1>5 DEF Behind

\* A transaction keeps the invariant when what it commits is sound and, if
\* another one is running, the rows change as they may.
LEMMA CommitKeeps ==
    ASSUME TravelInv, NEW late \in BOOLEAN, late => slow # <<>>, NEW new \in RequestRows,
           NEW replaced \in SUBSET AllRows, CommitRows(late, new, replaced),
           NEW w, w = Written(Read(late), new) \cup replaced,
           Commits(Read(late), new, w, IF late THEN missed ELSE {}, setting)
               => StillSo(Merged(new, w), Aside(Read(late), new, w), setting),
           ~late => new.status # "none",
           ~late /\ slow # <<>> => Advances(travel, new, w, withdrawn, Aside(travel, new, w), setting)
    PROVE  TravelInv' /\ Agreed(travel', withdrawn', setting)
<1> DEFINE o == Read(late)
           m == IF late THEN missed ELSE {}
<1>1. /\ travel' = IF late /\ w \cap missed # {} THEN travel ELSE Merged(new, w)
      /\ withdrawn' = IF late /\ w \cap missed # {} THEN withdrawn ELSE Aside(o, new, w)
      /\ slow' = IF late THEN <<>> ELSE slow
      /\ missed' = IF late \/ slow = <<>> THEN {} ELSE missed \cup w
      /\ setting' = setting /\ settings' = settings
  BY DEF CommitRows, Aside
<1>2. /\ setting \in Settings /\ settings \in 0..MaxSettings /\ missed \subseteq AllRows
      /\ Sound(travel) /\ Backed(travel, withdrawn) /\ (travel.status = "none" => missed = {})
      /\ slow = <<>> => missed = {}
      /\ slow # <<>> => Sound(slow[1]) /\ Behind(slow[1], travel, missed, withdrawn, setting)
  BY DEF TravelInv
<1>3. Sound(o) /\ o \in RequestRows /\ travel \in RequestRows
  <2>1. o \in {travel, slow[1]} /\ (o = travel \/ slow # <<>>)
    BY DEF Read
  <2>2. Sound(o)
    BY <1>2, <2>1
  <2> QED BY <1>2, <2>2 DEF Sound
<1>4. w \subseteq AllRows
  BY <1>3, WrittenRows
<1>5. Behind(o, travel, m, withdrawn, setting)
  <2>1. CASE late
    BY <1>2, <2>1 DEF Read
  <2>2. CASE ~late
    <3>1. o = travel
      BY <2>2 DEF Read
    <3> QED BY <3>1 DEF Behind, Moved
  <2> QED BY <2>1, <2>2
<1>6. TravelInv' = (/\ setting' \in Settings /\ settings' \in 0..MaxSettings /\ missed' \subseteq AllRows
                    /\ Sound(travel') /\ Backed(travel', withdrawn')
                    /\ travel'.status = "none" => missed' = {}
                    /\ slow' = <<>> => missed' = {}
                    /\ slow' # <<>> => Sound(slow'[1]) /\ Behind(slow'[1], travel', missed', withdrawn', setting'))
  BY DEF TravelInv, Sound, Backed, Behind, Moved, AllRows
<1>7. CASE late /\ w \cap missed # {}
  <2>1. travel' = travel /\ withdrawn' = withdrawn /\ slow' = <<>> /\ missed' = {}
    BY <1>1, <1>7
  <2> QED BY <1>1, <1>2, <1>6, <2>1 DEF Agreed
<1>8. CASE ~(late /\ w \cap missed # {})
  <2>1. travel' = Merged(new, w) /\ withdrawn' = Aside(o, new, w)
    BY <1>1, <1>8
  <2>2. Commits(o, new, w, m, setting)
    <3>1. w \cap m = {} /\ (travel.status = "none" => m = {}) /\ (m # {} => slow # <<>>)
      BY <1>2, <1>8
    <3>2. Written(o, new) \subseteq w
      OBVIOUS
    <3> HIDE DEF m, o
    <3> QED BY <1>2, <1>3, <1>4, <1>5, <3>1, <3>2 DEF Commits
  <2>3. Sound(travel') /\ Backed(travel', withdrawn') /\ Agreed(travel', withdrawn', setting)
    BY <2>1, <2>2 DEF StillSo
  <2>4. CASE late
    <3>1. slow' = <<>> /\ missed' = {}
      BY <1>1, <2>4
    <3> QED BY <1>1, <1>2, <1>6, <2>3, <3>1
  <2>5. CASE ~late
    <3>1. o = travel
      BY <2>5 DEF Read
    <3>2. travel' = new
      BY <1>3, <2>1, <3>1, MergedAlone
    <3>3. slow' = slow /\ missed' \subseteq AllRows /\ (slow = <<>> => missed' = {})
      BY <1>1, <1>2, <1>4, <2>5
    <3>4. ASSUME slow # <<>>
          PROVE  Sound(slow[1]) /\ Behind(slow[1], new, missed \cup w, withdrawn', setting)
      <4>1. Sound(slow[1]) /\ slow[1] \in RequestRows /\ Behind(slow[1], travel, missed, withdrawn, setting)
        BY <1>2, <3>4 DEF Sound
      <4>2. Advances(travel, new, w, withdrawn, withdrawn', setting)
        BY <2>1, <2>5, <3>1, <3>4
      <4>3. Written(travel, new) \subseteq w
        BY <3>1
      <4>4. Behind(slow[1], new, missed \cup w, withdrawn', setting)
        BY <1>3, <4>1, <4>2, <4>3, BehindGrows
      <4> QED BY <4>1, <4>4
    <3>5. slow # <<>> => missed' = missed \cup w
      BY <1>1, <2>5
    <3>6. new.status # "none"
      BY <2>5
    <3>7. slow' # <<>> => Sound(slow'[1]) /\ Behind(slow'[1], travel', missed', withdrawn', setting')
      BY <1>1, <3>2, <3>3, <3>4, <3>5
    <3>8. TravelInv'
      BY <1>1, <1>2, <1>6, <2>3, <3>2, <3>3, <3>6, <3>7
    <3> QED BY <2>3, <3>8
  <2> QED BY <2>4, <2>5
<1> QED BY <1>7, <1>8

\* What a submission leaves.
LEMMA SubmittedTo ==
    ASSUME NEW o \in RequestRows, o.status \notin {"none", "refused"}, NEW s \in Settings
    PROVE  /\ Submitted(o, s).travel \in RequestRows
           /\ Submitted(o, s).travel.status \in {"new", "pending"}
           /\ \A u \in Approvers : Submitted(o, s).travel.votes[u] \in {"none", "pending"}
           /\ Submitted(o, s).travel.expense = o.expense
           /\ Submitted(o, s).travel.leave \in {o.leave, "confirm"}
<1> DEFINE asked == Voted(o, Asked(s))
<1>1. /\ Asked(s) \in [Approvers -> Votes] /\ \A u \in Approvers : Asked(s)[u] \in {"none", "pending"}
      /\ s.first \in {{}, {NoUser}} => Asked(s) = [u \in Approvers |-> "none"]
  <2>1. s.first \in {{}, {NoUser}} => \A u \in Approvers : u \notin s.first
    BY TravelAssumption
  <2> QED BY <2>1 DEF Asked, Votes
<1>2. Status(Asked(s)) \in {"new", "pending"}
  <2>1. \A u \in Approvers : Asked(s)[u] # "refused" /\ Asked(s)[u] # "approved"
    BY <1>1
  <2> QED BY <1>1, <2>1, StatusOfVotes
<1>3. /\ asked \in RequestRows /\ asked.votes = Asked(s) /\ asked.status \in {"new", "pending"}
      /\ asked.leave = o.leave /\ asked.expense = o.expense
  BY <1>1, <1>2 DEF Voted, RequestRows
<1> HIDE DEF asked
<1>4. s.minimum > 0 \/ s.minimum = 0
  BY TravelAssumption
<1>5. Submitted(o, s) \in {Raised(asked), Done(TimeOff([asked EXCEPT !.status = "pending"])),
                           Raised([asked EXCEPT !.status = "pending"])}
  <2>1. CASE s.first = {}
    BY <2>1 DEF Submitted, asked
  <2>2. CASE s.first = {NoUser} /\ s.minimum > 0
    <3>1. s.minimum # 0
      BY <2>2, TravelAssumption
    <3> QED BY <2>2, <3>1 DEF Submitted, asked
  <2>3. CASE s.first = {NoUser} /\ s.minimum = 0
    BY <2>3 DEF Submitted, asked
  <2>4. CASE s.first \notin {{}, {NoUser}}
    BY <2>4 DEF Submitted, asked
  <2> QED BY <1>4, <2>1, <2>2, <2>3, <2>4
<1>6. Submitted(o, s).travel \in {asked, TimeOff([asked EXCEPT !.status = "pending"]), [asked EXCEPT !.status = "pending"]}
  BY <1>5 DEF Raised, Done
<1> QED BY <1>1, <1>3, <1>6 DEF TimeOff, RequestRows

\* The overlap that a submission may have: it writes every vote.
LEMMA SubmissionKeeps ==
    ASSUME TravelInv, NEW late \in BOOLEAN, late => slow # <<>>, NEW new \in RequestRows, NEW replaced \in SUBSET AllRows,
           Resubmitted(Read(late), new, replaced), CommitRows(late, new, replaced)
    PROVE  TravelInv' /\ Agreed(travel', withdrawn', setting)
<1> DEFINE w == Written(Read(late), new) \cup replaced
<1>1. travel \in RequestRows /\ Sound(travel)
  BY DEF TravelInv, Sound
<1>2. ASSUME ~late
      PROVE  "request" \in w /\ (\A u \in Approvers : u \in w \/ (new.votes[u] # "pending" /\ travel.votes[u] = "none"))
  <2>1. Resubmitted(travel, new, replaced) /\ Read(late) = travel
    BY <1>2 DEF Read
  <2>2. CASE travel.status # "none"
    <3>1. {"request"} \cup Approvers \subseteq replaced
      BY <2>1, <2>2 DEF Resubmitted
    <3> QED BY <3>1
  <2>3. CASE travel.status = "none"
    <3>1. "request" \in Written(travel, new)
      BY <1>1, <2>1, <2>3, WrittenRows DEF Resubmitted
    <3>2. \A u \in Approvers : travel.votes[u] = "none"
      BY <1>1, <2>3 DEF Sound
    <3>3. \A u \in Approvers : u \in Written(travel, new) \/ new.votes[u] = "none"
      BY <1>1, <3>2, WrittenRows
    <3> QED BY <2>1, <3>1, <3>2, <3>3
  <2> QED BY <2>2, <2>3
<1>3. replaced \subseteq AllRows /\ (~late => new.status # "none")
  BY DEF Resubmitted
<1>4. Commits(Read(late), new, w, IF late THEN missed ELSE {}, setting)
        => StillSo(Merged(new, w), Aside(Read(late), new, w), setting)
  BY ResubmittedSound
<1>5. w = Written(Read(late), new) \cup replaced
  OBVIOUS
<1> HIDE DEF w
<1>6. ~late /\ slow # <<>> => Advances(travel, new, w, withdrawn, Aside(travel, new, w), setting)
  BY <1>2 DEF Advances
<1> QED BY <1>3, <1>4, <1>5, <1>6, CommitKeeps

\* A change that leaves the votes as they are.
LEMMA OtherKeeps ==
    ASSUME TravelInv, NEW late \in BOOLEAN, late => slow # <<>>, NEW new \in RequestRows,
           Billed(Read(late), new, {}) \/ Rekinded(Read(late), new, {}), CommitRows(late, new, {})
    PROVE  TravelInv' /\ Agreed(travel', withdrawn', setting)
<1> DEFINE o == Read(late)
           w == Written(o, new)
<1>1. w = Written(Read(late), new) \cup {} /\ {} \in SUBSET AllRows
  OBVIOUS
<1>2. Commits(o, new, w, IF late THEN missed ELSE {}, setting)
        => StillSo(Merged(new, w), Aside(o, new, w), setting)
  BY BilledSound, RekindedSound
<1>3. ASSUME ~late
      PROVE  new.status # "none" /\ Advances(travel, new, w, withdrawn, Aside(travel, new, w), setting)
  <2>1. o = travel /\ travel \in RequestRows
    BY <1>3 DEF Read, TravelInv, Sound
  <2>2. new.status = travel.status /\ travel.status # "none" /\ new.leave = travel.leave /\ new.votes = travel.votes
    BY <2>1 DEF Billed, Rekinded, RequestRows
  <2>3. \A v \in Approvers : v \notin w
    BY <2>1, <2>2, WrittenRows
  <2>4. \A v \in withdrawn : v \in Aside(travel, new, w)
    BY <2>3 DEF Aside, TravelInv, Backed
  <2> HIDE DEF w
  <2> QED BY <2>2, <2>4 DEF Moved, Advances
<1> HIDE DEF w
<1> QED BY <1>1, <1>2, <1>3, CommitKeeps

\* A vote, in a page or in the list.
LEMMA VoteKeeps ==
    ASSUME TravelInv, NEW late \in BOOLEAN, late => slow # <<>>, NEW new, NEW u \in Approvers,
           \/ Read(late).votes[u] = "pending" /\ BroughtIn(Read(late), new, u, setting)
           \/ Read(late).votes[u] # "none" /\ GrantedRequest(Read(late), new, u, setting)
           \/ Refuses(Read(late), u) /\ RefusedBy(Read(late), new, u),
           CommitRows(late, new, {})
    PROVE  TravelInv' /\ Agreed(travel', withdrawn', setting)
<1> DEFINE o == Read(late)
           m == IF late THEN missed ELSE {}
           w == Written(o, new)
<1>1. Sound(o) /\ o \in RequestRows /\ setting \in Settings /\ Sound(travel) /\ travel \in RequestRows
  BY DEF Read, TravelInv, Sound
<1>2. new \in RequestRows
  <2>1. CASE BroughtIn(o, new, u, setting)
    BY <1>1, <2>1, BroughtInTo
  <2>2. CASE GrantedRequest(o, new, u, setting)
    BY <1>1, <2>2, GrantedTo DEF GrantedRequest
  <2>3. CASE RefusedBy(o, new, u)
    BY <1>1, <2>3, RefusedTo DEF RefusedBy
  <2> QED BY <2>1, <2>2, <2>3
<1>3. w = Written(Read(late), new) \cup {} /\ {} \in SUBSET AllRows
  OBVIOUS
<1> HIDE DEF m
<1>4. Commits(o, new, w, m, setting) => StillSo(Merged(new, w), Aside(o, new, w), setting)
  BY <1>1, BroughtInSound, GrantedSound, RefusedSound
<1>5. ASSUME ~late
      PROVE  new.status # "none" /\ (slow # <<>> => Advances(travel, new, w, withdrawn, Aside(travel, new, w), setting))
  <2>1. o = travel
    BY <1>5 DEF Read
  <2>2. withdrawn \subseteq Approvers /\ \A v \in withdrawn : travel.votes[v] = "refused"
    BY DEF TravelInv, Backed
  <2>3. \A v \in Approvers : v \in w <=> travel.votes[v] # new.votes[v]
    BY <1>1, <1>2, <2>1, WrittenRows
  <2>4. \A v \in withdrawn : v \notin w => v \in Aside(travel, new, w)
    BY DEF Aside
  <2>5. CASE BroughtIn(o, new, u, setting)
    <3>1. /\ setting.second \in Approvers /\ travel.votes[setting.second] = "none"
          /\ new.votes = [[travel.votes EXCEPT ![u] = "approved"] EXCEPT ![setting.second] = "pending"]
          /\ new.status = "pending" /\ new.leave = travel.leave
      BY <1>1, <2>1, <2>5, BroughtInTo
    <3>2. Awaits(travel, setting) /\ travel.votes[u] # "none"
      BY <2>1, <2>5 DEF BroughtIn, Refuses
    <3>3. \A v \in Approvers : \/ new.votes[v] = travel.votes[v]
                               \/ v = u /\ new.votes[v] = "approved"
                               \/ v = setting.second
      BY <1>1, <3>1 DEF RequestRows
    <3> HIDE DEF w
    <3>4. Moved(travel, new, Aside(travel, new, w), setting)
      BY <3>1, <3>2, <3>3 DEF Moved
    <3>5. \A v \in withdrawn : new.votes[v] = "approved" \/ v \in Aside(travel, new, w)
      BY <2>2, <2>3, <2>4, <3>1, <3>3
    <3> QED BY <3>1, <3>4, <3>5 DEF Advances
  <2>6. CASE GrantedRequest(o, new, u, setting)
    <3>1. /\ new.votes = [travel.votes EXCEPT ![u] = "approved"] /\ new.status = Status(new.votes)
          /\ new.leave = IF new.status = "approved" /\ travel.leave # "none" THEN "validate" ELSE travel.leave
      BY <1>1, <2>1, <2>6, GrantedTo DEF GrantedRequest
    <3>2. /\ new.status \in {"new", "pending", "approved", "refused"}
          /\ new.status = "approved" => \A v \in Approvers : new.votes[v] \in {"none", "approved"}
      BY <1>2, <3>1, StatusOfVotes DEF RequestRows
    <3>3. \A v \in Approvers : IF v = u THEN new.votes[v] = "approved" ELSE new.votes[v] = travel.votes[v]
      BY <1>1, <3>1 DEF RequestRows
    <3>4. travel.votes[u] # "none"
      BY <2>1, <2>6 DEF Refuses, GrantedRequest
    <3>5. "request" \notin w => new.leave = travel.leave
      <4>1. "request" \notin w => new.status = travel.status
        BY <1>1, <1>2, <2>1, WrittenRows
      <4>2. travel.status = "approved" => travel.leave \in {"none", "validate"}
        BY <1>1 DEF Sound
      <4> QED BY <3>1, <4>1, <4>2
    <3> HIDE DEF w
    <3>6. Moved(travel, new, Aside(travel, new, w), setting)
      BY <3>3, <3>4 DEF Moved
    <3>7. \A v \in withdrawn : new.votes[v] = "approved" \/ v \in Aside(travel, new, w)
      BY <2>2, <2>3, <2>4, <3>3
    <3> QED BY <3>1, <3>2, <3>5, <3>6, <3>7 DEF Advances
  <2>7. CASE RefusedBy(o, new, u) /\ Refuses(o, u)
    <3>1. /\ new.votes = [travel.votes EXCEPT ![u] = "refused"] /\ new.status = "refused"
          /\ new.leave = IF travel.leave = "none" THEN "none" ELSE "refuse"
      BY <1>1, <2>1, <2>7, RefusedTo DEF RefusedBy
    <3>2. \A v \in Approvers : IF v = u THEN new.votes[v] = "refused" ELSE new.votes[v] = travel.votes[v]
      BY <1>1, <3>1 DEF RequestRows
    <3>3. travel.votes[u] # "none" /\ (travel.votes[u] = "pending" \/ travel.leave # "refuse")
      BY <2>1, <2>7 DEF Refuses
    <3>4. ASSUME "request" \notin w
          PROVE  /\ new.leave = travel.leave
                 /\ travel.votes[u] = "approved" => travel.leave = "none"
      <4>1. travel.status = "refused"
        BY <1>1, <1>2, <2>1, <3>1, <3>4, WrittenRows
      <4> QED BY <1>1, <3>1, <3>3, <4>1 DEF Sound
    <3>5. ASSUME slow # <<>>, travel.votes[u] = "approved"
          PROVE  u \in Aside(travel, new, w)
      BY <3>2, <3>5 DEF Aside, TakenBack
    <3> HIDE DEF w
    <3>6. slow # <<>> /\ "request" \notin w => Moved(travel, new, Aside(travel, new, w), setting)
      BY <3>2, <3>3, <3>4, <3>5 DEF Moved
    <3>7. \A v \in withdrawn : v \in Aside(travel, new, w)
      BY <2>2, <2>3, <2>4, <3>2
    <3> QED BY <3>1, <3>4, <3>6, <3>7 DEF Advances
  <2> QED BY <2>5, <2>6, <2>7
<1> HIDE DEF w
<1> QED BY <1>2, <1>3, <1>4, <1>5, CommitKeeps DEF m

\* An approval brings in the second approver or counts as a vote.
LEMMA Approves ==
    ASSUME NEW o, NEW s, NEW u
    PROVE  BroughtIn(o, Approve(o, s, u).travel, u, s) \/ GrantedRequest(o, Approve(o, s, u).travel, u, s)
<1>1. CASE Awaits(o, s)
  <2>1. Approve(o, s, u) = Raised([o EXCEPT !.votes = [@ EXCEPT ![u] = "approved", ![s.second] = "pending"],
                                            !.status = "pending"])
    BY <1>1 DEF Approve
  <2> QED BY <1>1, <2>1 DEF Raised, BroughtIn
<1>2. CASE ~Awaits(o, s)
  BY <1>2 DEF Approve, Done, GrantedRequest
<1> QED BY <1>1, <1>2

\* Every transaction of the portal.
LEMMA PortalKeeps ==
    ASSUME TravelInv, NEW late \in {l \in BOOLEAN : l => slow # <<>>},
           \/ \E kind \in Kinds : Save(late, kind) \/ Update(late, kind)
           \/ \E u \in Approvers : ApproveButton(late, u) \/ RefuseButton(late, u) \/ Bulk(late, u)
           \/ SaveExpense(late) \/ SignExpense(late) \/ RefuseExpense(late)
    PROVE  TravelInv' /\ Agreed(travel', withdrawn', setting)
<1> DEFINE o == Read(late)
<1>0. late \in BOOLEAN /\ (late => slow # <<>>)
  OBVIOUS
<1>1. Sound(o) /\ o \in RequestRows /\ setting \in Settings
  BY DEF Read, TravelInv, Sound
<1>2. ASSUME NEW kind \in Kinds, Save(late, kind)
      PROVE  TravelInv' /\ Agreed(travel', withdrawn', setting)
  <2> DEFINE asked == [o EXCEPT !.status = "new", !.kind = kind]
             new == Confirm(asked, setting).travel
  <2>1. o.status = "none" /\ CommitRows(late, new, {})
    BY <1>2 DEF Save, Commit
  <2>2. asked \in RequestRows /\ asked.status = "new" /\ asked.leave = o.leave /\ asked.expense = o.expense
    BY <1>1 DEF RequestRows
  <2> HIDE DEF asked
  <2>3. new = Submitted(asked, setting).travel
    BY <2>2 DEF Confirm
  <2>4. Resubmitted(o, new, {})
    BY <1>1, <2>1, <2>2, <2>3, SubmittedTo DEF Resubmitted
  <2>5. new \in RequestRows /\ {} \in SUBSET AllRows
    BY <2>4 DEF Resubmitted
  <2> HIDE DEF new
  <2> QED BY <1>0, <2>1, <2>4, <2>5, SubmissionKeeps
<1>3. ASSUME NEW kind \in Kinds, Update(late, kind)
      PROVE  TravelInv' /\ Agreed(travel', withdrawn', setting)
  <2> DEFINE asked == [o EXCEPT !.kind = kind]
             new == Confirm(asked, setting).travel
             replaced == IF o.status = "refused" THEN {} ELSE {"request"} \cup Approvers
  <2>1. o.status # "none" /\ CommitRows(late, new, replaced)
    BY <1>3 DEF Update
  <2>2. asked \in RequestRows /\ asked.status = o.status /\ asked.leave = o.leave /\ asked.expense = o.expense
    BY <1>1 DEF RequestRows
  <2>3. CASE o.status = "refused"
    <3>1. new = asked /\ replaced = {}
      BY <2>2, <2>3 DEF Confirm, Raised
    <3>2. Rekinded(o, new, {})
      BY <2>3, <3>1 DEF Rekinded
    <3>3. new \in RequestRows /\ CommitRows(late, new, {})
      BY <2>1, <2>2, <3>1
    <3> HIDE DEF new
    <3> QED BY <1>0, <3>2, <3>3, OtherKeeps
  <2>4. CASE o.status # "refused"
    <3> HIDE DEF asked
    <3>1. new = Submitted(asked, setting).travel
      BY <2>2, <2>4 DEF Confirm
    <3>2. replaced = {"request"} \cup Approvers /\ replaced \subseteq AllRows
      BY <2>4 DEF AllRows
    <3>3. Resubmitted(o, new, replaced)
      BY <1>1, <2>1, <2>2, <2>4, <3>1, <3>2, SubmittedTo DEF Resubmitted
    <3>4. new \in RequestRows /\ replaced \in SUBSET AllRows
      BY <3>3 DEF Resubmitted
    <3> HIDE DEF new, replaced
    <3> QED BY <1>0, <2>1, <3>3, <3>4, SubmissionKeeps
  <2> QED BY <2>3, <2>4
<1>4. ASSUME NEW u \in Approvers, ApproveButton(late, u) \/ RefuseButton(late, u) \/ Bulk(late, u)
      PROVE  TravelInv' /\ Agreed(travel', withdrawn', setting)
  <2> DEFINE approval == Approve(o, setting, u)
             refusal == Refuse(o, u)
  <2>1. BroughtIn(o, approval.travel, u, setting) \/ GrantedRequest(o, approval.travel, u, setting)
    BY Approves
  <2>2. BroughtIn(o, approval.travel, u, setting) => approval.raised
    <3>1. Awaits(o, setting) => approval.raised
      BY DEF Approve, Raised
    <3> QED BY <3>1 DEF BroughtIn
  <2>3. o.leave = "refuse" => refusal.raised
    BY DEF Refuse, Raised
  <2>4. CASE ApproveButton(late, u)
    <3>1. o.votes[u] # "none" /\ ~approval.raised /\ CommitRows(late, approval.travel, {})
      BY <2>4 DEF ApproveButton, Vote, Commit
    <3> QED BY <1>0, <2>1, <2>2, <3>1, VoteKeeps
  <2>5. CASE RefuseButton(late, u)
    <3>1. o.votes[u] # "none" /\ ~refusal.raised /\ CommitRows(late, refusal.travel, {})
      BY <2>5 DEF RefuseButton, Vote, Commit
    <3>2. Refuses(o, u) /\ RefusedBy(o, refusal.travel, u)
      BY <2>3, <3>1 DEF Refuses, RefusedBy
    <3> QED BY <1>0, <3>1, <3>2, VoteKeeps
  <2>6. CASE Bulk(late, u)
    <3>1. /\ o.votes[u] = "pending"
          /\ CommitRows(late, approval.travel, {}) \/ CommitRows(late, refusal.travel, {})
      BY <2>6 DEF Bulk, Commit
    <3>2. Refuses(o, u) /\ RefusedBy(o, refusal.travel, u)
      BY <3>1 DEF Refuses, RefusedBy
    <3> QED BY <1>0, <2>1, <3>1, <3>2, VoteKeeps
  <2> QED BY <1>4, <2>4, <2>5, <2>6
<1>5. CASE SaveExpense(late) \/ SignExpense(late) \/ RefuseExpense(late)
  <2>1. /\ o.expense # "none" \/ o.status = "approved"
        /\ \E e \in {"submitted", "hr_approved", "approved", "refused"} : CommitRows(late, [o EXCEPT !.expense = e], {})
    BY <1>5 DEF SaveExpense, SignExpense, RefuseExpense, Commit
  <2>2. PICK e \in {"submitted", "hr_approved", "approved", "refused"} : CommitRows(late, [o EXCEPT !.expense = e], {})
    BY <2>1
  <2> DEFINE new == [o EXCEPT !.expense = e]
  <2>3. o.status # "none"
    BY <1>1, <2>1 DEF Sound
  <2>4. new \in RequestRows /\ Billed(o, new, {})
    BY <1>1, <2>3 DEF RequestRows, Billed
  <2>5. CommitRows(late, new, {})
    BY <2>2
  <2> HIDE DEF new
  <2> QED BY <1>0, <2>4, <2>5, OtherKeeps
<1> QED BY <1>2, <1>3, <1>4, <1>5
-----------------------------------------------------------------------------
\* The invariant holds of a request that is not made yet.
LEMMA TravelInitially == TravelInit => TravelInv
<1> SUFFICES ASSUME TravelInit PROVE TravelInv
  OBVIOUS
<1>1. MaxSettings \in Nat
  BY TravelAssumption
<1>2. [u \in Approvers |-> "none"] \in [Approvers -> Votes]
  BY DEF Votes
<1>3. travel \in RequestRows /\ travel.status = "none" /\ travel.leave = "none" /\ travel.expense = "none"
      /\ \A u \in Approvers : travel.votes[u] = "none"
  BY <1>2 DEF TravelInit, RequestRows, Kinds
<1>4. Sound(travel) /\ Backed(travel, {})
  BY <1>3 DEF Sound, Backed
<1> QED BY <1>1, <1>4 DEF TravelInit, TravelInv

\* Every step keeps the invariant, and a journey abroad that a step approves has
\* the second approver's vote.
LEMMA TravelInductive ==
    TravelInv /\ [TravelNext]_travelVars
        => TravelInv' /\ (travel' # travel => Agreed(travel', withdrawn', setting))
<1> SUFFICES ASSUME TravelInv, [TravelNext]_travelVars
             PROVE  TravelInv' /\ (travel' # travel => Agreed(travel', withdrawn', setting))
  OBVIOUS
<1>1. CASE Begin
  <2>1. slow = <<>> /\ slow' = <<travel>> /\ missed' = {} /\ travel' = travel /\ setting' = setting /\ settings' = settings
        /\ withdrawn' = withdrawn
    BY <1>1 DEF Begin
  <2>2. Behind(travel, travel, {}, withdrawn, setting)
    BY DEF Behind, Moved
  <2>3. slow'[1] = travel
    BY <2>1
  <2>4. TravelInv' = (/\ setting' \in Settings /\ settings' \in 0..MaxSettings /\ missed' \subseteq AllRows
                      /\ Sound(travel') /\ Backed(travel', withdrawn')
                      /\ travel'.status = "none" => missed' = {}
                      /\ slow' = <<>> => missed' = {}
                      /\ slow' # <<>> => Sound(slow'[1]) /\ Behind(slow'[1], travel', missed', withdrawn', setting'))
    BY DEF TravelInv, Sound, Backed, Behind, Moved, AllRows
  <2> QED BY <2>1, <2>2, <2>3, <2>4 DEF TravelInv
<1>2. ASSUME NEW s \in Settings, Configure(s)
      PROVE  TravelInv' /\ (travel' # travel => Agreed(travel', withdrawn', setting))
  <2>1. MaxSettings \in Nat
    BY TravelAssumption
  <2>2. settings' \in 0..MaxSettings /\ setting' \in Settings /\ slow = <<>> /\ UNCHANGED <<travel, slow, missed, withdrawn>>
    BY <1>2, <2>1 DEF Configure, TravelInv
  <2> QED BY <2>2 DEF TravelInv, Sound, Backed
<1>3. ASSUME NEW late \in {l \in BOOLEAN : l => slow # <<>>},
             \/ \E kind \in Kinds : Save(late, kind) \/ Update(late, kind)
             \/ \E u \in Approvers : ApproveButton(late, u) \/ RefuseButton(late, u) \/ Bulk(late, u)
             \/ SaveExpense(late) \/ SignExpense(late) \/ RefuseExpense(late)
      PROVE  TravelInv' /\ Agreed(travel', withdrawn', setting)
  BY <1>3, PortalKeeps
<1>4. CASE UNCHANGED travelVars
  BY <1>4 DEF travelVars, TravelInv, Sound, Backed, Behind, Moved
<1> QED BY <1>1, <1>2, <1>3, <1>4 DEF TravelNext

\* The invariant holds always.
LEMMA TravelInvariant == TravelSpec => []TravelInv
<1>1. TravelInv /\ [TravelNext]_travelVars => TravelInv'
  BY TravelInductive
<1> QED BY <1>1, TravelInitially, PTL DEF TravelSpec

\* The rows and what a running transaction holds keep their types.
THEOREM TravelTypes == TravelSpec => []TravelTypeOK
<1>1. TravelInv => TravelTypeOK
  BY DEF TravelInv, TravelTypeOK, Sound, Backed, RequestRows, AllRows
<1> QED BY <1>1, TravelInvariant, PTL

\* A request that counts as approved was approved by everyone who was asked, also
\* when votes of any kind, a resubmission and the portal run into each other;
\* only who took it back while another vote was being cast does not stand by it.
THEOREM ApprovalIsAgreed == TravelSpec => []ApprovedByAll
<1>1. TravelInv => ApprovedByAll
  BY DEF TravelInv, ApprovedByAll, Backed
<1> QED BY <1>1, TravelInvariant, PTL

\* A refused request has no leave that is waiting or valid.
THEOREM RefusedStaysHome == TravelSpec => []RefusedHasNoLeave
<1>1. TravelInv => RefusedHasNoLeave
  BY DEF TravelInv, RefusedHasNoLeave, Sound
<1> QED BY <1>1, TravelInvariant, PTL

\* A journey abroad is not approved before the second approver has agreed, whoever
\* else votes at the same time; only in such an overlap can he have taken it back.
THEOREM AbroadIsApprovedTwice == TravelSpec => AbroadTwice
<1>1. TravelInv /\ [TravelNext]_travelVars
        => [travel.status # "approved" /\ travel'.status = "approved" /\ travel'.kind = "international" /\ setting.second # NoUser
              => travel'.votes[setting.second] = "approved" \/ setting.second \in withdrawn']_travelVars
  BY TravelInductive DEF Agreed
<1> QED BY <1>1, TravelInvariant, PTL DEF TravelSpec, AbroadTwice
=============================================================================
