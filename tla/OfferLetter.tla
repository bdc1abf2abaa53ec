---------------------------- MODULE OfferLetter ----------------------------
(***************************************************************************)
(* One employment offer of aesl_hr_offer_letter, from the draft over the   *)
(* letter and the candidate's answer to the employee record.  HR's people  *)
(* work on pages that may be older than the offer; the buttons are those   *)
(* of the state a page shows.                                              *)
(*                                                                         *)
(* All fields of the offer are one value, its terms.  Notifications and    *)
(* the applicant's stage are left out.  The link is the same in every      *)
(* letter, so that the candidate may answer any of those he has.           *)
(***************************************************************************)
EXTENDS Naturals, Sequences

CONSTANTS Terms,                    \* what an offer may contain
          Officers,                 \* HR's people, one page each
          MaxLetters, MaxRevisions  \* bounds: letters mailed, revisions

VARIABLES
    offer,      \* [state, terms, revision, hired]; hired: an employee is linked
    shown,      \* the state that each page shows
    letters,    \* the terms of the letters that were mailed, in order
    answer,     \* which letter was accepted, and which was the newest then
    contracts   \* the terms of the contracts that were created

offerVars == <<offer, shown, letters, answer, contracts>>

ASSUME OfferAssumption == Terms # {} /\ {MaxLetters, MaxRevisions} \subseteq Nat

OfferStates == {"draft", "sent", "accepted", "rejected", "done", "cancel"}
-----------------------------------------------------------------------------
(* HR *)

OpenPage(o) == shown' = [shown EXCEPT ![o] = offer.state] /\ UNCHANGED <<offer, letters, answer, contracts>>

\* write: variants and the states in which the details cannot be modified.
Restricted_SentOnly == {"sent", "done"}
Restricted == {"sent", "accepted", "done"}

\* Saving the form: only a page on which the fields can be edited sends them.
EditOffer(o, terms) ==
    /\ shown[o] \notin {"sent", "accepted", "done"} /\ offer.state \notin Restricted
    /\ offer' = [offer EXCEPT !.terms = terms]
    /\ UNCHANGED <<shown, letters, answer, contracts>>

\* The letter is mailed before the state is written, and stays mailed when the
\* transaction fails afterwards.
SendOffer(o, fails) ==
    /\ shown[o] \in {"draft", "rejected"} /\ Len(letters) < MaxLetters
    /\ letters' = Append(letters, offer.terms)
    /\ offer' = IF fails THEN offer ELSE [offer EXCEPT !.state = "sent"]
    /\ shown' = [shown EXCEPT ![o] = offer'.state]
    /\ UNCHANGED <<answer, contracts>>

ReviseOffer(o) ==
    /\ shown[o] \in {"rejected", "sent"} /\ offer.state \in {"rejected", "sent"}
    /\ offer.revision < MaxRevisions
    /\ offer' = [offer EXCEPT !.state = "draft", !.revision = @ + 1]
    /\ shown' = [shown EXCEPT ![o] = "draft"]
    /\ UNCHANGED <<letters, answer, contracts>>

CancelOffer(o) ==
    /\ shown[o] \notin {"done", "cancel"}
    /\ offer' = [offer EXCEPT !.state = "cancel"] /\ shown' = [shown EXCEPT ![o] = "cancel"]
    /\ UNCHANGED <<letters, answer, contracts>>
ResetOffer(o) ==
    /\ shown[o] \notin {"draft", "done"}
    /\ offer' = [offer EXCEPT !.state = "draft"] /\ shown' = [shown EXCEPT ![o] = "draft"]
    /\ UNCHANGED <<letters, answer, contracts>>

Hirable == offer.state = "accepted" /\ ~offer.hired

CreateEmployee(o) ==
    /\ shown[o] = "accepted" /\ Hirable
    /\ contracts' = Append(contracts, offer.terms)
    /\ offer' = [offer EXCEPT !.state = "done", !.hired = TRUE] /\ shown' = [shown EXCEPT ![o] = "done"]
    /\ UNCHANGED <<letters, answer>>
-----------------------------------------------------------------------------
(* The candidate, from the link of a letter *)

AcceptOffer(i) ==
    /\ offer.state = "sent"
    /\ offer' = [offer EXCEPT !.state = "accepted"]
    /\ answer' = [read |-> i, newest |-> Len(letters)]
    /\ UNCHANGED <<shown, letters, contracts>>

RejectOffer ==
    /\ letters # <<>> /\ offer.state \in {"sent", "draft"}
    /\ offer' = [offer EXCEPT !.state = "rejected"]
    /\ UNCHANGED <<shown, letters, answer, contracts>>
-----------------------------------------------------------------------------
OfferInit ==
    /\ offer \in [state : {"draft"}, terms : Terms, revision : {0}, hired : {FALSE}]
    /\ shown = [o \in Officers |-> "draft"] /\ letters = <<>> /\ contracts = <<>>
    /\ answer = [read |-> 0, newest |-> 0]

OfferNext ==
    \/ RejectOffer
    \/ \E i \in DOMAIN letters : AcceptOffer(i)
    \/ \E o \in Officers :
          \/ OpenPage(o) \/ ReviseOffer(o) \/ CancelOffer(o) \/ ResetOffer(o) \/ CreateEmployee(o)
          \/ \E terms \in Terms : EditOffer(o, terms)
          \/ \E fails \in BOOLEAN : SendOffer(o, fails)

OfferSpec == OfferInit /\ [][OfferNext]_offerVars
-----------------------------------------------------------------------------
\* The type invariant.
OfferTypeOK ==
    /\ offer \in [state : OfferStates, terms : Terms, revision : 0..MaxRevisions, hired : BOOLEAN]
    /\ shown \in [Officers -> OfferStates] /\ Len(letters) <= MaxLetters
    /\ letters \in Seq(Terms) /\ contracts \in Seq(Terms)
    /\ answer \in [read : 0..MaxLetters, newest : 0..MaxLetters]

\* An offer makes one contract, also when it is reset, sent and accepted again,
\* with the terms of the letter that was the newest when the candidate accepted,
\* whatever pages HR has open, however often the offer is revised, and if sending
\* it fails after the mail.  Who accepts from that letter is hired as he agreed;
\* the link of an older one accepts the newest terms as well.
HiredAsMailed ==
    [][contracts' # contracts => contracts = <<>> /\ contracts' = <<letters[answer.newest]>>]_offerVars
=============================================================================
