-------------------------- MODULE DocumentRequest --------------------------
(***************************************************************************)
(* One document request of aesl_hr_document_request: HR asks an employee   *)
(* for a file and a signature; what the portal receives is stamped,        *)
(* approved and copied to the Documents application.                       *)
(*                                                                         *)
(* Files and signatures are numbered in the order they are sent, 0 is none. *)
(* The picture of a stamp is left out: a file that cannot be read is not   *)
(* stamped, and the error is only logged.                                  *)
(***************************************************************************)
EXTENDS Integers

CONSTANTS Unreadable,              \* the files that cannot be stamped
          MaxFiles, MaxSignatures  \* bounds: files and signatures sent

VARIABLES
    request,    \* [state, file, signature, stamped]
    document,   \* the file of the linked document; -1: there is none
    stamps,     \* the signatures stamped on each file
    sent        \* [files, signatures]: how many the employee sent

docVars == <<request, document, stamps, sent>>

ASSUME DocumentAssumption == {MaxFiles, MaxSignatures} \subseteq Nat

Files == 1..MaxFiles
-----------------------------------------------------------------------------
\* action_stamp_signature.  Variant: a request is stamped once.
Stamped_Once(r, marks) ==
    IF r.file # 0 /\ r.signature # 0 /\ r.file \notin Unreadable /\ ~r.stamped
    THEN [marks EXCEPT ![r.file] = @ \cup {r.signature}] ELSE marks
Stamped(r, marks) ==
    IF r.file # 0 /\ r.signature # 0 /\ r.file \notin Unreadable
    THEN [marks EXCEPT ![r.file] = @ \cup {r.signature}] ELSE marks
WithStamp(r) ==
    IF r.file # 0 /\ r.signature # 0 /\ r.file \notin Unreadable THEN [r EXCEPT !.stamped = TRUE] ELSE r

\* The linked document gets the file, or one is made.  Variant: it is only made.
Synced_New(r, d) == IF r.file # 0 /\ d = -1 THEN r.file ELSE d
Synced(r, d) == IF r.file # 0 THEN r.file ELSE d

Approved(r) ==
    /\ request' = [WithStamp(r) EXCEPT !.state = "approved"]
    /\ stamps' = Stamped(r, Stamped(r, stamps))
    /\ document' = Synced(r, document)
-----------------------------------------------------------------------------
(* HR *)

\* The Documents application asks: the request is pending and has a document.
RequestInit ==
    /\ \/ request = [state |-> "draft", file |-> 0, signature |-> 0, stamped |-> FALSE] /\ document = -1
       \/ request = [state |-> "pending", file |-> 0, signature |-> 0, stamped |-> FALSE] /\ document = 0
    /\ stamps = [f \in Files |-> {}]
    /\ sent = [files |-> 0, signatures |-> 0]

SendRequest ==
    /\ request.state = "draft"
    /\ request' = [request EXCEPT !.state = "pending"]
    /\ UNCHANGED <<document, stamps, sent>>

ApproveRequest == request.state = "pending" /\ Approved(request) /\ UNCHANGED sent

\* The methods ask for no state; the page may be older than the request.
RejectRequest ==
    /\ request' = [request EXCEPT !.state = "rejected"]
    /\ UNCHANGED <<document, stamps, sent>>
ResetRequest ==
    /\ request' = [request EXCEPT !.state = "draft"]
    /\ UNCHANGED <<document, stamps, sent>>

StampButton ==
    /\ request.file # 0 /\ request.signature # 0
    /\ request' = WithStamp(request) /\ stamps' = Stamped(request, stamps)
    /\ document' = IF request.file \notin Unreadable /\ document # -1 THEN request.file ELSE document
    /\ UNCHANGED sent
-----------------------------------------------------------------------------
\* The employee's form is posted in any state, with a file, a signature, both
\* or neither: what is sent replaces what was there, is submitted and, in the
\* same transaction, approved.
PostForm(withFile, signed) ==
    LET files == sent.files + (IF withFile THEN 1 ELSE 0)
        signatures == sent.signatures + (IF signed THEN 1 ELSE 0)
        received == [request EXCEPT !.file = IF withFile THEN files ELSE @,
                                    !.signature = IF signed THEN signatures ELSE @]
    IN /\ files <= MaxFiles /\ signatures <= MaxSignatures
       /\ sent' = [files |-> files, signatures |-> signatures]
       /\ Approved(received)

RequestNext ==
    \/ SendRequest \/ ApproveRequest \/ RejectRequest \/ ResetRequest \/ StampButton
    \/ \E withFile, signed \in BOOLEAN : PostForm(withFile, signed)

RequestSpec == RequestInit /\ [][RequestNext]_docVars
-----------------------------------------------------------------------------
\* The type invariant.
DocumentTypeOK ==
    /\ request \in [state : {"draft", "pending", "approved", "rejected"}, file : 0..MaxFiles,
                    signature : 0..MaxSignatures, stamped : BOOLEAN]
    /\ document \in -1..MaxFiles
    /\ stamps \in [Files -> SUBSET (1..MaxSignatures)]
    /\ sent \in [files : 0..MaxFiles, signatures : 0..MaxSignatures]

\* The document in the Documents application is the file the employee sent
\* last, however often the request is rejected, reset and answered again.
DocumentFollows == request.file # 0 => document = request.file

\* An approved file bears the signature that was given last, whether it came
\* with the file, before it or after it.
SignatureOnFile ==
    request.state = "approved" /\ request.file # 0 /\ request.signature # 0 /\ request.file \notin Unreadable
        => request.signature \in stamps[request.file]
=============================================================================
