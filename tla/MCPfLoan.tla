------------------------------ MODULE MCPfLoan ------------------------------
EXTENDS PfLoan

CONSTANTS s1, s2, a1, a2, hr, trustee, boss

\* For a1 everyone has one stage and HR two, which double clicks may sign in
\* one go; for a2 no head of department was found and the trustee is the
\* finance officer too.  The administrator may replace HR and the trustee.
MCHolders ==
    [a \in Applications |->
        [q \in Waiting |->
            CASE q = "draft"           -> {hr}
              [] q = "waiting_hod"     -> IF a = a1 THEN {boss} ELSE {}
              [] q = "waiting_finance" -> IF a = a1 THEN {hr} ELSE {trustee}
              [] OTHER                 -> {trustee}]]
=============================================================================
