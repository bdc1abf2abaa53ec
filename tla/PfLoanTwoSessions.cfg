CONSTANTS
    s1 = s1
    s2 = s2
    a1 = a1
    a2 = a2
    hr = hr
    trustee = trustee
    boss = boss
    Applications = {a1, a2}
    Sessions = {s1, s2}
    People = {hr, trustee, boss}
    Admin = boss
    Holders <- MCHolders
SPECIFICATION Spec
INVARIANT OneActiveApplication
