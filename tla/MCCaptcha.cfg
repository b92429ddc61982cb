\* Every boot configuration, one change under a running process, two visitors
\* who may send the same token.
SPECIFICATION Spec
CONSTANTS
    v1 = v1
    v2 = v2
    a = a
    c1 = c1
    Addresses = {v1, v2, a}
    Visitors = {v1, v2}
    Challenges = {c1}
    Configs <- AllConfigs
    ClientLines <- SpoofedLines
    MaxChanges = 1
SYMMETRY Symmetry
INVARIANTS
    TypeOK
    LookupsArePaidFor
    HonestVisitorsGetThrough
    BypassMeansSecretChanged
    AddressIsVouchedFor
