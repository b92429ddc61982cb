\* Two configurations that boot, and that do not change under the process.
SPECIFICATION Spec
CONSTANTS
    v1 = v1
    v2 = v2
    a = a
    c1 = c1
    Addresses = {v1, v2, a}
    Visitors = {v1, v2}
    Challenges = {c1}
    Configs <- ForeignConfigs
    ClientLines <- SpoofedLines
    MaxChanges = 0
INVARIANT MisconfigurationIsNotABadCaptcha
