CONSTANTS
    m = m
    g = g
    o = o
    i = i
    t = t
    Sources = {t}
    Fsms = {m, g}
    Outs = {o}
    Ins = {i}
    Designs <- MCDesigns
    Profiles <- MCProfiles
    MaxScans = 2
SPECIFICATION Spec
INVARIANT KissAccounted
INVARIANT ResultsRight
