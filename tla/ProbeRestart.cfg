SPECIFICATION Spec
CONSTANTS
    asker = asker
    helper = helper
    target = target
    Addr = {asker, helper, target}
    Prober = {asker}
    Target = {target}
    Helper = {helper}
    Restarting = {asker}
    MaxGen = 1
    MaxSeq = 2
    MaxRelaySeq = 1
    NoProbe = NoProbe
INVARIANTS
    AnsweredMeansAlive
