SPECIFICATION Spec
CONSTANTS
    asker = asker
    helper = helper
    target = target
    Addr = {asker, helper, target}
    Prober = {asker}
    Target = {target}
    Helper = {helper}
    Restarting = {target}
    MaxGen = 1
    MaxSeq = 4
    MaxRelaySeq = 2
    NoProbe = NoProbe
INVARIANTS
    TypeOK
    AnsweredMeansAlive
    NothingLeftWaiting
