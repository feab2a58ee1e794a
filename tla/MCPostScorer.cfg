SPECIFICATION ScorerSpec
CONSTANTS
    Contexts <- MCContexts
    Candidates <- MCCandidates
    Weighted = {"a", "b"}
    TargetPrecision <- MCTargetPrecision
    PostGrid <- MCPostGrid
    AreaGrid <- MCAreaGrid
    Unknown <- MCUnknown
    Regions <- MCRegions
    Fold <- MCFold
    Labellings <- MCLabellings
    FirstOpinions <- MCFirstOpinions
    SecondOpinions <- MCSecondOpinions
    FirstBeliefs <- MCFirstBeliefs
    SecondBeliefs <- MCSecondBeliefs
INVARIANTS
    NoLeakage
    StopsPooledOnce
    CalibratedShares
    OwnBeliefIsNoEvidence
