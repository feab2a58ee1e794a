CONSTANTS
    TimeResolution = 1
    MaximumEdits = 3
    MinimumAgreement = 60
    SameEndpoints = TRUE
    TripTiers <- MCTiers
    Dates <- MCDates
    Day = 24
    BaseRoute <- MCBaseRoute
    SourceRoute <- MCSourceRoute
    LabelVariants <- MCLabelVariants
    AuthorityModes <- MCAuthorityModes
    NativeModes <- MCNativeModes
    Scopes <- MCScopes
    MinimumTier <- MCMinimumTier
    BaseTimetables <- MCBaseTimetables
    SourceTimetables <- MCSourceTimetables
SPECIFICATION Spec
INVARIANTS
    WithheldKeepsNational
    ShownOnce
    NoneLost
    AvailabilityExclusive
PROPERTY RoundsSettle
