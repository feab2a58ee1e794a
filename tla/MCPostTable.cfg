SPECIFICATION TableSpec
CONSTANTS
    None = None
    NoCorrect = NoCorrect
    Reviewed = Reviewed
    MinimumStops <- MCMinimumStops
    Source <- MCSource
    Window <- MCWindow
    Weekday <- MCWeekday
    Packs <- MCPacks
INVARIANTS
    PostsAreSound
    NearestShareAPost
    AreasAreSound
    PositivesAreWholePosts
    EvidenceIsOfTheContext
