CONSTANTS
  LastDate = 4
  Inputs <- MCRegistry
  Days <- MCDays
  Reference = 2
  GvdStart = 2
  GvdEnd = 3
SPECIFICATION Spec
INVARIANTS
  TableKept
  NoDateLost
  OneVersionPerDate
  TripsNeverMeet
  PriorityWins
  TripIdsChangeByExpiry
