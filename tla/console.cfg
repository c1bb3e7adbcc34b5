SPECIFICATION FairConsoleSpec
CONSTANTS
  null = null
  Seed <- SomeCards
  PageSize = 1
  Filters <- SomeFilters
  Sorts <- SomeSorts
  Buttons <- SomeButtons
  Durations = {null}
  MaxCards = 2
  MaxDays = 1
  MaxCalls = 2
INVARIANTS TableCurrent
PROPERTIES SessionlessLeaves
CHECK_DEADLOCK FALSE
