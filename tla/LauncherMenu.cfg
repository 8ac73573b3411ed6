SPECIFICATION MenuSpec
CONSTANTS
  Letters = {"a", "b", "A"}
  Lower <- MCLower
  Window = 4
  Farthest = 999
  Registry <- MCRegistry
  NoApp = NoApp
  PageSize = 2
  SearchMax = 4
INVARIANT WindowShowsSelection
PROPERTY SearchFindsNearest
