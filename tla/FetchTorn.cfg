SPECIFICATION Spec
CONSTANTS
  MaxRows = 4
  MaxSize = 3
  MaxTorn = 2
  PrefetchAtLeast = 2
  Torn = Torn
PROPERTIES
  TornRowNotShown
