SPECIFICATION SortSpec
CONSTANTS
  Part <- Parts
  MaxDepth = 3
  MaxChecks = 4
INVARIANT ShallowFirst
