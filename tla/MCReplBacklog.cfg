SPECIFICATION Spec
CONSTANTS
  Sizes = {1, 3, 4}
  Starts = {0, 7}
  MaxFeed = 6
  MaxOffset = 20
INVARIANT SendsTheStream
