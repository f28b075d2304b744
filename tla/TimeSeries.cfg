SPECIFICATION SeriesSpec
CONSTANTS
  TokenOrder <- MCTokenOrder
  All = All
  Units = {"minute", "hour", "day", "week"}
  Limits = {1, 2}
  Hours = {1, 2, 180, 216}
  Width = 2
  Start = 4
  Stop = 5
  MaxRows = 3
INVARIANTS
  TokenSeriesExact
  PointsAreTrue
