SPECIFICATION PagesSpec
SYMMETRY SourcesAlike
VIEW Distinguished
CONSTANTS
  Keys = {"site", "mask"}
  Unprintable = {"mask"}
  Sources = {s1, s2}
  Upstreams = {1}
  Ways <- TwoWays
  Values = {0, 1}
  FirstValue = 0
  MaxPriority = 1
  MaxRequests = 3
  Absent = Absent
  Empty = Empty
  CutOff = CutOff
  Default = Default
INVARIANT PagesTypeOK
INVARIANT SavedIsStored
INVARIANT AppliedIsStored
PROPERTY RulesStayApart
