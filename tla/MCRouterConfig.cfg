SPECIFICATION Spec
CONSTANTS
  Order <- InOrderOfPriority
  Prefixed <- TenLikeOne
  InOrder <- Countries
  Databases <- Start
  MaxEdits = 1
INVARIANTS SoundOrClash EachItsOwnWay ShortWayAgrees
