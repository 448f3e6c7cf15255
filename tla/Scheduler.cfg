SPECIFICATION Spec
CONSTANTS
  Nodes = {"n1", "n2"}
  Tasks = {"t1", "t2", "t3"}
  Services = {"small", "big", "web", "single", "picky", "disk", "shared"}
  Specs <- MCSpecs
  Volumes <- MCVolumes
  Scenarios <- All
INVARIANTS
  WithinLimits
  PictureFollows
  NoneWaitsInVain
  AttachedRecorded
PROPERTIES
  DecisionsFinal
  UsedStaysPublished
  Detached
  Settles
CHECK_DEADLOCK FALSE
