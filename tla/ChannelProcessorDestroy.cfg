SPECIFICATION Spec
CONSTANTS
  s1 = s1
  s2 = s2
  Sources = {s1, s2}
  ShapesOf <- OneShape
  Configs <- AnyUpdate
  MaxFrame = 1
  MaxFrames = 1
  MaxSamples = 2
  MaxOutputs = 1
  MaxQueued = 2
INVARIANTS NotifyBeforeDestroy
