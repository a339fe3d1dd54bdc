CONSTANTS
  gateway = gateway rig = rig r1 = r1 r2 = r2 r3 = r3
  Default = "Default" AllPeers = "All"
  AclGroups <- TwoGroups
  AclPolicies <- TwoPolicies
  WantDefault = FALSE
  Runs = {r1, r2, r3}
  Command <- AppliesAndOff
  AtOnce = 1
  LatePeers = {rig}
  MaxEdits = 1
  first = first second = second custom = custom bare = bare
  s1 = s1 s2 = s2 bad = bad
  Stock <- Holds
  IsoRuns = 3
  RigRuns = 4
  Isos = {first, second, custom, bare}
  Live = {first, second}
  InOutDir = {second, custom}
  Secrets = {s1, s2, bad}
  Good = {s1, s2}
  Cut = Cut
  None = None
  Models = {m1, m2}
  Keys = {k1, k2}
  Placeholder = Placeholder
  Empty = Empty
SPECIFICATION InfraSpec
INVARIANTS CreatedOnce AppliedFits AppliedIsClean CheckedFlowsWork ImagesRight SetupRight
PROPERTY KeyKeptUnlessCut
CHECK_DEADLOCK FALSE
