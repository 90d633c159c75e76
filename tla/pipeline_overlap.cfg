SPECIFICATION Spec
CONSTANTS
  Jobs = {j1, j2}
  Kinds <- CoveringKinds
  Configs = {v1, v2}
  None = None
SYMMETRY Symmetry
INVARIANTS TypeOK NoMixedProgram SoleJobConsistent
