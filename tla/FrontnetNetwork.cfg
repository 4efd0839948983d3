SPECIFICATION Spec
CONSTANTS Cores = {0, 1, 2, 3}
          Placements = {"outside", "start"}
INVARIANTS
  BuffersApart
  ComputesOnItsTile
  InputHeld
  TilingExact
PROPERTIES
  InferenceCompletes
