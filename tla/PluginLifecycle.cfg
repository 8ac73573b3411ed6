SPECIFICATION Spec
CONSTANTS
  Libs = {"a", "b", "c"}
  Files = {"b", "c"}
  Names = {"A", "B", "C"}
  Functions = {"f", "g"}
  Phases = 3
  Manifests <- MCManifests
  MaxPlugins = 3
  MaxFuncs = 2
  MaxDeps = 2
CHECK_DEADLOCK FALSE
INVARIANTS SortIsRight DependenciesUp InitedFindsAPIs
