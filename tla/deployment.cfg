SPECIFICATION Spec
CONSTANTS
    Deploy = {d1, d2, d3}
    Release = {v1, v2, v3}
    NoRelease = NoRelease
INVARIANTS TypeOK NoLinkLeftBehind
PROPERTIES DocRootSwapsAtomically SwapInstallsOwn
SYMMETRY DeploymentSymmetry
