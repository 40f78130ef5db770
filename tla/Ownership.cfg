SPECIFICATION Spec
CONSTANTS MaxPid = 3 MaxServer = 2 Fences = {FALSE}
INVARIANTS RowCoherent LaunchOnce CleanupAuthority OneTreeAtDispatch OneSession EndedIsGone
PROPERTIES KeepsContract
