SPECIFICATION MCSpec
CONSTANTS
  Pkgs <- MCPkgs
  Libs <- MCLibs
  Requested <- MCRequested
  Bases = {u, v}
  Binary = binary
  Olds <- MCOlds
  Ghosts <- MCGhosts
  Paths <- MCPaths
  Nothing = nothing
INVARIANT DeeperUnlessBroken
INVARIANT DependenciesFirst
INVARIANT AllOrphansFound
INVARIANT FilesMatch
INVARIANT ScriptsOnce
PROPERTY Returns
