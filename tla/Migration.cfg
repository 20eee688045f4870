CONSTANTS
  p1 = p1  p2 = p2  config = config  cert = cert  key = key  dotfile = dotfile  inside = inside
  Processes <- MCProcesses
  Files <- MCFiles
  Dirs <- MCDirs
  Top = 2
  Dir <- MCDir
  Rank <- MCRank
  Cert = cert
  Key = key
  HiddenFiles <- MCHiddenFiles
  HiddenDirs <- MCHiddenDirs
  Faults <- MCFaults
SPECIFICATION Spec
INVARIANTS NothingLost IdentityKept
