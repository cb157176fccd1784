SPECIFICATION Spec
CONSTANTS
  m = m
  n = n
  Users <- TheUsers
  Secrets = {"s1", "s2"}
  Passwords = {"pw"}
  Tokens = {"tok", "long"}
  TooLong = {"long"}
  Settings <- InstructedSettings
  Commits = {1, 2, 3, 4, 5}
  Parents <- TheParents
  Time <- TheTimes
  Walk <- TheWalks
  Patch <- ThePatches
  MaxPerPage = 2
  Names <- TwoNames
  MaxListed = 1
  Tips = {1, 4, 5}
  PerPages = {3}
  MaxPage = 4
  MaxLeft = 1
INVARIANTS
  InstructionsSuffice
