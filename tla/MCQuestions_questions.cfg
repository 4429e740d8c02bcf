SPECIFICATION Spec
CONSTANTS
  Runs = {one, two}
  Requests <- MCRequests
  Skills <- MCSkills
  Plugins <- MCPlugins
  Allowlist <- MCAllowlist
  Tools <- MCTools
  Calls <- MCCalls
  NoRequest = NoRequest
  MaxPosts = 2
  MaxSteps = 1
INVARIANTS
  QueuesAreWaits
  OfferIsJustified
  NamedSkillsAreOffered
PROPERTIES
  AbortEndsRun
CHECK_DEADLOCK FALSE
