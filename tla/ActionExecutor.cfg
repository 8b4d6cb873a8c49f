SPECIFICATION Spec
CONSTANTS
  None = None
  Nothing = None
  Text <- SmallText
  Matches <- SmallText
  Job <- Jobs
  Processes = 2
  OutputLimit = 2
  PipeCapacity = 2
  MaxOutput = 4
INVARIANTS SuccessHonest NoChildLeft OutputHonest RefusedOnlyForKey TerminateComplete
PROPERTIES Returns
