SPECIFICATION Spec
CONSTANTS
  r1 = r1
  None = None
  A = A
  B = B
  Block <- MCBlock
  first <- MCfirst
  Representative = {p, q}
  root <- MCroot
  confirm_ack_hashes_max = 2
  max_cache = 1
  max_requests = 1
  max_channel_requests = 2
  delay = 1
  MaxTime = 2
  MaxCalls = 2
  MaxRestarts = 1
CHECK_DEADLOCK FALSE
INVARIANTS BroadcastRecorded 
PROPERTIES VotesSpaced CandidatesTaken
