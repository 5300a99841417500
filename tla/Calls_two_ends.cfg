\* Two calls between two users: two of a, or one of each crossing.  The connections of
\* a gather a candidate, for the call it places and for the one it answers.
CONSTANTS
  a = a
  b = b
  NoCall = NoCall
  User <- MCUser
  Talks <- MCTalks
  MaxCalls <- MCMaxCalls
  MaxPlaced = 2
  MaxCandidates <- MCMaxCandidates
SPECIFICATION FairSpec
CHECK_DEADLOCK FALSE
INVARIANT SameCall
INVARIANT CandidatesComplete
INVARIANT MediaReleased
PROPERTY LiveCallKept
 
