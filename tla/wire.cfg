SPECIFICATION FairSpec
CONSTANTS
  LEADER = LEADER
  CANDIDATE = CANDIDATE
  VOTER = VOTER
  TTL = 5
  SILENCE = 3
  MaxTime = 9
INVARIANTS OverlapIsOneTick
PROPERTIES AuthorityIsDisjoint MissedGrantIsFinal KnownLeadsToService
CHECK_DEADLOCK FALSE
