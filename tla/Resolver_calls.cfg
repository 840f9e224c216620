SPECIFICATION FairSpec
CONSTANTS
  Threads = {t1, t2}
  Nobody = nobody
  MaxDomains = 2
INVARIANTS TypeOK AnswersOwn
PROPERTY CallsEnd
CHECK_DEADLOCK FALSE
