SPECIFICATION FairSpec
CONSTANTS
  Calls = {c1}
  Uses = {u1}
  CallOf <- UsesOfOneCall
  Instances = {i1, i2}
  Retries = 2
  Workers = 2
  NoUse = NoUse
INVARIANTS TypeOK OkIsTrue StoppedIsReported AnsweredIsOver BatchIsWaitedFor
PROPERTY CallEnds
CHECK_DEADLOCK FALSE
