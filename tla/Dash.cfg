\* Two polls that may overlap against two publications, health probes, a user
\* who holds and lets go, and a network that comes back.
SPECIFICATION FairSpec
CONSTANTS
  MaxPublish = 2
  Request = {r1, r2}
  NoPayload = NoPayload
INVARIANTS
  AnswerSkew
  HealthAgrees
  HeldIsNewer
PROPERTIES
  NeverGoesBack
  StoppedIsShown
  LastGenerationIsShown
