SPECIFICATION FairSpec
CONSTANTS
    Tasks = {t1, t2}
    Handles = {h1, h2}
    NoTask = NoTask
INVARIANTS
  ListenerHearsOneStory
  ResourcesFollowBody
  SignalsAreHeard
PROPERTIES
  CancelEndsWaiting
