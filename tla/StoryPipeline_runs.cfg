\* A scene of at most six ticks, a crossfade of two.
CONSTANTS
  Estimates <- FourEstimates
  MaxSentences = 4
  MaxSceneDuration = 6
  Transition = 2
SPECIFICATION StorySpec
INVARIANTS
  StoryTypes
  ResultIsHonest
  FilmFollowsText
\* A run that has returned is over.
CHECK_DEADLOCK FALSE
