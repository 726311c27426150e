SPECIFICATION Spec
CONSTANTS
  pluginPortMin = 50100
  pluginPortMax = 50102
  EmptySpec <- MCEmptySpec
  Choices <- MCChoices
INVARIANTS
  OnePortOneContainer CallsAreAnswered MountsHaveVolumes NeedsAreEnsured
  StepsOwnTheirObjects ExposedIsReachable DatabaseIsTrusted
