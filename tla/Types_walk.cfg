CONSTANTS
  Schema <- Blog
  Enums <- Roles
  Configs <- AllConfigs
  MaxLevel = 5
SPECIFICATION WalkSpec
CHECK_DEADLOCK FALSE
INVARIANT TypedKeysAreTaken
INVARIANT IncludesNestAsDocumented
