SPECIFICATION Spec
CONSTANTS
  None = None
  BadRegex = BadRegex
  SensitiveKeys = {"token"}
  ListLimit = 2
  FieldLimit = 2
  PromotableLimit = 3
  Environments <- MCEnvironments
  ConfigFiles <- MCConfigFiles
  RuleFiles <- MCRuleFiles
  DefaultRules <- MCDefaultRules
  ToolCalls <- MCToolCalls
  Secrets <- MCSecrets
INVARIANTS
  GarbageChangesNothing
  EnvironmentWins
  NothingBlocksUnasked
  RulesAgree
  StricterNeverWeaker
  EventsAreClean
  
