SPECIFICATION Spec
CONSTANTS
  ClubAliases <- mcClubAliases
  LeagueAliases <- mcLeagueAliases
  Punctuation = {"."}
  RoleKeys <- mcRoleKeys
  LastDay = 20000
  PositionGroups = {"ATT", "MID", "DEF", "GK"}
  Roles = {"r1", "r2"}
  Slugs = {"b1", "b2", "endless"}
  LongWords = {"endless"}
  SortOptions = {"rolefit_desc", "rolefit_asc", "age_asc", "value_desc", "value_asc", "name_asc"}
  Composed <- mcComposed
  TextFilterMax = 2
  Keys = {"b1", "b2", "r1", "r2", "rolefit_desc", "rolefit_asc", "age_asc", "value_desc", "value_asc", "name_asc"}
  KnownPlaystyles = {"b1"}
  ControlWords = {"tab"}
  LabelMax = 2
  DEFAULT_PAGE_SIZE = 2
  Databases <- mcDatabases
  Links <- mcLinks
  SavedViews <- mcSavedViews
  Patches <- mcPatches
  SimilarLimit = 1
INVARIANTS CardsMeetTheRequest WalkIsComplete ViewIsCanonical DossierAgrees
PROPERTIES AddressFollowsTheAnswer
CHECK_DEADLOCK FALSE
