SPECIFICATION WebSpec
CONSTANTS
  Submitters = {alice, bob}
  Nothing = Nothing
  MaxDepth = 2
  Codenames = {"view_asset", "add_submissions", "view_submissions", "change_submissions", "delete_submissions", "validate_submissions"}
  Limit = 4
  MaxRevisions = 1
  Surveys = {v1, v2}
  Collections = {c1, c2}
  Languages = {"en", "fr", "pl"}
  Unset = Unset
  MaxRequests = 2
  Downloads = {v1, v2}
  Filenames = {c1, c2}
  MaxKeys = 2
SYMMETRY Interchangeable
INVARIANTS WebTypeOK SearchIsRight FiltersAreRight ContentIsRight
CHECK_DEADLOCK FALSE
