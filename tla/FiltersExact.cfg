SPECIFICATION FiltersSpec
CONSTANTS
  Codenames = {"view_asset", "add_submissions", "view_submissions", "change_submissions", "delete_submissions", "validate_submissions"}
  Submitters = {"alice", "bob"}
INVARIANTS FiltersExact
CHECK_DEADLOCK FALSE
