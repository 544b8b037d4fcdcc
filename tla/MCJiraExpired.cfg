SPECIFICATION AppSpec
CONSTANTS
  Apps = {"jira"}
  Guilds = {1}
  Things = {1}
  Askers = {1}
  MaxGrants = 2
INVARIANT TokenHandedOutIsLive
CHECK_DEADLOCK FALSE
