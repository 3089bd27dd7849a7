SPECIFICATION SystemSpec
CONSTANTS
  signup = signup
  project = project
  item1 = item1
  item2 = item2
  item3 = item3
  team = team
  notify = notify
  embed = embed
  Events = {signup, project, item1, item2}
  Listeners = {team, notify, embed}
  Inline = {embed}
  NoEvent = NoEvent
  Subscribed <- MCSubscribed
  Causes <- MCCauses
  Loads <- MCLoads
  BufferSize = 2
  WorkerCount = 1
  MaxRetries = 2
  MaxFailures = 1
  Limit = 1
PROPERTY GraceBeforeDrain
CHECK_DEADLOCK FALSE
