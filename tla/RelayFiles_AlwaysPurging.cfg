\* The smallest instance: one save, one restart, nothing edited.
SPECIFICATION Spec
CONSTANTS
  account = account
  secret = secret
  clipboard = clipboard
  relay = relay
  SettingsKeys <- McKeys
  Required <- McRequired
  Secrets <- McSecrets
  Entries <- McEntries
  Base <- McBase
  Saved <- McSaved
  Default <- McDefault
  Tabs = {t1}
  MaxEdited = 0
  MaxSaves = 1
  MaxRestarts = 1
  Unset = Unset
  Mask = Mask
  Files = {1, 2}
  Limit = 2
  MaxUploads = 2
  MaxFailures = 1
  Nowhere = Nowhere
CHECK_DEADLOCK FALSE
INVARIANT
  AlwaysPurging
