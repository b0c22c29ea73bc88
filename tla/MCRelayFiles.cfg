\* One browser tab, one edited field, one save, two restarts, two uploads.
SPECIFICATION Spec
CONSTANTS
  account = account
  secret = secret
  clipboard = clipboard
  relay = relay
  SettingsKeys <- McKeys
  Required <- McRequired
  Secrets <- McSecrets
  Entries <- McEntries
  Base <- McBase
  Saved <- McSaved
  Default <- McDefault
  Tabs = {t1}
  MaxEdited = 1
  MaxSaves = 1
  MaxRestarts = 2
  Unset = Unset
  Mask = Mask
  Files = {1, 2}
  Limit = 2
  MaxUploads = 2
  MaxFailures = 1
  Nowhere = Nowhere
CHECK_DEADLOCK FALSE
INVARIANTS
  TypeOK
PROPERTIES
  UneditedIsSeen
  EmptiedAll
  FilesArePurged
