SPECIFICATION FairSpec
CONSTANTS
  note = note
  sheet = sheet
  scan = scan
  bomb = bomb
  p1 = p1
  p2 = p2
  NoFile = NoFile
  Files = {note, sheet, bomb}
  Unreadable = {}
  Poison = {bomb}
  Retained = {sheet, bomb}
  Uploads = {p1, p2}
  MaxDocs = 2
  MaxAttempts = 2
  MaxReindexes = 1
  MaxFaults = 1
INVARIANTS TypeOK SpoolKeptForReindex AttemptsBounded DeletedStaysGone
PROPERTIES AcceptedNotFailed KeepsPromise UploadsSettle
CHECK_DEADLOCK FALSE
