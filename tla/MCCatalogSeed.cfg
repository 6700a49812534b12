\* Three runs at once, and two edits of the catalogs.
CONSTANTS
  Seeders = {t1, t2, t3}
  Records <- SomeRecords
  EditRows <- SomeEdits
  MaxEdits = 2
SPECIFICATION FairSpec
INVARIANTS TypeOK NoDuplicates BaselineComplete
PROPERTIES RunsEnd
