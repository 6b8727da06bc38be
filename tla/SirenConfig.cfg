\* Every file with one thing odd about it, as the user's and as the backup.
CONSTANTS
  Fields <- AllKeys
  UserFiles <- AllFiles
  BackupFiles <- AllFiles
SPECIFICATION Spec
CHECK_DEADLOCK FALSE
INVARIANTS
  TypeOK
  ConfigFromOneFile
  NothingLeftUnset
  ListensProperly
