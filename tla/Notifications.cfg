CONSTANTS
  mail = mail  chat = chat  t1 = t1  t2 = t2
  Apps <- MCApps
  Notices <- MCNotices
  InitialSettings <- MCSettings
  Threads <- MCThreads
  MaxNotices = 2
  MaxChanges = 2
  None = None
SPECIFICATION Spec
INVARIANTS ListIsStored OffIsSilent PicturesDoNoHarm
PROPERTIES ChoiceIsKept OrphansEnd
CHECK_DEADLOCK FALSE
