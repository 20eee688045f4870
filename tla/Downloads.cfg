CONSTANTS
  d1 = d1  d2 = d2  d3 = d3  a = a
  Downloads <- MCDownloads
  Names <- MCNames
  MaxSuffix = 4
  MaxBytes = 1
SPECIFICATION Spec
SYMMETRY MCSymmetry
INVARIANTS TypeOK ReceivedFilesStay NotesAreTrue
PROPERTIES FilesKept
CHECK_DEADLOCK FALSE
