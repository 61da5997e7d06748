\* Two databases besides the system's, two tables, one backup directory.
CONSTANTS
  Databases = {d1, d2}
  System = ruanko
  Tables = {t1, t2}
  Paths = {p}
  None = None
SPECIFICATION CatSpec
INVARIANTS
  CatTypeOK
  NamesDistinct
  AcknowledgedKept
  DirectoryKept
PROPERTY
  CopiesExact
