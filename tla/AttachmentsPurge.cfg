SPECIFICATION FilesSpec
CONSTANTS
  Keys = {u1, u2}
  Uploads = {u1, u2}
  Owners = {o1, o2}
  None = None
INVARIANT OnlyTemporaryPurged
CHECK_DEADLOCK FALSE
