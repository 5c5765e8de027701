SPECIFICATION Spec
CONSTANTS
  Kind = "website"
  Blocks <- TwoBlocks
  Others <- OneOther
  LocalCopies <- KeepTwoOne
  RemoteCopies <- SendTwoThree
  Folders = {"name"}
  Folder <- OneFolder
  Typed = {0, 1}
  Limit = 4
  UnlinkMayFail = FALSE
  MaxStamp = 6
CHECK_DEADLOCK FALSE
INVARIANTS LocalBounded NewestLocalKept FolderHistoryKept
