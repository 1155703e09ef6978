\* Playlists of up to six lines.
INIT PlaylistInit
NEXT PlaylistNext
CONSTANTS
  Missing = Missing
  PageSize = 1
  MaxLines = 6
INVARIANT VariantsOffered
CHECK_DEADLOCK FALSE
