SPECIFICATION FairSpec
CONSTANTS
  Vips = {2, 3, 4, 5}
  DataPairs = {{5}, {2, 3}, {3, 4}, {4, 5}}
  LanPairs = {{3, 5}}
INVARIANTS TypeOK GamesTogether GamesApart RoomsNamed
PROPERTIES RoomsSplit
