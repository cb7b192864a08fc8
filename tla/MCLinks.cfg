SPECIFICATION ContentSpec
CONSTANTS
  Feeds <- SomeFeeds
  Answers <- SomeAnswers
  Odd = Odd
  DetailLimit <- SomeDetailLimit
  FullLimit <- SomeFullLimit
  BlockLimit <- SomeBlockLimit
  MaxChars = 1800
  ChunkChars = 420
  MaxChunks = 6
  MaxLinks = 5
INVARIANTS LinksWhole
