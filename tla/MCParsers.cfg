\* Two requests of sixteen on a connection, in every cut into reads; every
\* sequence of characters, two structures deep; every text of two bytes,
\* and of up to four with ends of lines in every form.
CONSTANTS
  Requests <- ManyRequests
  MaxStream = 2
  RootPath <- Page
  Configs <- MCConfigs
  LIBJSON_DEFAULT_STACK_SIZE = 1
  DomStackSize = 3
  MaxDepth = 2
  MaxData = 4
  Texts <- ShortTexts
  Beyond = {10, 65}
  Queries <- SomeQueries
  LenSize = 16
SPECIFICATION ParsersSpec
INVARIANTS
  AsMeant
  JsonRight
  LinesRight
  SearchRight
PROPERTIES
  AnsweredWhenWhole
  CommentsAreBlank
CHECK_DEADLOCK FALSE
