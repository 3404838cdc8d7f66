SPECIFICATION Spec
CONSTANTS
  Lace = 2
  MaxPacket = 3
  MaxTags = 3
  MaxCount = 8
  HeadLen = 2
  PageWord = 8
  Escape = 3
  WordBits = 4
  MaxSeg = 2
  Word = 16
  MaxFrame = 13
  MaxLength = 40
  MaxTime = 5760
  Packets <- PacketsAsked
  Scale = 8
  Inc = 4
  Cap = 12
  Block = 2
  FirstSize = 2
  HashSize = 64
  HashOf <- CollidingHash
  BinTag <- LowBits
  BinHash <- FirstSlot
  Bins = 8
  Chance = 64
  HeadBits = 1
  RawBits = 3
  LapWindow = 1
  LapWeight <- Weight
  PvqN = 4
  PvqK = 3
  PvqBad = 80
  PvqDepth = 2
  PvqFrom = 4
  ModelMax = 8
  SymbolRuns <- Symbols
INVARIANTS
  OpusComesBack
  PagesComeBack
  SoundPacked
  SymbolsComeBack
  TableIsMap
  CommentsComeBack
  TellsAgree
  MirrorReads
  AudioComesBack
  BooksBuilt
  FramingComesBack
  InStep
  FramesComeBack
CHECK_DEADLOCK FALSE
