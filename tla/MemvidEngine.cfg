CONSTANTS
  Parts = {"sidecar", "put", "search", "reading", "chunking", "tables", "time", "anchor"}
  Users = {"default", "other"}
  Default = "default"
  Memories = {"m1", "m2"}
  Scopes = {"private"}
  Days = {0, 8}
  TopK = 1
  Contents = {"note", "book", "blob"}
  Binary = {"blob"}
  PutOptions = {{}, {"instant", "embedLater"}}
  LongText = {"book"}
  Telling = {"note"}
  Dims = {2, 3}
  AutoCheckpoint = 3
  PutLimit = 6
  Words <- SearchWords
  Stem <- StemW
  PartOf <- PartOfW
  Variants <- VariantsW
  Abstract = {"now"}
  Modifiers = {"now"}
  Alike <- Overlapping
  Notes <- NotesW
  Corrections = {"correction"}
  CorrectionPattern = "correction/*"
  Queries <- QueriesW
  Questions <- QuestionsW
  MinResults = 1
  MaxNotes = 3
  Inputs <- Documents
  Uris <- UriSet
  MaxFrames = 4
  MaxQueue = 3
  Cases <- ChunkCases
  Plain <- PlainTexts
  Width <- Widths
  Bytes <- Widths
  ChunkMax = 7
  HeaderSlack = 1
  OverlapLines = 2
  PlainMax = 3
  PlainSlack = 1
  PieceLimit = 6
  Pdfs <- PdfDocs
  Options <- TableOptions
  TextWithin <- InnerTexts
  FileKey <- Keys
  StoreLimit = 2
  Phrases <- AskedPhrases
  Moments <- Clocks
  Offsets <- Zones
  MaxDocs = 2
  TextChunks <- DatedChunks
  DocumentDates = {738800}
  MaxRead = 2
SPECIFICATION Spec
INVARIANT RestartAgrees
INVARIANT IndexesAgree
INVARIANT CorrectionsAndExtremes
 
 
 
PROPERTY DeletedStaysGone
CHECK_DEADLOCK FALSE
