SPECIFICATION Spec
CONSTANTS
    U16 = 3
    U32 = 250
    U64 = 1300
    MinDeflate = 20
    Margin = 8
    SniffBytes = 32
    Piece = 100
    MaxZipEntries = 2
    MaxZipNames = 3
    MaxDirectory = 150
    EndSignature = 41
    WideSignature = 48
    MaxDownload = 3
    MaxNumber = 9
    W4 = 2
    W6 = 4
    Grouped = 1
    MaxEntries = 5
    MaxLength = 14
    Folders = {"d1", "d2"}
    Given = {"a", "b"}
    MaxDepth = 3
    MaxChanges = 2
    MaxPaths = 3
    MaxCodecs = 2
    HeaderBytes = 5
    HeadBytes = 3
    HeadLines = 1
    PdfWindow = 2
    ScanBytes = 4
    MaxPixels = 16
    MaxSource = 3
    Padding = 1
    Overhead = 1
    MaxIfds = 3
    MaxIfdDepth = 1
    MaxCandidates = 2
    MaxSegments = 3
    MaxChunks = 3
    Kibi = 2
    MaxU64 = 20
    MaxPreview = 4
    MaxRender = 8
    MaxUpload = 12
    MaxDecode = 8
    MaxCache = 8
    DecodeUnit = 2
    Leeway = 2
    Skew = 3
    MaxOffset = 3
    MaxWords = 3
    MaxI64 = 17
    Kilo = 2
    MaxScanned = 9
    MaxLimit = 2
    CompactMin = 3
    MaxMoves = 2
INVARIANTS ConfigIsSound AccountIsTheirs ResultsAreReal ListingIsWhole PicturesAreWhole PreviewsAreTrue WalkStaysInside ClientIsNotForged ZipIsExact DownloadsAreExact SettingsAreKept
CHECK_DEADLOCK FALSE
