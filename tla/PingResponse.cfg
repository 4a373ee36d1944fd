SPECIFICATION Spec
CONSTANTS
    Responses <- ResponsesValue
    Host <- HostValue
    Section = "section"
    Codes = {"c", "l"}
    LeadByte = "head"
    TrailByte = "tail"
    PngUri = PngUri
    DataUri = DataUri
    Pad = Pad
    Foreign = Foreign
    Pictures <- PicturesValue
    Word = 65536
    MaxVersion = 3
    None = None
    MaxMotd = 4
    MaxVersionSent = 4
    MaxFavicon = 4
INVARIANTS TypeOK DecodeInBounds DecodesEveryFavicon MotdToldTwice BannerReadsBack
CHECK_DEADLOCK FALSE
