SPECIFICATION DataAssetSpec
CONSTANTS
    Uploads = {u1, m1}
    Earlier = {u1}
    UploadApis = {p1}
    NoApi = NoApi
    NoAsset = NoAsset
INVARIANT
    ResultsAreKept
CHECK_DEADLOCK FALSE
