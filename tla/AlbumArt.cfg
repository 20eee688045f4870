CONSTANTS
  local = local  web = web  r1 = r1  r2 = r2
  Urls <- MCUrls
  LocalUrls <- MCLocalUrls
  Responses <- MCResponses
  MaxRedirects = 2
  NoUrl = NoUrl
SPECIFICATION ArtSpec
INVARIANTS ArtTypeOK PicturesAreWhole FetchUnderWay
PROPERTIES CachedFilesStay WebFetchEnds
