SPECIFICATION FairSpec
CONSTANTS
  Listings <- SmallListings
  Peers <- AllPeers
  Misquotes <- BadQuotes
  Home <- HomeAddress
  Aborts <- Cuts
  FirstMonth <- December
  LastMonth = 24300
CHECK_DEADLOCK FALSE
INVARIANTS TypeOK OkMeansComplete DialsTheServer
PROPERTIES DatesOffByClocks BehindByOne PassiveSaysSo Terminates ListingReturned
