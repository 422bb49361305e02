SPECIFICATION Spec
CONSTANTS
  Listings <- SmallListings
  Peers <- OnePeer
  Misquotes <- BadQuotes
  Home <- HomeAddress
  Aborts <- Cuts
  FirstMonth <- December
  LastMonth = 24300
CHECK_DEADLOCK FALSE
INVARIANT FilteredByExtension
