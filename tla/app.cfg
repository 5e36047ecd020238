SPECIFICATION FairVpnApp
INVARIANTS VpnAppTypeOK StopIsFinal EveryTunnelEnds CredentialWiped SavedKeyKnown NonceKept
PROPERTIES SignedInOrder StartSettles
CHECK_DEADLOCK FALSE
CONSTANTS
  Attempt = {a1, a2}
  OldKey = OldKey
  None = None
  Platforms = {"android", "ios"}
  RequiredAds = 1
  MaxRetry = 1
  Ad = {ad1, ad2, ad3, ad4}
  NoAd = NoAd
