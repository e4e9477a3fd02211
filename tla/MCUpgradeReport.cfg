SPECIFICATION Spec
CONSTANTS
  Components = {"firefly", "evmconnect", "tezosconnect", "tokens"}
  Used = {"firefly", "evmconnect"}
  Images <- MCImages
  NoImage = "no image"
  OtherImages = {"ipfs"}
  LocalImages = {"core local"}
  Releases <- MCReleases
  ManifestOf <- MCManifestOf
  LabelOf <- MCLabelOf
  InitManifests <- MCInitManifests
  MaxRetries = 1
INVARIANT UpgradeReportsItsRelease
