SPECIFICATION FairSpec
CONSTANTS
  Text <- MCText
  Trim <- MCTrim
  Upper <- MCUpper
  Lower <- MCLower
  fqdn <- MCfqdn
  GITHUB_PAGES_IPS <- MCPagesIps
  FIDUCIA_PAGES_CNAME = "pages-host"
  FIDUCIA_EDGE_IP = "edge-ip"
  CloudflareNames <- MCCloudflareNames
  Inputs <- MCInputs
  Questions <- MCQuestions
  Contents <- MCContents
  MaxChanges = 2
  None = None
INVARIANTS TypeOK VerdictsWereTrue GreenMeansGreen
PROPERTIES EveryCheckReturns
