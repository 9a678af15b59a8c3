\* Three kinds of interaction, two requests, three POSTs.
SPECIFICATION Spec
CONSTANTS
  t1 = t1
  t2 = t2
  t3 = t3
  alice = alice
  bob = bob
  openid = openid
  profile = profile
  api = api
  offline = offline
  Tabs = {t1, t2, t3}
  Users = {alice, bob}
  UserOf <- MCUserOf
  Owner = alice
  IdentityScopes = {openid, profile}
  ApiScopes = {api}
  Required = {openid}
  OfflineAccess = offline
  Requests <- MCRequests
  MaxPosts = 3
SYMMETRY Symmetry
INVARIANTS TypeOK DecisionsAreAnnounced AuditTellsOutcome OnlyTheOwnerIsAsked GrantIsNeverEmpty ChoicesAreKept SuccessMeansTaken
