\* Two tabs, three clients, up to two sign-ins.
SPECIFICATION Spec
CONSTANTS
  alice = alice
  bob = bob
  Tabs = {t1, t2}
  Users = {alice, bob}
  Clients = {web, native, extern}
  NativeClients = {native}
  ExternalOnly = {extern}
  ConsentClients = {native}
  PostLogoutClients = {web}
  IdpOf <- MCIdpOf
  MaxSessions = 2
INVARIANTS TypeOK ReturnsToItsClient LoggedOutIsLoggedOut
PROPERTIES SignOutIsAsked CancelIsHonoured NobodyIsStranded
