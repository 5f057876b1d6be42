\* Three starts of three modules, two versions of each, one refusal.
CONSTANTS
  domain = domain
  user = user
  mail = mail
  Domain = Domain
  Alias = Alias
  User = User
  Modules = {domain, user, mail}
  Classes = {Domain, Alias, User}
  NoModule = NoModule
  UserModule = user
  Directory <- MCDirectory
  Requires <- MCCircle
  ClassesOf <- MCClassesOf
  ObjectsOf <- MCObjectsOf
  Reloads <- MCReloads
  MaxVersion = 2
  MaxStarts = 3
  MaxFaults = 1
SPECIFICATION Spec
INVARIANTS TypeOK LoadedOnce ClassesInStep CachedMeansImported StaleOnlyAfterUpgrade
