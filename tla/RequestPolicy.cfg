SPECIFICATION Spec
CONSTANTS
    None = None
    Environments <- MCEnvironments
    Settings <- MCSettings
    Families <- MCFamilies
    Manifests <- MCManifests
    Drafts <- MCDrafts
    Posts <- MCPosts
    Strip <- MCStrip
    Lower <- MCLower
    Hints <- MCHints
    MaxChanges = 1
INVARIANTS
    TypeOK
    NoSurprise
    NoFalseAlarm
    RevalidationAgrees
    SchemaAgrees
    CacheIsHonest
