SPECIFICATION Spec
CONSTANTS
    Manifests <- MCManifests
    Urls <- MCUrls
    BadHosts <- MCBadHosts
    Literals <- MCLiterals
    Answers <- MCAnswers
    Records <- MCRecords
    Methods = {"GET", "POST", "brew"}
    Statuses = {301, 303, 307}
    MaxRedirects = 2
    MaxBody = 1
    MaxSecrets = 2
INVARIANTS
    StaysWithinGrant
    CredentialStaysHome
    BodyFollowsStatus
PROPERTIES
    FetchEnds
