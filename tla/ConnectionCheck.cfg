\* Two requests of one pair of domains and one within a domain.
SPECIFICATION Spec
CONSTANTS
    Labels <- MCLabels
    Hosts <- MCHosts
    Addresses <- MCAddresses
    Requests <- MCRequests
    MaxOpen = 2
    StartupErrors = FALSE
INVARIANTS
    TypeOK
    LeaksAreApproved
    RejectionsHaveReasons
    DenialBinds
PROPERTIES
    StoredAnswersEndQuestions
