\* The instance of ConnectionCheck.
SPECIFICATION Spec
CONSTANTS
    Labels <- MCLabels
    Hosts <- MCHosts
    Addresses <- MCAddresses
    Requests <- MCRequests
    MaxOpen = 1
    StartupErrors = FALSE
PROPERTY AlwaysEndsQuestions
