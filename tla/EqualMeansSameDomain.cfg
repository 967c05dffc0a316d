\* A request within a domain and one of a host without a dot.
SPECIFICATION Spec
CONSTANTS
    Labels <- MCLabels
    Hosts <- MCHosts
    Addresses <- MCAddresses
    Requests <- DotlessRequests
    MaxOpen = 1
    StartupErrors = FALSE
INVARIANT EqualMeansSameDomain
