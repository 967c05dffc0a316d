----------------------------- MODULE XSSDomains -----------------------------
(***************************************************************************)
(* When two hosts belong to one domain (netwerk/base/public/nsNetUtil.h),  *)
(* the question in front of every check for a connection.  A host is the   *)
(* sequence of its labels, www.google.at being <<"www", "google", "at">>.  *)
(*                                                                         *)
(* The code compares strings from the end and looks for the dot before the *)
(* part it compared; on labels that is a comparison of suffixes.           *)
(***************************************************************************)
EXTENDS Integers, Sequences

CONSTANTS
    Labels,   \* what stands between two dots
    Hosts,    \* the hosts of the URIs
    Addresses \* those of them that are IPv4 addresses

\* The part of a host that names its domain: all of it up to two labels.
DomainTail(host) ==
    IF Len(host) <= 2 THEN host ELSE SubSeq(host, Len(host) - 1, Len(host))

ASSUME HostsAssumption == \A h \in Hosts : h \in Seq(Labels) /\ Len(h) > 0
ASSUME AddressesAssumption == \A a \in Addresses : a \in Hosts /\ Len(a) = 4

\* No top-level domain is a number.
ASSUME NoNumericDomain ==
    \A a \in Addresses, h \in Hosts \ Addresses : DomainTail(a) # DomainTail(h)

EndsIn(host, tail) ==
    /\ Len(host) >= Len(tail)
    /\ SubSeq(host, Len(host) - Len(tail) + 1, Len(host)) = tail

\* Mutant: only the top-level domain is compared.
TopLevelEquals(this, other) ==
    IF this \in Addresses /\ other \in Addresses
    THEN this = other
    ELSE this[Len(this)] = other[Len(other)]

\* domainStrEquals: the tail of this host is compared with the end of the
\* other one, so the two sides are not treated alike.
DomainStrEquals(this, other) ==
    IF this \in Addresses /\ other \in Addresses
    THEN this = other
    ELSE EndsIn(other, DomainTail(this))

\* getDomainFromURI: the name under which answers are stored.
GetDomain(host) == IF host \in Addresses THEN host ELSE DomainTail(host)

\* A host with at least two labels.
Dotted(host) == Len(host) >= 2

=============================================================================
