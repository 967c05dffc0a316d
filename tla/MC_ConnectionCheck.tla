------------------------- MODULE MC_ConnectionCheck -------------------------
(***************************************************************************)
(* XSSConnectionCheck on a small instance for TLC: a bank with two hosts,  *)
(* a shop below the same top-level domain, and an intranet host without a  *)
(* dot that calls a host below it.                                         *)
(***************************************************************************)
EXTENDS XSSConnectionCheck

MCLabels == {"www", "bank", "at", "shop", "intra", "app", "10", "0", "1", "2"}

Bank    == <<"bank", "at">>
WwwBank == <<"www", "bank", "at">>
Shop    == <<"shop", "at">>
Intra   == <<"intra">>
App     == <<"app", "intra">>
Router  == <<"10", "0", "0", "1">>
Printer == <<"10", "2", "0", "1">>

MCHosts == {Bank, WwwBank, Shop, Intra, App, Router, Printer}
MCAddresses == {Router, Printer}

Request(a, b) == [caller |-> a, called |-> b]

\* Two requests of one pair of domains and one within a domain.
MCRequests == {Request(WwwBank, Shop), Request(Bank, Shop), Request(Bank, WwwBank)}

\* A request within a domain and one of a host without a dot.
DotlessRequests == {Request(Bank, WwwBank), Request(Intra, App)}
=============================================================================
