------------------------------ MODULE MCDnsResolver ------------------------------
(* Hosts and records for DnsResolver. *)
EXTENDS DnsResolver, TLC

CONSTANTS h1, h2

MCHosts == {h1, h2}
MCRecords == h1 :> <<"a", "b">> @@ h2 :> <<"c">>

\* Calls are interchangeable.
CallSymmetry == Permutations(Calls)
=============================================================================
