---------------------------- MODULE MCDnsListing ----------------------------
(***************************************************************************)
(* Zones of 0 to 5 records read two at a time: empty, one short page, full *)
(* pages and a rest; two changes fall anywhere between the requests.       *)
(***************************************************************************)
EXTENDS DnsListing

MCItems == 1..6
MCInitialItems == {<<>>, <<1>>, <<1, 2>>, <<1, 2, 3>>, <<1, 2, 3, 4>>, <<1, 2, 3, 4, 5>>}
=============================================================================
