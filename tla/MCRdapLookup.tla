---------------------------- MODULE MCRdapLookup ----------------------------
(***************************************************************************)
(* Lookups over bodies with a cap of 5 bytes in a usize of 3 bits: a chunk *)
(* of 3 bytes or more can overflow the sum with a full buffer, and lengths *)
(* of 5 and 6 lie on both sides of the cap.  The domains meet each check   *)
(* of validate_domain from both sides.                                     *)
(***************************************************************************)
EXTENDS RdapLookup

Part(size) == [size |-> size, ldh |-> TRUE, upper |-> size = 7]
Empty == Part(0)
Odd == [size |-> 3, ldh |-> FALSE, upper |-> FALSE]

MCDomains ==
  {<<Part(7), Part(5)>>, <<Part(7), Part(5), Empty, Empty>>, <<Part(251), Part(1)>>,
   <<Part(252), Part(1)>>, <<Empty>>, <<Empty, Empty>>, <<Part(7), Empty, Part(5)>>,
   <<Empty, Part(5)>>, <<Odd, Part(5)>>}

MCText == {"registry", "domain", "other", "owner", "first", "second", "h0", "h1", "h2",
           "2020", "2030", "2031"}

MCLocations ==
  {[host |-> "registry", path |-> "domain"],
   [host |-> None, path |-> "domain"],
   [host |-> None, path |-> "other"]}

Someone(registrar, fn, handle) == [registrar |-> registrar, fn |-> fn, handle |-> handle]
Ends(date) == [expiration |-> TRUE, date |-> date]
Began == [expiration |-> FALSE, date |-> "2020"]

MCDocuments ==
  {[entities |-> <<>>, events |-> <<>>],
   [entities |-> <<Someone(FALSE, "owner", None), Someone(TRUE, None, None),
                   Someone(TRUE, None, "h1"), Someone(TRUE, "second", "h2")>>,
    events |-> <<Began, Ends("2030"), Ends("2031")>>],
   [entities |-> <<Someone(FALSE, "owner", "h0"), Someone(TRUE, "first", "h1")>>,
    events |-> <<Ends(None), Ends("2031")>>],
   [entities |-> <<Someone(FALSE, "owner", None)>>, events |-> <<Began>>]}
=============================================================================
