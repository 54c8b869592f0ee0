-------------------------- MODULE MCCloudflareDns --------------------------
(***************************************************************************)
(* Small instances of CloudflareDns: one zone, known by id and by name, a  *)
(* padded and lower-case spelling of a type, arguments that each check     *)
(* refuses, ids of 32 and 31, 128 and 129 characters.                      *)
(***************************************************************************)
EXTENDS CloudflareDns, TLC

MCText == {"z1", "shortHex", "example.com", " example.com", "other.org", "z9",
           " a", "a", "A", "MX", "NS", "TXT", "", " ", "www", "www ",
           "1.1.1.1", "2.2.2.2", "r1", " r1", "r2", "r3", "../x", "longId"}

MCTrim == [s \in MCText |->
  CASE s = " example.com" -> "example.com" [] s = " a" -> "a" [] s = " " -> ""
    [] s = "www " -> "www" [] s = " r1" -> "r1" [] OTHER -> s]

MCUpper == [s \in MCText |-> IF s = "a" THEN "A" ELSE s]

MCLength == [s \in MCText |->
  CASE s \in {"z1", "z9"} -> 32 [] s = "shortHex" -> 31 [] s = "" -> 0
    [] s = "longId" -> 129 [] s = "r3" -> 128 [] OTHER -> 7]

MCHexText == {"z1", "z9", "shortHex", "", "a", "A"}
MCOpaqueText == MCText \ {"../x", " example.com", "example.com", "other.org",
                          " a", " ", "www ", " r1", "1.1.1.1", "2.2.2.2"}

Upsert(z, t, n, x, prox) ==
  [zone |-> z, record_type |-> t, name |-> n, content |-> x,
   ttl |-> None, proxied |-> prox]

\* Two contents for one type and name, under two spellings of zone and type.
Competing == {Upsert("z1", " a", "www ", "1.1.1.1", None),
              Upsert(" example.com", "A", "www", "2.2.2.2", TRUE)}

Refused == {Upsert("z1", "NS", "www", "1.1.1.1", None),
            Upsert("z1", "TXT", "www", " ", None),
            Upsert("other.org", "A", "www", "1.1.1.1", None),
            Upsert("z9", "A", "www", "1.1.1.1", None),
            Upsert("shortHex", "A", "www", "1.1.1.1", None)}

MCUpsertParams ==
  Competing \cup Refused \cup {Upsert("z1", "MX", "www", "1.1.1.1", TRUE)}
FewUpsertParams == Competing \cup {Upsert("z1", "MX", "www", "1.1.1.1", TRUE)}

MCDeleteParams ==
  {[zone |-> "z1", record_id |-> " r1"], [zone |-> "example.com", record_id |-> "r2"],
   [zone |-> "z1", record_id |-> "../x"], [zone |-> "z1", record_id |-> "longId"],
   [zone |-> "z1", record_id |-> "r3"], [zone |-> "z1", record_id |-> " "]}
FewDeleteParams == {[zone |-> "z1", record_id |-> " r1"]}
NoDeletes == {}

MCZoneName == [z \in {"z1"} |-> "example.com"]

Holding(content) ==
  [zone |-> "z1", body |-> [type |-> "A", name |-> "www", content |-> content,
                            ttl |-> 1, proxied |-> FALSE]]
Empty == [r \in RecordIds |-> Free]
One == [Empty EXCEPT !["r1"] = Holding("1.1.1.1")]
Two == [One EXCEPT !["r2"] = Holding("2.2.2.2")]

EmptyOnly == {Empty}
EmptyOrOne == {Empty, One}
AnyStart == {Empty, One, Two}

CallSymmetry == Permutations(Calls)
=============================================================================
