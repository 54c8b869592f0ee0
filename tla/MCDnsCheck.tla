----------------------------- MODULE MCDnsCheck -----------------------------
(***************************************************************************)
(* The preset and single checks.  Each kind of check has a question whose  *)
(* answer varies (missing, right, wrong, right in another case); www and   *)
(* admin are as they should be throughout.                                 *)
(***************************************************************************)
EXTENDS DnsCheck

MCText == {"fiducia.cloud", "www.fiducia.cloud", "app.fiducia.cloud",
           "admin.fiducia.cloud", " fiducia.cloud", "fiducia.cloud.", "", " ", "fiducia",
           "squarespace", "pages-ip", "edge-ip", "other-ip", "pages-host", "PAGES-HOST",
           "cf-ns", "other-ns", "A", "a ", "NS", "SRV"}
MCTrim == [s \in MCText |->
  CASE s = " " -> "" [] s = " fiducia.cloud" -> "fiducia.cloud" [] s = "a " -> "a"
    [] OTHER -> s]
MCUpper == [s \in MCText \cup {"a"} |-> IF s = "a" THEN "A" ELSE s]
MCLower == [s \in MCText |-> IF s = "PAGES-HOST" THEN "pages-host" ELSE s]
MCfqdn == [s \in MCText |->
  CASE s \in {" fiducia.cloud", "fiducia.cloud."} -> "fiducia.cloud" [] OTHER -> s]

Input(name, type, values, preset) ==
  [name |-> name, type |-> type, values |-> values, preset |-> preset]

MCInputs ==
  {Input(None, None, None, "fiducia"),
   Input("fiducia.cloud", None, None, "squarespace"),
   Input("fiducia.cloud.", None, None, " "),
   Input(" fiducia.cloud", "a ", {"other-ip", "pages-ip"}, None),
   Input("fiducia.cloud", "NS", {}, ""),
   Input("fiducia.cloud", "SRV", None, None),
   Input(" ", None, None, None), Input(None, None, None, None)}
PresetOnly == {Input(None, None, None, "fiducia")}

MCQuestions == {<<"fiducia.cloud", "A">>, <<"fiducia.cloud", "CNAME">>,
                <<"www.fiducia.cloud", "CNAME">>, <<"app.fiducia.cloud", "A">>,
                <<"admin.fiducia.cloud", "A">>, <<"fiducia.cloud", "NS">>}
MCContents == [q \in MCQuestions |->
  CASE q = <<"fiducia.cloud", "A">> -> {{}, {"pages-ip", "other-ip"}, {"other-ip"}}
    [] q = <<"fiducia.cloud", "CNAME">> -> {{}, {"PAGES-HOST"}}
    [] q = <<"www.fiducia.cloud", "CNAME">> -> {{"pages-host"}}
    [] q = <<"app.fiducia.cloud", "A">> -> {{}, {"edge-ip"}}
    [] q = <<"admin.fiducia.cloud", "A">> -> {{"edge-ip"}}
    [] q = <<"fiducia.cloud", "NS">> -> {{"cf-ns"}, {"cf-ns", "other-ns"}}]
MCPagesIps == {"pages-ip"}
MCCloudflareNames == {"cf-ns"}
=============================================================================
