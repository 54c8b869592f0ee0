----------------------------- MODULE MCProcess -----------------------------
(***************************************************************************)
(* Starts with every kind of ciphertext and endpoint, and sessions of two  *)
(* calls with room for one span in the queue.                              *)
(***************************************************************************)
EXTENDS Process, TLC

MCNames == {"SOPS_REQUIRE_KEY", "SOPS_AGE_KEY", "SOPS_AGE_KEY_FILE", "SOPS_SECRETS_FILE",
            "_ORES_SOPS_KEY", "_ORES_SOPS_X", "LD_PRELOAD", "FIDUCIA_FLAGS_CONFIG", "RUST_LOG",
            "OTEL_RESOURCE_ATTRIBUTES", "POD_NAME", Endpoint}
MCReserved == {"_ORES_SOPS_KEY", "_ORES_SOPS_X"}

Urls == {"http://c:4317", "https://c/v1", "https://u:p@c", "https://c?t=s", "https://c#f", "file:///o"}
Keys == {"team", "zone", "tier"} \cup DOMAIN Service
        \cup {EnvAttribute[n] : n \in DOMAIN EnvAttribute}
MCText == Urls \cup Keys
  \cup {"", " ", " https://c/v1 ", "not a url", "1", "0", "yes", "key", "/app/secrets/app.env",
        "info", "error", "[bad", "pod-0", " pod-0 ", "spoof", "pairs", "long", "first", "second",
        "http", "https", "file", "f", "/missing", "tab"}

MCTrim == [t \in MCText |-> CASE t = " https://c/v1 " -> "https://c/v1"
                              [] t = " pod-0 " -> "pod-0" [] t = " " -> "" [] OTHER -> t]
MCSize == [t \in MCText |-> IF t = "long" THEN 9000 ELSE 20]
MCControls == {"tab"}

Base == [scheme |-> "https", host |-> TRUE, user |-> FALSE, password |-> FALSE,
         query |-> FALSE, fragment |-> FALSE]
MCUrl == [t \in MCText |->
  CASE t = "http://c:4317" -> [Base EXCEPT !.scheme = "http"]
    [] t \in {"https://c/v1", "long", "tab"} -> Base
    [] t = "https://u:p@c" -> [Base EXCEPT !.user = TRUE, !.password = TRUE]
    [] t = "https://c?t=s" -> [Base EXCEPT !.query = TRUE]
    [] t = "https://c#f" -> [Base EXCEPT !.fragment = TRUE]
    [] t = "file:///o" -> [Base EXCEPT !.scheme = "file", !.host = FALSE]
    [] OTHER -> None]

Says(k, v) == [key |-> k, value |-> v]
MCPairsOf == [t \in MCText |->
  IF t = "pairs"
  THEN <<Says("service.name", "spoof"), Says("team", "first"), Says("k8s.pod.name", "spoof"),
         Says("team", "second"), Says("zone", "first"), Says("tier", "first")>>
  ELSE <<>>]

Holds(k, v) == [form |-> "pair", key |-> k, value |-> v]
Comment == [form |-> "skipped", key |-> "RUST_LOG", value |-> ""]
Malformed == [form |-> "malformed", key |-> "RUST_LOG", value |-> ""]
Found(file, helpers, plaintext) ==
  [command |-> TRUE, file |-> file, helpers |-> helpers, plaintext |-> plaintext]

MCSetups ==
  {Found("missing", TRUE, None), Found("other", TRUE, None), Found("regular", FALSE, None),
   Found("regular", TRUE, None), [Found("missing", TRUE, None) EXCEPT !.command = FALSE],
   Found("regular", TRUE, <<Comment, Holds("LD_PRELOAD", "f"), Holds(Endpoint, "https://c/v1"),
                            Holds("POD_NAME", "pod-0")>>),
   Found("regular", TRUE, <<Holds(Endpoint, "https://u:p@c"), Comment, Holds("RUST_LOG", "error")>>),
   Found("regular", TRUE, <<Holds(Endpoint, "https://c/v1"), Malformed>>),
   Found("regular", TRUE, <<Holds(Endpoint, "https://c/v1"), Holds(Endpoint, "http://c:4317")>>),
   Found("regular", TRUE, <<Holds(Endpoint, "https://c/v1"), Holds("_ORES_SOPS_X", "f")>>),
   Found("regular", TRUE, <<Holds("9", "f")>>)}

Identity == "SOPS_AGE_KEY" :> "key"
MCEnvironments ==
  {<<>>,
   "SOPS_REQUIRE_KEY" :> "1",
   "SOPS_REQUIRE_KEY" :> "yes",
   Identity @@ "_ORES_SOPS_KEY" :> "f" @@ "SOPS_SECRETS_FILE" :> "",
   Identity @@ Endpoint :> " " @@ "POD_NAME" :> "",
   Identity @@ Endpoint :> "long", Identity @@ Endpoint :> "tab",
   Identity @@ Endpoint :> " https://c/v1 " @@ "OTEL_RESOURCE_ATTRIBUTES" :> "pairs"
     @@ "POD_NAME" :> " pod-0 " @@ "RUST_LOG" :> "[bad",
   "SOPS_AGE_KEY_FILE" :> "f" @@ "RUST_LOG" :> "info" @@ "FIDUCIA_FLAGS_CONFIG" :> "/missing"}

MCArgvs ==
  {[wellformed |-> TRUE, flags |-> <<>>], [wellformed |-> FALSE, flags |-> <<>>],
   [wellformed |-> TRUE, flags |-> "RUST_LOG" :> "error"],
   [wellformed |-> TRUE, flags |-> "RUST_LOG" :> "[bad"]}
=============================================================================
