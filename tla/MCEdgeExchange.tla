----------------------------- MODULE MCEdgeExchange -----------------------------
(***************************************************************************)
(* Small instances of EdgeExchange: a few sidecars that serve, and many    *)
(* configurations that differ from one of them in one place.               *)
(***************************************************************************)
EXTENDS EdgeExchange, TLC

CONSTANTS ka, kb, weak, secret, short, token, cheap, dear

TheNames == {cheap, dear}

----
(* The environment and the endpoints. *)
Url(scheme, host) == [scheme |-> scheme, host |-> host, bare |-> TRUE, checked |-> TRUE]
TlsName == Url("https", "name")
Plain == Url("http", "name")
Loopback == Url("http", "loopback")
Redis == Url("redis", "loopback")

TheEnvironment ==
  [KEY_A |-> ka, KEY_B |-> kb, EMPTY |-> Empty, TOKEN |-> token, SECRET |-> secret,
   SHORT |-> short, REDIS |-> Redis, REMOTE |-> Url("redis", "name")]

----
(* Configurations. *)
Site == [scheme |-> "https", exact |-> TRUE]
Elsewhere == [scheme |-> "https", exact |-> FALSE]

Static ==
  [upstream |-> Upstream(Plain), edge |-> [EdgeSettings EXCEPT !.allowed_origins = {Site}],
   exporter |-> ExporterSettings("log"),
   tenants |-> <<Tenant("a", ka, Absent), Tenant("b", Absent, "KEY_B")>>,
   control_plane |-> Absent, mpp |-> Absent, task_store |-> Absent]

Forwarding ==
  [Static EXCEPT !.edge.credential_forwarding = TRUE, !.edge.strict_protocol_version = TRUE,
                 !.edge.auth_failure_limit = Absent, !.task_store = TaskStore("REDIS")]

Quota ==
  [Static EXCEPT !.tenants = <<>>, !.control_plane = ControlPlane(TlsName, "TOKEN"),
                 !.exporter = ExporterSettings("control-plane")]

\* A challenge lives for a tick.
Paid ==
  [Quota EXCEPT !.mpp = [Mpp(ReplayStore("REDIS"), Facilitator(Loopback), "SECRET")
                           EXCEPT !.challenge_ttl_seconds = TickSeconds],
                !.edge.max_request_body_bytes = 1]

\* Intervals of zero are accepted: nothing is flushed, or refreshed, while the sidecar serves.
Serving ==
  {Static, Forwarding, Quota, Paid, [Static EXCEPT !.exporter.flush_interval_seconds = 0],
   [Quota EXCEPT !.control_plane.refresh_interval_seconds = 0]}

Unserved ==
  {[Static EXCEPT !.upstream.url.host = "none"],
   [Static EXCEPT !.upstream.url.scheme = "ftp"],
   [Static EXCEPT !.edge.max_connections = 0],
   [Static EXCEPT !.edge.body_timeout_seconds = 0],
   [Static EXCEPT !.edge.allowed_origins = {Elsewhere}],
   [Static EXCEPT !.edge.auth_failure_limit.window_seconds = 0],
   [Static EXCEPT !.tenants = <<>>],
   [Static EXCEPT !.tenants = <<Tenant("a", ka, Absent), Tenant("b", Absent, "KEY_A")>>],
   [Static EXCEPT !.tenants = <<Tenant("a", ka, "KEY_A")>>],
   [Static EXCEPT !.tenants = <<Tenant("a", Absent, "EMPTY")>>],
   [Static EXCEPT !.tenants = <<Tenant("a", weak, Absent)>>],
   [Static EXCEPT !.exporter.kind = "control-plane"],
   [Static EXCEPT !.control_plane = ControlPlane(TlsName, "TOKEN")],
   [Forwarding EXCEPT !.task_store.ttl_seconds = 0],
   [Forwarding EXCEPT !.task_store.url_env = "UNSET"],
   [Quota EXCEPT !.control_plane.url = Plain],
   [Quota EXCEPT !.control_plane.token_env = "EMPTY"],
   [Quota EXCEPT !.control_plane.max_stale_seconds = 30],
   [Static EXCEPT !.mpp = Paid.mpp],
   [Paid EXCEPT !.control_plane.enforce_quota = FALSE],
   [Paid EXCEPT !.mpp.challenge_ttl_seconds = 0],
   [Paid EXCEPT !.mpp.challenge_ttl_seconds = MaxSeconds],
   [Paid EXCEPT !.mpp.facilitator.url = Plain],
   [Paid EXCEPT !.mpp.facilitator.token_env = "EMPTY"],
   [Paid EXCEPT !.mpp.secret_env = "SHORT"],
   [Paid EXCEPT !.mpp.replay_store.url_env = "REMOTE"]}

TheConfigs == Serving \cup Unserved

\* One sidecar that enforces quota, for a call that comes while the cache changes.
OnlyQuota == {Quota}

----
(* Requests. *)
Tool(name) == [method |-> "tools/call", name |-> name]
List == [method |-> "tools/list", name |-> NoName]

Body(kind, call) == [kind |-> kind, call |-> call, size |-> 1, arrives |-> "whole"]

Modern ==
  [http |-> "POST", origins |-> <<Site>>, nominates |-> {"x-trace"}, keys |-> <<ka>>, revision |-> "validated",
   header |-> Tool(cheap), body |-> Body("call", Tool(cheap))]

Earlier == [Modern EXCEPT !.revision = "earlier", !.header = List]

TheRequests ==
  {Modern,
   [Modern EXCEPT !.keys = <<kb>>, !.header.name = Sentinel(cheap)],
   [Modern EXCEPT !.body.call = Tool(dear)],
   [Modern EXCEPT !.body.call = Tool(dear), !.nominates = Metadata],
   [Modern EXCEPT !.header.name = Sentinel(Garbled)],
   [Modern EXCEPT !.nominates = {Garbled}],
   [Modern EXCEPT !.origins = <<Site, Site>>],
   [Modern EXCEPT !.keys = <<>>],
   [Modern EXCEPT !.body.size = 2],
   [Modern EXCEPT !.body.arrives = "stalled"],
   [Modern EXCEPT !.body.arrives = "broken"],
   [Modern EXCEPT !.header = List, !.body.call = List],
   [Modern EXCEPT !.revision = "malformed"],
   [Earlier EXCEPT !.origins = <<>>],
   [Earlier EXCEPT !.body.kind = "notification"],
   [Earlier EXCEPT !.body.kind = "junk"],
   [Earlier EXCEPT !.http = "GET", !.body.kind = "empty"]}

OnlyModern == {Modern}

----
(* What the plane says: both tenants over their cap, of units or of spend; tenant a at its cap *)
(* but not over it, with the call of tenant b beyond price; key b revoked and a dearer.        *)
Unlimited == [max_units |-> Absent, max_spend_micros |-> Absent]
Spent(units, micros) == [units |-> units, spend_micros |-> micros]

Says(tenant, unit_price_micros) ==
  [tenant |-> tenant, prices |-> [names |-> (dear :> 3), methods |-> <<>>, default_units |-> 3],
   unit_price_micros |-> unit_price_micros, limits |-> Unlimited, committed |-> Spent(2, 9000)]

Units(says, max) == [says EXCEPT !.limits.max_units = max]
Spend(says, max) == [says EXCEPT !.limits.max_spend_micros = max]

\* Three units come to a little less than one, and to a little more than one, minor unit.
TheSnapshots ==
  {(ka :> Units(Says("a", 3000), 1)) @@ (kb :> Spend(Says("b", 3000), 8999)),
   (ka :> Spend(Units(Says("a", 4000), 2), 9000)) @@ (kb :> Units(Says("b", 50000), 0)),
   (ka :> Spend(Units(Says("a", 4000), 2), 8000))}

\* 2100-02-27T23:59:59Z; 2100 is no leap year, and a tick is a day and a second.
TheStart == <<47539, 86399>>
===============================================================================
