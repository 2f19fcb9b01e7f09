----------------------------- MODULE SidecarConfig -----------------------------
(***************************************************************************)
(* What the sidecar makes of its configuration (config.rs, and the start   *)
(* of serve() in main.rs): what it refuses, and what it builds from the    *)
(* sections it accepts.  A section or a value the file leaves out is       *)
(* Absent; secrets are named by the environment variable that holds them.  *)
(*                                                                         *)
(* A URL is what is asked of it: its scheme, whether its host is a literal *)
(* loopback address, a name or missing, and whether it is bare of userinfo, *)
(* query and fragment.  Parsing TOML is left out.                          *)
(***************************************************************************)
EXTENDS Naturals, Sequences, Functions

CONSTANTS
  Features,     \* of the build: a subset of {"tls", "redis"}
  Environment,  \* variable -> what it is set to
  Empty,        \* the empty value
  Weak,         \* keys that validate_api_key_strength() refuses
  Short,        \* values of fewer than 32 bytes
  BadPrefixes,  \* key prefixes a store does not accept
  MaxSeconds,   \* the farthest instant that can be represented, from now
  Absent

ASSUME ConfigAssumption ==
  /\ Features \subseteq {"tls", "redis"}
  /\ Empty \in Short /\ Absent \notin Range(Environment) /\ MaxSeconds \in Nat

DefaultMaxBody == 2   \* 1 MiB, for the gate and for the meter: bodies are measured coarsely

(***************************************************************************)
(* The sections, with the defaults of the fields a file may leave out.     *)
(***************************************************************************)
AuthFailureLimit(max_failures, window_seconds) ==
  [max_failures |-> max_failures, window_seconds |-> window_seconds]

EdgeSettings ==
  [max_connections |-> 128, header_timeout_seconds |-> 10, body_timeout_seconds |-> 30,
   allowed_origins |-> {}, shutdown_timeout_seconds |-> 10, strict_protocol_version |-> FALSE,
   credential_forwarding |-> FALSE, max_request_body_bytes |-> Absent,
   max_response_capture_bytes |-> Absent, meter_name |-> Absent, cache |-> Absent,
   auth_failure_limit |-> AuthFailureLimit(100, 60)]

Upstream(url) == [url |-> url, timeout_seconds |-> 300]

ExporterSettings(kind) == [kind |-> kind, flush_interval_seconds |-> 10]

ControlPlane(url, token_env) ==
  [url |-> url, token_env |-> token_env, refresh_interval_seconds |-> 30,
   max_stale_seconds |-> 900, timeout_seconds |-> 10, enforce_quota |-> TRUE]

TaskStore(url_env) ==
  [url_env |-> url_env, key_prefix |-> "mcp-usage", ttl_seconds |-> 86400, timeout_seconds |-> 2]

ReplayStore(url_env) ==
  [url_env |-> url_env, key_prefix |-> "mcp-usage-payments-v1", timeout_seconds |-> 2]

Facilitator(url) == [url |-> url, token_env |-> Absent, timeout_seconds |-> 20]

Mpp(replay_store, facilitator, secret_env) ==
  [replay_store |-> replay_store, realm |-> "realm", method |-> "method", intent |-> "charge",
   currency |-> "currency", recipient |-> "recipient", secret_env |-> secret_env,
   challenge_ttl_seconds |-> 300, facilitator |-> facilitator]

Tenant(id, api_key, api_key_env) == [id |-> id, api_key |-> api_key, api_key_env |-> api_key_env]
-------------------------------------------------------------------------------
(***************************************************************************)
(* Endpoints, origins, and values read from the environment.               *)
(***************************************************************************)
\* endpoint::validate(): secrets travel by TLS, or not beyond this machine.
Endpoint(url, allow_plaintext_upstream) ==
  /\ url.host # "none" /\ url.bare
  /\ \/ url.scheme = "https" /\ "tls" \in Features
     \/ url.scheme = "http" /\ (allow_plaintext_upstream \/ url.host = "loopback")

ValidOrigin(origin) == origin.scheme \in {"http", "https"} /\ origin.exact

Variable(name) == IF name \in DOMAIN Environment THEN Environment[name] ELSE Absent

\* Unset and empty are the same.
NonEmpty(name) == IF Variable(name) = Empty THEN Absent ELSE Variable(name)

Secret(name) == IF Variable(name) \in Short THEN Absent ELSE Variable(name)

\* An optional variable must hold something if it is named.
TokenResolves(name) == name # Absent => NonEmpty(name) # Absent
-------------------------------------------------------------------------------
(***************************************************************************)
(* Config::validate().                                                     *)
(***************************************************************************)
ValidTransport(c) ==
  /\ c.edge.max_connections # 0 /\ c.edge.header_timeout_seconds # 0
  /\ c.edge.body_timeout_seconds # 0
  /\ \A origin \in c.edge.allowed_origins : ValidOrigin(origin)

ValidAuthLimit(c) ==
  c.edge.auth_failure_limit # Absent => c.edge.auth_failure_limit.window_seconds # 0

OneTenantSource(c) == c.tenants = <<>> <=> c.control_plane # Absent

ValidPlane(c) ==
  IF c.control_plane = Absent THEN c.exporter.kind # "control-plane"
  ELSE /\ Endpoint(c.control_plane.url, FALSE)
       /\ c.control_plane.max_stale_seconds > c.control_plane.refresh_interval_seconds

PaymentsHavePlane(c) == c.control_plane # Absent

\* Only quota refuses, and only a refusal carries a challenge.
PaymentsCanHappen(c) == c.control_plane # Absent /\ c.control_plane.enforce_quota

ValidPayments(c) ==
  c.mpp # Absent =>
    /\ PaymentsCanHappen(c)
    /\ c.mpp.challenge_ttl_seconds # 0
    /\ Endpoint(c.mpp.facilitator.url, FALSE)
    /\ c.mpp.replay_store.timeout_seconds # 0
    /\ "redis" \in Features

ValidTaskStore(c) ==
  c.task_store # Absent => c.task_store.ttl_seconds # 0 /\ "redis" \in Features

Valid(c) ==
  /\ Endpoint(c.upstream.url, TRUE)
  /\ ValidTransport(c) /\ ValidAuthLimit(c) /\ OneTenantSource(c) /\ ValidPlane(c)
  /\ ValidPayments(c) /\ ValidTaskStore(c)
-------------------------------------------------------------------------------
(***************************************************************************)
(* Building the parts: each reads the environment, and checks once more.   *)
(***************************************************************************)
KeySource(t) ==
  CASE t.api_key # Absent /\ t.api_key_env = Absent -> t.api_key
    [] t.api_key = Absent /\ t.api_key_env # Absent -> NonEmpty(t.api_key_env)
    [] OTHER -> Absent

ResolveKey(t) == IF KeySource(t) \in Weak THEN Absent ELSE KeySource(t)

TenantsResolveByText(c) ==
  \A i \in DOMAIN c.tenants :
    /\ ResolveKey(c.tenants[i]) # Absent
    /\ \A j \in 1..(i - 1) :
         c.tenants[i].api_key = Absent \/ c.tenants[i].api_key # c.tenants[j].api_key

\* resolve_tenants(): no two entries may resolve to one key, wherever they have it from.
TenantsResolve(c) ==
  \A i \in DOMAIN c.tenants :
    /\ ResolveKey(c.tenants[i]) # Absent
    /\ \A j \in 1..(i - 1) : ResolveKey(c.tenants[i]) # ResolveKey(c.tenants[j])

\* The directory of an InMemoryTenantStore: a later entry replaces an earlier one.
Directory(c) ==
  [key \in {ResolveKey(t) : t \in Range(c.tenants)} |->
     LET holders == {i \in DOMAIN c.tenants : ResolveKey(c.tenants[i]) = key}
     IN c.tenants[CHOOSE i \in holders : \A j \in holders : j <= i].id]

PlaneClientBuilds(p) == Endpoint(p.url, FALSE) /\ p.timeout_seconds # 0

TenantSourceBuilds(c) ==
  IF c.control_plane = Absent THEN TenantsResolve(c)
  ELSE NonEmpty(c.control_plane.token_env) # Absent /\ PlaneClientBuilds(c.control_plane)

\* Plaintext to Redis is for the loopback only, and TLS has to check its certificate.
ReplayUrlIsSecure(url) ==
  \/ url.scheme = "rediss" /\ url.checked
  \/ url.scheme = "redis" /\ url.host = "loopback"

\* Letters, digits and separators, neither none nor too many.
ValidPrefix(prefix) == prefix \notin BadPrefixes

\* The server answers: whether it does is no matter of the configuration.
TaskStoreConnects(t) ==
  ValidPrefix(t.key_prefix) /\ t.ttl_seconds # 0 /\ t.timeout_seconds # 0

TaskStoreBuilds(c) ==
  c.task_store # Absent =>
    NonEmpty(c.task_store.url_env) # Absent /\ TaskStoreConnects(c.task_store)

FacilitatorBuilds(f) ==
  TokenResolves(f.token_env) /\ Endpoint(f.url, FALSE) /\ f.timeout_seconds # 0

ReplayBuilds(r) ==
  /\ NonEmpty(r.url_env) # Absent /\ ReplayUrlIsSecure(NonEmpty(r.url_env))
  /\ r.key_prefix \notin BadPrefixes /\ r.timeout_seconds # 0

\* Payments::new(): a challenge stays reserved for twice its lifetime.
RetainFor(mpp) == 2 * mpp.challenge_ttl_seconds

PaymentsBuild(c) ==
  c.mpp # Absent =>
    /\ FacilitatorBuilds(c.mpp.facilitator)
    /\ Secret(c.mpp.secret_env) # Absent
    /\ RetainFor(c.mpp) <= MaxSeconds
    /\ ReplayBuilds(c.mpp.replay_store)

\* UpstreamProxy::with_client() asks nothing of the URL that validate() has not.
ProxyBuilds(c) == Endpoint(c.upstream.url, TRUE)

ExporterBuilds(c) == c.exporter.kind = "control-plane" => c.control_plane # Absent

Builds(c) ==
  /\ TenantSourceBuilds(c) /\ ExporterBuilds(c) /\ TaskStoreBuilds(c) /\ PaymentsBuild(c)
  /\ ProxyBuilds(c)

\* edge_config(): an unset option keeps the layer's default.
OrDefault(value, default) == IF value = Absent THEN default ELSE value

MeterLimit(c) == OrDefault(c.edge.max_request_body_bytes, DefaultMaxBody)

\* The refresh task panics on an interval of zero, after the first snapshot.
Refreshes(c) == c.control_plane # Absent /\ c.control_plane.refresh_interval_seconds # 0

\* admission_gate().
EnforcesQuota(c) == c.control_plane # Absent /\ c.control_plane.enforce_quota

GateLimitDefault(c) == DefaultMaxBody

GateLimit(c) == OrDefault(c.edge.max_request_body_bytes, DefaultMaxBody)

TakesPayments(c) == c.mpp # Absent

\* task_store(): where attributions are kept.
Attributes(c) == IF c.task_store # Absent /\ "redis" \in Features THEN "shared" ELSE "process"
===============================================================================
