---------------------------- MODULE MCMeterService ----------------------------
(***************************************************************************)
(* A small instance of MeterService for TLC: two credentials of tenants    *)
(* with different prices read two resources, one cheap and one dear.       *)
(***************************************************************************)
EXTENDS MeterService, TLC

CONSTANTS k1, k2, e1, e2, cheap, dear

TwoExchanges == {e1, e2}
TwoCredentials == {k1, k2}

Read(name) == [method |-> "resources/read", name |-> name]
Ping == [method |-> "ping", name |-> NoName]

TheQuestions == {Read(cheap), Read(dear)}

Ask(credential, call) ==
  [credential |-> credential, revision |-> "validated", header |-> call, body |-> call,
   continuation |-> FALSE]

\* Each credential reads a resource; one of them also continues a round trip, names the
\* cheap resource in its headers while its body reads the dear one, and speaks an earlier revision.
TheRequests ==
  {Ask(k1, Read(cheap)), Ask(k2, Read(cheap)), Ask(k2, Read(dear)),
   [Ask(k1, Read(cheap)) EXCEPT !.continuation = TRUE],
   [Ask(k1, Read(dear)) EXCEPT !.header = Read(cheap)],
   [Ask(k1, Ping) EXCEPT !.revision = "earlier", !.header = Read(cheap)]}

\* A client that asks whether its session is alive.
OnlyPing == {Ask(k1, Ping)}

ThePrices ==
  k1 :> [default_units |-> 1, names |-> dear :> 3, methods |-> "ping" :> 2]
    @@ k2 :> [default_units |-> 1, names |-> <<>>, methods |-> "resources/read" :> 2]

TheHints == {[scope |-> "private", ttl |-> 3], [scope |-> "public", ttl |-> 1]}

ServiceSymmetry == Permutations(Exchanges)
===============================================================================
