---------------------------- MODULE ResponseCache -----------------------------
(***************************************************************************)
(* ResponseCache (mcp-usage-tower, cache.rs): answers of the origin, kept  *)
(* under the question and the credential that asked it, or under the       *)
(* question alone when the origin declares them public and the edge shares *)
(* such answers.  get and insert each run under one lock.                  *)
(*                                                                         *)
(* An entry is not removed when it expires: get drops the expired entries  *)
(* it meets, insert sweeps the others when the table is full.              *)
(***************************************************************************)
EXTENDS Naturals, FiniteSets, Functions

CONSTANTS
  Questions,    \* what the logical key hashes: a cacheable call and its parameters
  Credentials,  \* authorization contexts: digests of API keys
  Shared,       \* the owner of an entry every credential may read
  MaxEntries,   \* max_entries
  MaxTTL,       \* max_ttl
  SharePublic   \* share_public

ASSUME CacheAssumption ==
  /\ MaxEntries \in Nat /\ MaxTTL \in Nat
  /\ SharePublic \in BOOLEAN
  /\ Shared \notin Credentials

VARIABLES
  now,
  entries  \* CacheKey -> its entry, for the keys that have one

CacheKey == [logical : Questions, owner : Credentials \cup {Shared}]

Private(question, credential) == [logical |-> question, owner |-> credential]
Public(question) == [logical |-> question, owner |-> Shared]

Kept == DOMAIN entries
Live(key) == key \in Kept /\ entries[key].expires_at > now
Expired(key) == key \in Kept /\ entries[key].expires_at <= now

CacheInit == entries = <<>>
-------------------------------------------------------------------------------
(***************************************************************************)
(* get: the caller's own entry while it is live, else the shared one.      *)
(***************************************************************************)
ReadableByAnyone(question, credential) == {k \in Kept : k.logical = question /\ Live(k)}

Readable(question, credential) ==
  IF Live(Private(question, credential)) THEN {Private(question, credential)}
  ELSE {k \in {Public(question)} : Live(k)}

\* The keys it looks at; it stops at a live one.
Examined(question, credential) ==
  IF Live(Private(question, credential)) THEN {Private(question, credential)}
  ELSE {Private(question, credential), Public(question)}

AfterGet(question, credential) ==
  Restrict(entries, Kept \ {k \in Examined(question, credential) : Expired(k)})
-------------------------------------------------------------------------------
(***************************************************************************)
(* insert: where the entry lands decides what it supersedes.  A full table *)
(* is swept first, and gives up its oldest entry if that made no room; of  *)
(* entries of one age, whichever the map yields first.                     *)
(***************************************************************************)
Landing(question, credential, scope) ==
  IF scope = "public" /\ SharePublic THEN Public(question) ELSE Private(question, credential)

Swept == IF Cardinality(Kept) >= MaxEntries THEN {k \in Kept : Live(k)} ELSE Kept

SupersededNone(key) == {}

Superseded(key) ==
  IF key.owner = Shared THEN {k \in Kept : k.logical = key.logical /\ k.owner # Shared}
  ELSE {Public(key.logical)}

Oldest(keys) ==
  {k \in keys : \A other \in keys : entries[k].inserted_at <= entries[other].inserted_at}

SurvivorsUnswept(key) ==
  LET rest == Kept \ Superseded(key) IN
  IF key \in rest \/ Cardinality(rest) < MaxEntries THEN {rest}
  ELSE {rest \ {victim} : victim \in Oldest(rest)}

\* The sets of older entries that may be left beside the new one.
Survivors(key) ==
  LET rest == Swept \ Superseded(key) IN
  IF key \in rest \/ Cardinality(rest) < MaxEntries THEN {rest}
  ELSE {rest \ {victim} : victim \in Oldest(rest)}

Lifetime(ttl) == IF ttl <= MaxTTL THEN ttl ELSE MaxTTL

Insert(question, credential, scope, ttl, response) ==
  LET key == Landing(question, credential, scope) IN
  IF Lifetime(ttl) = 0 \/ MaxEntries = 0
  THEN UNCHANGED entries
  ELSE \E rest \in Survivors(key) :
         entries' = [k \in rest \cup {key} |->
                       IF k = key
                       THEN [response |-> response, inserted_at |-> now,
                             expires_at |-> now + Lifetime(ttl)]
                       ELSE entries[k]]
-------------------------------------------------------------------------------
(***************************************************************************)
(* One representation of an answer: a question is answered by the shared   *)
(* entry or by private ones, never by both, in whatever order the answers  *)
(* arrive.  Hence what the origin last said of its scope holds for every   *)
(* caller, and get's preference for the private entry never hides a newer  *)
(* shared one.                                                             *)
(***************************************************************************)
OneRepresentation ==
  \A k \in Kept : k.owner # Shared => Public(k.logical) \notin Kept

(***************************************************************************)
(* An entry that is still live leaves the table only for a newer answer to *)
(* its question, or, of a table full of live entries, as the oldest: no    *)
(* lookup and no insertion costs anybody else a hit (insert's sweep before *)
(* it evicts), and the table keeps its bound.                              *)
(***************************************************************************)
EvictsOnlyTheOldest ==
  [][/\ Cardinality(DOMAIN entries') <= MaxEntries
     /\ \A k \in Kept \ DOMAIN entries' :
          \/ Expired(k)
          \/ \E new \in DOMAIN entries' :
               new.logical = k.logical /\ (new.owner = Shared <=> k.owner # Shared)
          \/ /\ Cardinality(Kept) = MaxEntries
             /\ \A other \in Kept : Live(other)
             /\ k \in Oldest(Kept)]_entries
===============================================================================
