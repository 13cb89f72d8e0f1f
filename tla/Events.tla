-------------------------------- MODULE Events --------------------------------
(***************************************************************************)
(* Invalidation events and the arithmetic of their versions, shared by the  *)
(* in-memory broker, the RabbitMQ broker and the proxy that handles them    *)
(* (internal/events/events.go).                                             *)
(*                                                                          *)
(* An event names resource tags and cache keys in the order it lists them;  *)
(* version 0 means that it carries none.  An invalidation of a single cache *)
(* key is recorded under a tag made from the key (keyTag in handler.go): a  *)
(* target is therefore a tag or a key.                                      *)
(***************************************************************************)
EXTENDS Integers, Sequences

CONSTANTS Tags,     \* resource tags, e.g. "book:1"
          Keys,     \* cache keys
          EventIds  \* event identifiers

\* keyTag starts with a NUL byte, which no valid tag contains.
ASSUME TagsAndKeysDiffer == Tags \cap Keys = {}

Targets == Tags \cup Keys

\* What Normalize lets through: a non-negative version and at least one target.
Event == { e \in [id : EventIds, tags : Seq(Tags), keys : Seq(Keys), version : Nat] :
             e.tags # <<>> \/ e.keys # <<>> }

\* maxVersion maps every tag to the newest version invalidated; a tag the map
\* does not hold reads as zero.
NoVersions == [t \in Tags |-> 0]

\* A versioned event on tags alone says nothing new once every one of its tags
\* has been invalidated at this version or a newer one.
Superseded(maxVersion, e) ==
    /\ e.version > 0
    /\ e.tags # <<>>
    /\ e.keys = <<>>
    /\ \A i \in DOMAIN e.tags : e.version <= maxVersion[e.tags[i]]

\* Mutations of CommitVersion: it takes the last version instead of the
\* greatest, or raises tags the event does not name.
CommitLastVersion(maxVersion, e) ==
    [t \in Tags |-> IF \E i \in DOMAIN e.tags : e.tags[i] = t THEN e.version ELSE maxVersion[t]]

CommitEverywhere(maxVersion, e) ==
    [t \in Tags |-> IF e.version > maxVersion[t] THEN e.version ELSE maxVersion[t]]

CommitVersion(maxVersion, e) ==
    [t \in Tags |-> IF /\ e.version > maxVersion[t]
                       /\ \E i \in DOMAIN e.tags : e.tags[i] = t
                    THEN e.version
                    ELSE maxVersion[t]]
===============================================================================
