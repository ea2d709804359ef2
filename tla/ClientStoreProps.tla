-------------------------- MODULE ClientStoreProps --------------------------
(***************************************************************************)
(* What the transactions, the cache and the failure paths of the client    *)
(* store have to achieve together.                                         *)
(***************************************************************************)
EXTENDS ClientStore

\* Between operations every group in memory is the one that is stored, whatever
\* failed before: the comment in group_mut ("Every mutation is already durable")
\* is why the cache may be emptied at any time, and why it may be used at all.
\* It stays within its limit, and no transaction is left open, owned or half
\* undone, unless the rollback failed, and then the store is poisoned.
CacheFollowsDatabase ==
  /\ Cardinality(Cached) <= CacheLimit
  /\ op = None => \A r \in Cached : cache[r] = durable.mls_groups[r]
  /\ op = None /\ ~poisoned => ~open /\ ~owner /\ work = durable

\* No two appends that were ever stored for sending use the same generation of
\* an epoch's ratchet, although a failed operation leaves the ratchet where it
\* was and its generation is used again: encrypt_bound stores the group in the
\* transaction that journals the message.
GenerationUsedOnce ==
  \A d, e \in sent :
    d.what = "app" /\ e.what = "app" /\ d.room = e.room /\ d.epoch = e.epoch
      /\ d.gen = e.gen => d = e

\* The failure paths, the cache and restarts are invisible in the database: it
\* changes by whole operations only, each from the state the last one left.
Atomic == INSTANCE AtomicStore WITH tables <- durable
Implements == Atomic!Spec

=============================================================================
