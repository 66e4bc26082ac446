---------------------------- MODULE Idempotency ----------------------------
(***************************************************************************)
(* The idempotency middleware (api/middleware/idempotency.py) over the     *)
(* in-memory store of one server process.  An execution that answers 2xx   *)
(* commits its session only after its response has been received by the    *)
(* middleware, so storing the response and committing the effect happen in *)
(* either order.                                                           *)
(***************************************************************************)
EXTENDS Naturals

CONSTANTS
  CacheKeys,      \* caller, method, path, body and header, hashed
  Slots,          \* requests that may be in the server at the same time
  NoKey,
  MaxExecutions   \* bound: committed executions of one key, over all restarts

ASSUME IdempotencyAssumption ==
  /\ NoKey \notin CacheKeys
  /\ MaxExecutions \in Nat

VARIABLES
  entry,      \* entry[k]: what the store holds for the key
  slot,       \* slot[s]: a request, where it is and its open session
  executed    \* executed[k]: committed executions since the store last forgot k

idempotencyVars == <<entry, slot, executed>>

Entries == {"none", "marked", "cached"}
Stages == {"idle", "marking", "running", "answered", "stored"}
Free == [at |-> "idle", key |-> NoKey, open |-> FALSE]

IdempotencyTypeOK ==
  /\ entry \in [CacheKeys -> Entries]
  /\ slot \in [Slots -> [at : Stages, key : CacheKeys \cup {NoKey}, open : BOOLEAN]]
  /\ executed \in [CacheKeys -> Nat]
  /\ \A s \in Slots : slot[s].at = "idle" \/ slot[s].key \in CacheKeys

IdempotencyInit ==
  /\ entry = [k \in CacheKeys |-> "none"]
  /\ slot = [s \in Slots |-> Free]
  /\ executed = [k \in CacheKeys |-> 0]

-----------------------------------------------------------------------------
Is(s, stage) == slot[s].at = stage
Move(s, stage) == slot' = [slot EXCEPT ![s].at = stage]

\* A mutant of StoreSuspends: get and set of the store are round trips.
StoreIsRemote == TRUE

\* The awaited methods of InMemoryIdempotencyStore return without suspending,
\* so nothing runs between the look-up of a key and its marking.
StoreSuspends == FALSE

NobodyMarks == \A s \in Slots : ~Is(s, "marking")

\* _get_cached_response finds nothing; a marker or a response is an answer by itself.
Admits(k) == entry[k] = "none"

Admit(s, k) ==
  /\ Is(s, "idle")
  /\ Admits(k)
  /\ slot' = [slot EXCEPT ![s] = [at |-> "marking", key |-> k, open |-> FALSE]]
  /\ UNCHANGED <<entry, executed>>

\* _mark_in_progress, and the request is passed on.
Mark(s) ==
  /\ Is(s, "marking")
  /\ entry' = [entry EXCEPT ![slot[s].key] = "marked"]
  /\ slot' = [slot EXCEPT ![s].at = "running", ![s].open = TRUE]
  /\ UNCHANGED executed

\* A 2xx response: its body is read, the session is still open.
Answer(s) ==
  /\ Is(s, "running")
  /\ Move(s, "answered")
  /\ UNCHANGED <<entry, executed>>

\* _cache_response
Store(s) ==
  /\ Is(s, "answered")
  /\ entry' = [entry EXCEPT ![slot[s].key] = "cached"]
  /\ Move(s, "stored")
  /\ UNCHANGED executed

\* The route's dependency commits its session.
CommitAnswered(s) ==
  /\ slot[s].at \in {"answered", "stored"}
  /\ slot[s].open
  /\ executed[slot[s].key] < MaxExecutions
  /\ executed' = [executed EXCEPT ![slot[s].key] = @ + 1]
  /\ slot' = [slot EXCEPT ![s].open = FALSE]
  /\ UNCHANGED entry

CommitLost(s) ==
  /\ slot[s].at \in {"answered", "stored"}
  /\ slot[s].open
  /\ slot' = [slot EXCEPT ![s].open = FALSE]
  /\ UNCHANGED <<entry, executed>>

Finish(s) ==
  /\ Is(s, "stored")
  /\ ~slot[s].open
  /\ slot' = [slot EXCEPT ![s] = Free]
  /\ UNCHANGED <<entry, executed>>

\* Any other response is returned as it is; its session has been rolled back.
Refuse(s) ==
  /\ Is(s, "running")
  /\ slot' = [slot EXCEPT ![s] = Free]
  /\ UNCHANGED <<entry, executed>>

\* An exception: the entry is removed, and the session rolled back.
Raise(s) ==
  /\ Is(s, "running")
  /\ entry' = [entry EXCEPT ![slot[s].key] = "none"]
  /\ slot' = [slot EXCEPT ![s] = Free]
  /\ UNCHANGED executed

\* A mutant of Expire: a marker is forgotten after its five minutes.
ExpireAny(k) ==
  /\ entry[k] # "none"
  /\ entry' = [entry EXCEPT ![k] = "none"]
  /\ executed' = [executed EXCEPT ![k] = 0]
  /\ UNCHANGED slot

(***************************************************************************)
(* A response older than the TTL is deleted when it is looked up.  The     *)
(* expires_at of a marker is never compared.  24 hours are longer than any *)
(* session stays open.                                                     *)
(***************************************************************************)
Expire(k) ==
  /\ entry[k] = "cached"
  /\ \A s \in Slots : slot[s].key # k
  /\ entry' = [entry EXCEPT ![k] = "none"]
  /\ executed' = [executed EXCEPT ![k] = 0]
  /\ UNCHANGED slot

\* The process is replaced: the store is gone, and open sessions are rolled back.
Restart ==
  /\ entry' = [k \in CacheKeys |-> "none"]
  /\ slot' = [s \in Slots |-> Free]
  /\ executed' = [k \in CacheKeys |-> 0]

IdempotencyNext ==
  \/ \E s \in Slots : Mark(s)
  \/ /\ StoreSuspends \/ NobodyMarks
     /\ \/ \E s \in Slots, k \in CacheKeys : Admit(s, k)
        \/ \E s \in Slots : \/ Answer(s) \/ Store(s) \/ CommitAnswered(s)
                            \/ CommitLost(s)
                            \/ Finish(s) \/ Refuse(s) \/ Raise(s)
        \/ \E k \in CacheKeys : Expire(k)
        \/ Restart

IdempotencySpec == IdempotencyInit /\ [][IdempotencyNext]_idempotencyVars

-----------------------------------------------------------------------------
(***************************************************************************)
(* "Server caches response for duplicate requests", "Prevents duplicate    *)
(* order creation, payments": while the store remembers a key its request  *)
(* takes effect at most once, retried at any moment.                       *)
(***************************************************************************)
AtMostOnce == \A k \in CacheKeys : executed[k] <= 1

(***************************************************************************)
(* A request that is carried out or still has a session to commit is known *)
(* to the store: a retry finds its marker or its response and is not       *)
(* admitted.                                                               *)
(***************************************************************************)
WorkIsRemembered ==
  \A s \in Slots :
    slot[s].at \in {"running", "answered", "stored"} => entry[slot[s].key] # "none"
========================================
