----------------------------- MODULE SsvIntake -----------------------------
(***************************************************************************)
(* The intake of AdMob's callbacks: AdMobSsvVerifier caches Google's       *)
(* public keys for six hours, and renews them by one fetch that every      *)
(* callback with an unknown key, or a stale cache, waits for.              *)
(*                                                                         *)
(* A callback is abstracted to the key it names and to whether everything  *)
(* else about it is good: the signature under that key, its fields and its *)
(* timestamp.  What an accepted one does is AdRewards.                     *)
(***************************************************************************)
CONSTANTS
  Callback, Key,
  NoKey   \* of a callback that is not looked up

ASSUME IntakeAssumption == NoKey \notin Key

VARIABLES
  published,   \* the keys the key server lists
  keys,        \* this.keys
  current,     \* fetchedAt is no more than six hours ago
  fetch,       \* this.inflight
  cb,
  dead,        \* history: keys withdrawn before the cache last ran out
  newer        \* history: keys published since the fetch under way began

intakeVars == <<published, keys, current, fetch, cb, dead, newer>>

Fetch == [at : {"none", "asked", "answered"}, keys : SUBSET Key]
CallbackRow == [pc : {"idle", "keying", "verified", "unknown", "invalid", "keyless", "again"},
                key : Key \cup {NoKey}]

IntakeType ==
  /\ published \in SUBSET Key /\ keys \in SUBSET Key
  /\ dead \in SUBSET Key /\ newer \in SUBSET Key
  /\ current \in BOOLEAN
  /\ fetch \in Fetch
  /\ cb \in [Callback -> CallbackRow]

NoFetch == [at |-> "none", keys |-> {}]
NoCallback == [pc |-> "idle", key |-> NoKey]

IntakeInit ==
  /\ published \in SUBSET Key
  /\ keys = {} /\ current = FALSE /\ fetch = NoFetch
  /\ cb = [c \in Callback |-> NoCallback]
  /\ dead = {} /\ newer = {}

Refused(pc) == [pc |-> pc, key |-> NoKey]

\* What verify makes of a callback once it has looked its key up in ks.
Judged(k, ks, good) ==
  CASE k \notin ks -> [pc |-> "unknown", key |-> k]
    [] k \in ks /\ good -> [pc |-> "verified", key |-> k]
    [] OTHER -> Refused("invalid")

\* Mutant: keys that are known are never renewed.
KnownKey(k) == k \in keys

Usable(k) == k \in keys /\ current

JoinFetch ==
  /\ fetch' = IF fetch.at = "none" THEN [at |-> "asked", keys |-> {}] ELSE fetch
  /\ newer' = IF fetch.at = "none" THEN {} ELSE newer

\* Mutant: an unknown key is looked up once, in a cache that has not run out.
ReceiveCurrent(c, k, good) ==
  /\ cb[c].pc = "idle"
  /\ IF current
     THEN /\ cb' = [cb EXCEPT ![c] = Judged(k, keys, good)]
          /\ UNCHANGED <<fetch, newer>>
     ELSE /\ cb' = [cb EXCEPT ![c] = [pc |-> "keying", key |-> k]]
          /\ JoinFetch
  /\ UNCHANGED <<published, keys, current, dead>>

\* GET /ads/admob/ssv, up to the first await.
Receive(c, k, good) ==
  /\ cb[c].pc = "idle"
  /\ IF Usable(k)
     THEN /\ cb' = [cb EXCEPT ![c] = Judged(k, keys, good)]
          /\ UNCHANGED <<fetch, newer>>
     ELSE /\ cb' = [cb EXCEPT ![c] = [pc |-> "keying", key |-> k]]
          /\ JoinFetch
  /\ UNCHANGED <<published, keys, current, dead>>

\* A callback without signature or key_id is refused at once.
ReceiveUnsigned(c) ==
  /\ cb[c].pc = "idle"
  /\ cb' = [cb EXCEPT ![c] = Refused("invalid")]
  /\ UNCHANGED <<published, keys, current, fetch, dead, newer>>

\* The handler is through with a callback and answers it.
Respond(c) ==
  /\ cb[c].pc \notin {"idle", "keying"}
  /\ cb' = [cb EXCEPT ![c] = NoCallback]
  /\ UNCHANGED <<published, keys, current, fetch, dead, newer>>

KeysAnswered ==
  /\ fetch.at = "asked"
  /\ fetch' = [at |-> "answered", keys |-> published]
  /\ UNCHANGED <<published, keys, current, cb, dead, newer>>

\* The keys replace the cached ones, and all who waited are judged by them.
FetchSettles(good) ==
  /\ fetch.at = "answered" /\ fetch.keys # {}
  /\ keys' = fetch.keys /\ current' = TRUE
  /\ fetch' = NoFetch /\ newer' = {}
  /\ cb' = [c \in Callback |->
       IF cb[c].pc = "keying" THEN Judged(cb[c].key, fetch.keys, c \in good) ELSE cb[c]]
  /\ UNCHANGED <<published, dead>>

(* A status of error or an empty list is a SsvVerificationError, which the *)
(* controller answers with 400; no answer at all is a 500, which AdMob     *)
(* repeats.                                                                *)
FetchFails(pc) ==
  /\ fetch.at # "none"
  /\ pc \in {"keyless", "again"}
  /\ pc = "keyless" => fetch.keys = {}
  /\ fetch' = NoFetch /\ newer' = {}
  /\ cb' = [c \in Callback |-> IF cb[c].pc = "keying" THEN Refused(pc) ELSE cb[c]]
  /\ UNCHANGED <<published, keys, current, dead>>

Publish(k) ==
  /\ k \notin published
  /\ published' = published \cup {k}
  /\ newer' = IF fetch.at = "none" THEN newer ELSE newer \cup {k}
  /\ dead' = dead \ {k}
  /\ UNCHANGED <<keys, current, fetch, cb>>

Withdraw(k) ==
  /\ k \in published
  /\ published' = published \ {k}
  /\ UNCHANGED <<keys, current, fetch, cb, dead, newer>>

\* Six hours after the last fetch.  An answer in transit may still be older.
KeysLapse ==
  /\ current
  /\ current' = FALSE
  /\ dead' = dead \cup (Key \ (published \cup fetch.keys))
  /\ UNCHANGED <<published, keys, fetch, cb, newer>>

IntakeRestart ==
  /\ keys' = {} /\ current' = FALSE /\ fetch' = NoFetch /\ newer' = {}
  /\ cb' = [c \in Callback |-> IF cb[c].pc = "keying" THEN NoCallback ELSE cb[c]]
  /\ UNCHANGED <<published, dead>>

CallbackNext(c) ==
  \/ \E k \in Key, good \in BOOLEAN : Receive(c, k, good)
  \/ ReceiveUnsigned(c) \/ Respond(c)

IntakeNext ==
  \/ \E c \in Callback : CallbackNext(c)
  \/ \E good \in SUBSET Callback : FetchSettles(good)
  \/ \E pc \in {"keyless", "again"} : FetchFails(pc)
  \/ \E k \in Key : Publish(k) \/ Withdraw(k)
  \/ KeysAnswered \/ KeysLapse

-----------------------------------------------------------------------------
Becomes(c, pc) == cb[c].pc # pc /\ cb'[c].pc = pc

(* No callback is accepted under a key that Google withdrew before the     *)
(* cache last ran out: a cached key is not renewed by use, and an answer   *)
(* that was on its way across the withdrawal counts for its own six hours. *)
NoneUnderDeadKey == \A c \in Callback : Becomes(c, "verified") => cb'[c].key \notin dead

WithdrawnKeyDies == [][NoneUnderDeadKey]_intakeVars

(* A callback is refused over its key only if Google does not list the     *)
(* key, or first listed it after the fetch began that the callback joined: *)
(* a key that is new to the cache is always looked up again.               *)
UnknownIfUnlisted ==
  \A c \in Callback :
    Becomes(c, "unknown") => cb'[c].key \notin published \/ cb'[c].key \in newer

UnknownIsNew == [][UnknownIfUnlisted]_intakeVars
=============================================================================
