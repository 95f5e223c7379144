------------------------- MODULE SubscriptionStore --------------------------
(***************************************************************************)
(* event-manager's gRPC server and its store: event subscriptions in       *)
(* Redis, each under a key of its own (sub:{id}) and in the set of its     *)
(* SUPI (supi-subs:{supi}).  A stored value is described by how often it   *)
(* was JSON-encoded, because the store and the Redis client both encode.   *)
(***************************************************************************)
EXTENDS Integers, FiniteSets

CONSTANTS
    Subs,         \* ids uuid.New() may return
    Supis,
    SupiOf,       \* the subscriber of each subscription
    NoSub,
    Workers,      \* handler goroutines
    Faults,       \* what a failed command may have done: "lost", "applied"
    TTL,          \* subscriptionTTL, in ticks of the Redis clock
    MaxRequests   \* bound on the requests of the clients

SubscriptionAssumption ==
    /\ SupiOf \in [Subs -> Supis]
    /\ NoSub \notin Subs
    /\ Faults \subseteq {"lost", "applied"}
    /\ TTL \in Nat \ {0}
    /\ MaxRequests \in Nat

VARIABLES
    stored,      \* how often the value of each subscription key was encoded; 0: no key
    subTtl,      \* ticks the key still lives
    supiSubs,    \* members of each SUPI's set
    supiTtl,     \* ticks the set still lives
    call,        \* the call each worker serves
    requests,    \* requests the clients may still send
    used,        \* history: ids given out
    known        \* history: ids that Subscribe returned

vars == <<stored, subTtl, supiSubs, supiTtl, call, requests, used, known>>

Call == [op : {"none", "subscribe", "unsubscribe", "get"},
         pc : {"idle", "set", "sadd", "read"},
         sub : Subs \cup {NoSub},
         res : {"none", "ok", "error"}]

TypeOK ==
    /\ stored \in [Subs -> 0 .. 2]
    /\ subTtl \in [Subs -> 0 .. TTL]
    /\ supiSubs \in [Supis -> SUBSET Subs]
    /\ supiTtl \in [Supis -> 0 .. TTL]
    /\ call \in [Workers -> Call]
    /\ requests \in 0 .. MaxRequests
    /\ used \in SUBSET Subs
    /\ known \in SUBSET Subs

Init ==
    /\ stored = [s \in Subs |-> 0]
    /\ subTtl = [s \in Subs |-> 0]
    /\ supiSubs = [u \in Supis |-> {}]
    /\ supiTtl = [u \in Supis |-> 0]
    /\ call = [w \in Workers |-> [op |-> "none", pc |-> "idle", sub |-> NoSub, res |-> "none"]]
    /\ requests = MaxRequests
    /\ used = {}
    /\ known = {}

\* json.Marshal adds an encoding; json.Unmarshal into a subscription needs exactly one.
Marshal(n) == n + 1
Unmarshals(n) == n = 1

\* SetJSON encodes what it is given.
SetJSON(s, n) ==
    /\ stored' = [stored EXCEPT ![s] = Marshal(n)]
    /\ subTtl' = [subTtl EXCEPT ![s] = TTL]

\* A fault: the set keeps the TTL of its first member.
SetAddKeepsTtl(s) ==
    /\ supiSubs' = [supiSubs EXCEPT ![SupiOf[s]] = @ \cup {s}]
    /\ supiTtl' = [supiTtl EXCEPT ![SupiOf[s]] = IF @ = 0 THEN TTL ELSE @]

SetAdd(s) ==
    /\ supiSubs' = [supiSubs EXCEPT ![SupiOf[s]] = @ \cup {s}]
    /\ supiTtl' = [supiTtl EXCEPT ![SupiOf[s]] = TTL]

Reply(w, res) == call' = [call EXCEPT ![w].pc = "idle", ![w].res = res]

Begin(w, op, s, pc) ==
    /\ call[w].pc = "idle"
    /\ requests > 0
    /\ requests' = requests - 1
    /\ call' = [call EXCEPT ![w] = [op |-> op, pc |-> pc, sub |-> s, res |-> "none"]]
    /\ UNCHANGED <<stored, subTtl, supiSubs, supiTtl, known>>

Subscribe(w, s) ==
    /\ s \notin used
    /\ Begin(w, "subscribe", s, "set")
    /\ used' = used \cup {s}

Unsubscribe(w, s) == s \in known /\ Begin(w, "unsubscribe", s, "read") /\ UNCHANGED used
GetSubscription(w, s) == s \in known /\ Begin(w, "get", s, "read") /\ UNCHANGED used

\* Save marshals the subscription itself and gives the bytes to SetJSON.
SaveKey(w) ==
    LET s == call[w].sub
    IN  /\ call[w].pc = "set"
        /\ \/ SetJSON(s, Marshal(0)) /\ call' = [call EXCEPT ![w].pc = "sadd"]
           \/ "lost" \in Faults /\ Reply(w, "error") /\ UNCHANGED <<stored, subTtl>>
           \/ "applied" \in Faults /\ Reply(w, "error") /\ SetJSON(s, Marshal(0))
        /\ UNCHANGED <<supiSubs, supiTtl, requests, used, known>>

SaveIndex(w) ==
    LET s == call[w].sub
    IN  /\ call[w].pc = "sadd"
        /\ \/ /\ SetAdd(s)
              /\ Reply(w, "ok")
              /\ known' = known \cup {s}
           \/ /\ Reply(w, "error")
              /\ \/ "lost" \in Faults /\ UNCHANGED <<supiSubs, supiTtl>>
                 \/ "applied" \in Faults /\ SetAdd(s)
              /\ UNCHANGED known
        /\ UNCHANGED <<stored, subTtl, requests, used>>

\* Get, the first call of Delete as well.  Delete then removes the key and the
\* index entry, which is kept as one step: nothing stored ever gets that far.
Read(w) ==
    LET s == call[w].sub
    IN  /\ call[w].pc = "read"
        /\ IF Unmarshals(stored[s])
           THEN /\ Reply(w, "ok")
                /\ IF call[w].op = "unsubscribe"
                   THEN /\ stored' = [stored EXCEPT ![s] = 0]
                        /\ subTtl' = [subTtl EXCEPT ![s] = 0]
                        /\ supiSubs' = [supiSubs EXCEPT ![SupiOf[s]] = @ \ {s}]
                   ELSE UNCHANGED <<stored, subTtl, supiSubs>>
           ELSE Reply(w, "error") /\ UNCHANGED <<stored, subTtl, supiSubs>>
        /\ UNCHANGED <<supiTtl, requests, used, known>>

\* Redis' clock.
Tick ==
    /\ subTtl' = [s \in Subs |-> IF subTtl[s] = 0 THEN 0 ELSE subTtl[s] - 1]
    /\ stored' = [s \in Subs |-> IF subTtl[s] <= 1 THEN 0 ELSE stored[s]]
    /\ supiTtl' = [u \in Supis |-> IF supiTtl[u] = 0 THEN 0 ELSE supiTtl[u] - 1]
    /\ supiSubs' = [u \in Supis |-> IF supiTtl[u] <= 1 THEN {} ELSE supiSubs[u]]
    /\ UNCHANGED <<call, requests, used, known>>

Next ==
    \/ Tick
    \/ \E w \in Workers :
        \/ \E s \in Subs : Subscribe(w, s) \/ Unsubscribe(w, s) \/ GetSubscription(w, s)
        \/ SaveKey(w) \/ SaveIndex(w) \/ Read(w)

Spec == Init /\ [][Next]_vars

-----------------------------------------------------------------------------
(* Properties.                                                             *)

\* A subscription that Subscribe returned stays in the set of its SUPI as long as
\* its key lives, whatever other subscriptions of the SUPI do.
Listed ==
    \A s \in known : stored[s] # 0 => s \in supiSubs[SupiOf[s]] /\ supiTtl[SupiOf[s]] >= subTtl[s]

\* "Unsubscribe deletes an existing event subscription": while Redis works and the
\* subscription is stored, Unsubscribe does not fail.
UnsubscribeSucceeds ==
    [][\A w \in Workers :
         call[w].op = "unsubscribe" /\ call[w].pc = "read" /\ stored[call[w].sub] # 0
         => call'[w].res # "error"]_vars
=============================================================================
