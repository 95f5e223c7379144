--------------------------- MODULE AssistanceData ---------------------------
(***************************************************************************)
(* The assistance-data service (MS-11): ephemerides cached in Redis under  *)
(* one key per constellation, an ionospheric model under another, and a    *)
(* provider that makes what is not cached.  An ephemeris is valid for      *)
(* Validity from its making; its key lives for TTL from the SET, and a     *)
(* request may be held up between the two.                                 *)
(***************************************************************************)
EXTENDS Integers, FiniteSets, Sequences

CONSTANTS
    Constellations,
    Lists,         \* constellation lists of the requests; an empty one is taken for GPS
    Workers,       \* handler goroutines
    Faults,        \* "lost": a Redis command may fail
    TTL,           \* ephemerisTTL, in ticks of the Redis clock
    Validity,      \* ValidUntil of the provider, in ticks from the making
    MaxRequests    \* bound on the requests

AssistanceAssumption ==
    /\ Lists \subseteq Seq(Constellations) \ {<<>>}
    /\ "none" \notin Constellations
    /\ TTL \in Nat \ {0} /\ Validity \in Nat /\ TTL <= Validity
    /\ MaxRequests \in Nat

VARIABLES
    ephem,      \* the cached ephemerides of each constellation
    ephemTtl,   \* ticks each key still lives
    iono,       \* how often the value of the ionospheric key was encoded; 0: no key
    call,       \* the request each worker serves
    requests    \* requests that may still come

vars == <<ephem, ephemTtl, iono, call, requests>>

Old == Validity + 1     \* ages are capped here
Ephemeris == [of : Constellations, age : 0 .. Old, late : BOOLEAN]
NoEphemeris == [of |-> "none", age |-> 0, late |-> FALSE]
Idle == [pc |-> "idle", left |-> <<>>, made |-> NoEphemeris, got |-> {}, iono |-> FALSE]

TypeOK ==
    /\ \A c \in Constellations :
        /\ ephem[c] \in Ephemeris \cup {NoEphemeris}
        /\ ephemTtl[c] \in 0 .. TTL
        /\ ephem[c] # NoEphemeris <=> ephemTtl[c] > 0
    /\ iono \in 0 .. 2
    /\ \A w \in Workers : call[w].pc \in {"idle", "get", "set", "iono", "ionoset"}
    /\ requests \in 0 .. MaxRequests

Init ==
    /\ ephem = [c \in Constellations |-> NoEphemeris]
    /\ ephemTtl = [c \in Constellations |-> 0]
    /\ iono = 0
    /\ call = [w \in Workers |-> Idle]
    /\ requests = MaxRequests

-----------------------------------------------------------------------------
(* GetAssistanceData.                                                      *)

\* The handler asks the cache for each constellation of the list in turn.
Request(w, list) ==
    /\ call[w].pc = "idle"
    /\ requests > 0
    /\ requests' = requests - 1
    /\ call' = [call EXCEPT ![w] = [Idle EXCEPT !.pc = "get", !.left = list]]
    /\ UNCHANGED <<ephem, ephemTtl, iono>>

\* One constellation is answered with e; after the last comes the ionospheric model.
Append1(c, e) ==
    [c EXCEPT !.got = @ \cup {[asked |-> Head(c.left), eph |-> e]},
              !.made = NoEphemeris,
              !.left = Tail(@),
              !.pc = IF Tail(c.left) = <<>> THEN "iono" ELSE "get"]

\* A failed GET counts as a miss; FetchEphemeris then makes the ephemerides.
GetEphemeris(w) ==
    LET c == call[w]
        hit == ephem[Head(c.left)]
    IN  /\ c.pc = "get"
        /\ \/ hit # NoEphemeris /\ call' = [call EXCEPT ![w] = Append1(c, hit)]
           \/ /\ hit = NoEphemeris \/ "lost" \in Faults
              /\ call' = [call EXCEPT ![w].pc = "set",
                                      ![w].made = [of |-> Head(c.left), age |-> 0, late |-> FALSE]]
        /\ UNCHANGED <<ephem, ephemTtl, iono, requests>>

SetJSON(c, e) ==
    /\ ephem' = [ephem EXCEPT ![c] = e]
    /\ ephemTtl' = [ephemTtl EXCEPT ![c] = TTL]

\* A fault: the key is that of the request's last constellation.
SetEphemerisLast(w) ==
    LET c == call[w]
    IN  /\ c.pc = "set"
        /\ SetJSON(c.left[Len(c.left)], c.made)
        /\ call' = [call EXCEPT ![w] = Append1(c, c.made)]
        /\ UNCHANGED <<iono, requests>>

\* A failed SET is only logged.
SetEphemeris(w) ==
    LET c == call[w]
    IN  /\ c.pc = "set"
        /\ \/ SetJSON(Head(c.left), c.made)
           \/ "lost" \in Faults /\ UNCHANGED <<ephem, ephemTtl>>
        /\ call' = [call EXCEPT ![w] = Append1(c, c.made)]
        /\ UNCHANGED <<iono, requests>>

\* json.Unmarshal into a model needs a value that was encoded once.
GetIonosphericModel(w) ==
    /\ call[w].pc = "iono"
    /\ \/ iono = 1 /\ call' = [call EXCEPT ![w].pc = "idle", ![w].iono = TRUE]
       \/ /\ iono # 1 \/ "lost" \in Faults
          /\ call' = [call EXCEPT ![w].pc = "ionoset", ![w].iono = TRUE]
    /\ UNCHANGED <<ephem, ephemTtl, iono, requests>>

\* SetIonosphericModel encodes the model, and SetJSON encodes the bytes again.
SetIonosphericModel(w) ==
    /\ call[w].pc = "ionoset"
    /\ iono' = 2 \/ ("lost" \in Faults /\ UNCHANGED iono)
    /\ call' = [call EXCEPT ![w].pc = "idle"]
    /\ UNCHANGED <<ephem, ephemTtl, requests>>

\* Redis' clock, and that of the ephemerides: the key of the ionospheric model may
\* expire at any tick.
Tick ==
    LET Older(e) == [e EXCEPT !.age = IF @ = Old THEN Old ELSE @ + 1]
    IN  /\ ephemTtl' = [c \in Constellations |-> IF ephemTtl[c] = 0 THEN 0 ELSE ephemTtl[c] - 1]
        /\ ephem' = [c \in Constellations |->
                        IF ephemTtl[c] <= 1 THEN NoEphemeris ELSE Older(ephem[c])]
        /\ iono' \in {0, iono}
        /\ call' = [w \in Workers |->
                       IF call[w].pc = "set"
                       THEN [call[w] EXCEPT !.made = [Older(@) EXCEPT !.late = TRUE]]
                       ELSE call[w]]
        /\ UNCHANGED requests

Next ==
    \/ Tick
    \/ \E w \in Workers :
        \/ \E list \in Lists : Request(w, list)
        \/ GetEphemeris(w) \/ SetEphemeris(w)
        \/ GetIonosphericModel(w) \/ SetIonosphericModel(w)

Spec == Init /\ [][Next]_vars

-----------------------------------------------------------------------------
(* Properties.                                                             *)

\* Every constellation is answered with ephemerides of its own that are still valid,
\* whoever cached them and when; only what was held up between its making and its
\* SET may be served beyond its validity.
ServedValid ==
    \A w \in Workers : \A e \in call[w].got :
        /\ e.eph.of = e.asked
        /\ e.eph.age > Validity => e.eph.late
=============================================================================
