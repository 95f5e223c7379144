--------------------------- MODULE SessionManager ---------------------------
(***************************************************************************)
(* The session-manager service (MS-03): gRPC handlers that keep LCS        *)
(* sessions in Redis.  A session lives under its own key (sess:{id}), and  *)
(* a second key (supi:{supi}) holds the set of the ids of one subscriber.  *)
(* The two keys are written by separate round trips and expire by separate *)
(* TTLs, and nothing serialises two handlers of one session, so every      *)
(* round trip is an action of its own.                                     *)
(***************************************************************************)
EXTENDS Integers, FiniteSets

CONSTANTS
    Sessions,        \* the ids uuid.New() may return, each at most once
    Supis,           \* subscribers with a SUPI
    NoSupi,          \* the empty SUPI, for which no index entry is made
    NoSession,       \* the sid of a call that has no session yet
    Workers,         \* handler goroutines of the gRPC server
    UpdateStatuses,  \* protobuf statuses the clients put in an update
    TTL,             \* defaultSessionTTL, in ticks of the Redis clock
    Faults,          \* what a failed Redis round trip may have done
    MaxRequests      \* bound on the requests of the clients

Status == {"INIT", "PROCESSING", "AWAITING_MEASUREMENTS", "COMPUTING",
           "COMPLETED", "FAILED", "CANCELLED"}
PbStatus == Status \cup {"UNSPECIFIED"}

\* The owner of an id that no session has been given yet.
Unborn == "unborn"

\* A failed command was not executed, or was executed and its reply was lost,
\* or (SADD and EXPIRE are pipelined, not a transaction) only SADD was executed.
FaultKinds == {"lost", "applied", "half"}

ASSUME ConstantsAssumption ==
    /\ NoSupi \notin Supis
    /\ Unborn \notin Supis \cup {NoSupi}
    /\ NoSession \notin Sessions
    /\ UpdateStatuses \subseteq PbStatus
    /\ TTL \in Nat \ {0}
    /\ Faults \subseteq FaultKinds
    /\ MaxRequests \in Nat

VARIABLES
    sess,       \* value of each session key; meaningful while its TTL runs
    sessTtl,    \* ticks the session key still lives; 0: no such key
    index,      \* members of each SUPI index key
    indexTtl,   \* ticks the index key still lives; Forever: no TTL was set
    call,       \* the call each worker serves
    requests,   \* requests the clients may still send
    owner,      \* history: the SUPI a session id was created for
    issued,     \* history: ids that a CreateSession call returned
    deleted,    \* history: sessions some DeleteSession call reported deleted
    torn        \* history: sessions whose index entry a failed command left out

redis == <<sess, sessTtl, index, indexTtl>>
history == <<owner, issued, deleted, torn>>
vars == <<redis, call, requests, history>>

Forever == TTL + 1
Value == [supi : Supis \cup {NoSupi}, status : Status]
Blank == [supi |-> NoSupi, status |-> "INIT"]

Ops == {"none", "create", "get", "update", "delete", "bySupi"}
Steps == {"idle", "set", "sadd", "get", "srem", "del", "smembers"}
Results == {"none", "ok", "notFound", "internal"}
Call == [op : Ops, pc : Steps, sid : Sessions \cup {NoSession}, supi : Supis \cup {NoSupi},
         status : Status, res : Results]

TypeOK ==
    /\ sess \in [Sessions -> Value]
    /\ sessTtl \in [Sessions -> 0 .. TTL]
    /\ index \in [Supis -> SUBSET Sessions]
    /\ indexTtl \in [Supis -> 0 .. Forever]
    /\ call \in [Workers -> Call]
    /\ requests \in 0 .. MaxRequests
    /\ owner \in [Sessions -> Supis \cup {NoSupi, Unborn}]
    /\ issued \in SUBSET Sessions
    /\ deleted \in SUBSET Sessions
    /\ torn \in SUBSET Sessions

Init ==
    /\ sess = [s \in Sessions |-> Blank]
    /\ sessTtl = [s \in Sessions |-> 0]
    /\ index = [u \in Supis |-> {}]
    /\ indexTtl = [u \in Supis |-> 0]
    /\ call = [w \in Workers |-> [op |-> "none", pc |-> "idle", sid |-> NoSession,
                                   supi |-> NoSupi, status |-> "INIT", res |-> "none"]]
    /\ requests = MaxRequests
    /\ owner = [s \in Sessions |-> Unborn]
    /\ issued = {}
    /\ deleted = {}
    /\ torn = {}

Live(s) == sessTtl[s] > 0

-----------------------------------------------------------------------------
(* Pure parts of the handlers.                                             *)

\* The switch has no case for CANCELLED or UNSPECIFIED: both become INIT.
MapPbSessionStatus(p) ==
    IF p \in Status \ {"CANCELLED"} THEN p ELSE "INIT"

\* A fault to test the properties with: the key without the SUPI.
SupiIndexKeyShared(u) == CHOOSE k \in Supis : TRUE

\* SupiIndexKey keeps subscribers apart: one index key per SUPI.
SupiIndexKey(u) == u

\* A handler returns; a client learns of a success only.
Succeeds(w, res, op) == res = "ok" /\ call[w].op = op

Reply(w, res) ==
    /\ call' = [call EXCEPT ![w] = [@ EXCEPT !.pc = "idle", !.res = res]]
    /\ issued' = IF Succeeds(w, res, "create") THEN issued \cup {call[w].sid} ELSE issued
    /\ deleted' = IF Succeeds(w, res, "delete") THEN deleted \cup {call[w].sid} ELSE deleted

Goto(w, pc) ==
    /\ call' = [call EXCEPT ![w] = [@ EXCEPT !.pc = pc]]
    /\ UNCHANGED <<issued, deleted>>

-----------------------------------------------------------------------------
(* Redis commands.                                                         *)

\* Faults: SET without a TTL, EXPIRE on top of what is left, EXPIRE of new keys only.
SetJSONForever(s, value) ==
    /\ sess' = [sess EXCEPT ![s] = value]
    /\ sessTtl' = [sessTtl EXCEPT ![s] = Forever]

SetAddExtends(s, u, expire) ==
    /\ index' = [index EXCEPT ![SupiIndexKey(u)] = @ \cup {s}]
    /\ indexTtl' = [indexTtl EXCEPT ![SupiIndexKey(u)] = @ + TTL]

SetAddKeepsTtl(s, u, expire) ==
    /\ index' = [index EXCEPT ![SupiIndexKey(u)] = @ \cup {s}]
    /\ indexTtl' = [indexTtl EXCEPT ![SupiIndexKey(u)] = IF @ = 0 THEN TTL ELSE @]

\* SET sess:{id} with the TTL of the store.
SetJSON(s, value) ==
    /\ sess' = [sess EXCEPT ![s] = value]
    /\ sessTtl' = [sessTtl EXCEPT ![s] = TTL]

\* SADD and EXPIRE of supi:{supi}; without the EXPIRE a new key never expires.
SetAdd(s, u, expire) ==
    LET k == SupiIndexKey(u)
    IN  /\ index' = [index EXCEPT ![k] = @ \cup {s}]
        /\ indexTtl' = [indexTtl EXCEPT ![k] = IF expire THEN TTL
                                               ELSE IF @ = 0 THEN Forever ELSE @]

\* SREM; Redis drops a set key with its last member.
SetRemove(s, u) ==
    LET k == SupiIndexKey(u)
    IN  /\ index' = [index EXCEPT ![k] = @ \ {s}]
        /\ indexTtl' = [indexTtl EXCEPT ![k] = IF index[k] \subseteq {s} THEN 0 ELSE @]

\* DEL sess:{id}.
Delete(s) ==
    /\ sess' = [sess EXCEPT ![s] = Blank]
    /\ sessTtl' = [sessTtl EXCEPT ![s] = 0]

-----------------------------------------------------------------------------
(* Requests arrive.                                                        *)

Begin(w, op, s, u, status, pc) ==
    /\ call[w].pc = "idle"
    /\ requests > 0
    /\ requests' = requests - 1
    /\ call' = [call EXCEPT ![w] = [op |-> op, pc |-> pc, sid |-> s, supi |-> u,
                                    status |-> status, res |-> "none"]]
    /\ UNCHANGED <<redis, issued, deleted, torn>>

\* A fault: an id is given out twice.
CreateSessionReused(w, s, u) ==
    /\ Begin(w, "create", s, u, "INIT", "set")
    /\ owner' = [owner EXCEPT ![s] = u]

\* CreateSession: a fresh uuid, status INIT, then SetSession.
CreateSession(w, s, u) ==
    /\ owner[s] = Unborn
    /\ Begin(w, "create", s, u, "INIT", "set")
    /\ owner' = [owner EXCEPT ![s] = u]

\* A client knows only ids that CreateSession returned.
Addressable(s) == s \in issued

GetSession(w, s) ==
    /\ Addressable(s)
    /\ Begin(w, "get", s, NoSupi, "INIT", "get")
    /\ UNCHANGED owner

UpdateSessionStatus(w, s, p) ==
    /\ Addressable(s)
    /\ Begin(w, "update", s, NoSupi, MapPbSessionStatus(p), "get")
    /\ UNCHANGED owner

DeleteSession(w, s) ==
    /\ Addressable(s)
    /\ Begin(w, "delete", s, NoSupi, "INIT", "get")
    /\ UNCHANGED owner

GetSessionBySupi(w, u) ==
    /\ Begin(w, "bySupi", NoSession, u, "INIT", "smembers")
    /\ UNCHANGED owner

-----------------------------------------------------------------------------
(* Round trips of the handlers.                                            *)

\* GetJSON, shared by all handlers that first read the session.  DeleteSession
\* goes on when the read fails; the others report it.
ReadFound(w) ==
    /\ call[w].pc = "get"
    /\ Live(call[w].sid)
    /\ LET supi == sess[call[w].sid].supi
       IN  CASE call[w].op = "update" ->
                  /\ call' = [call EXCEPT ![w] = [@ EXCEPT !.pc = "set", !.supi = supi]]
                  /\ UNCHANGED <<issued, deleted>>
             [] call[w].op = "delete" ->
                  /\ call' = [call EXCEPT ![w] =
                      [@ EXCEPT !.pc = IF supi = NoSupi THEN "del" ELSE "srem",
                                !.supi = supi]]
                  /\ UNCHANGED <<issued, deleted>>
             [] OTHER -> Reply(w, "ok")
    /\ UNCHANGED <<redis, requests, owner, torn>>

\* A fault: DeleteSession takes a failed read for a session that is gone.
ReadFailedGone(w, res) ==
    /\ Reply(w, IF call[w].op = "delete" THEN "ok" ELSE res)
    /\ UNCHANGED <<redis, requests, owner, torn>>

ReadFailed(w, res) ==
    /\ IF call[w].op = "delete" THEN Goto(w, "del") ELSE Reply(w, res)
    /\ UNCHANGED <<redis, requests, owner, torn>>

ReadMissing(w) ==
    /\ call[w].pc = "get"
    /\ ~Live(call[w].sid)
    /\ ReadFailed(w, "notFound")

ReadError(w) ==
    /\ call[w].pc = "get"
    /\ Faults # {}
    /\ ReadFailed(w, "internal")

\* SetSession, first half: the session key.
WriteSession(w) ==
    LET c == call[w]
    IN  /\ c.pc = "set"
        /\ SetJSON(c.sid, [supi |-> c.supi, status |-> c.status])
        /\ IF c.supi = NoSupi THEN Reply(w, "ok") ELSE Goto(w, "sadd")
        /\ UNCHANGED <<index, indexTtl, requests, owner, torn>>

WriteSessionError(w) ==
    LET c == call[w]
    IN  /\ c.pc = "set"
        /\ \/ "lost" \in Faults /\ UNCHANGED <<redis, torn>>
           \/ /\ "applied" \in Faults
              /\ SetJSON(c.sid, [supi |-> c.supi, status |-> c.status])
              /\ torn' = torn \cup {c.sid}
              /\ UNCHANGED <<index, indexTtl>>
        /\ Reply(w, "internal")
        /\ UNCHANGED <<requests, owner>>

\* SetSession, second half: the reverse index.
WriteIndex(w) ==
    LET c == call[w]
    IN  /\ c.pc = "sadd"
        /\ SetAdd(c.sid, c.supi, TRUE)
        /\ Reply(w, "ok")
        /\ torn' = torn \ {c.sid}
        /\ UNCHANGED <<sess, sessTtl, requests, owner>>

WriteIndexError(w) ==
    LET c == call[w]
    IN  /\ c.pc = "sadd"
        /\ \/ "lost" \in Faults /\ UNCHANGED <<index, indexTtl>>
           \/ "applied" \in Faults /\ SetAdd(c.sid, c.supi, TRUE)
           \/ "half" \in Faults /\ SetAdd(c.sid, c.supi, FALSE)
        /\ Reply(w, "internal")
        /\ torn' = torn \cup {c.sid}
        /\ UNCHANGED <<sess, sessTtl, requests, owner>>

\* DeleteSession: the result of the SREM is ignored.
RemoveFromIndex(w) ==
    LET c == call[w]
    IN  /\ c.pc = "srem"
        /\ \/ SetRemove(c.sid, c.supi)
           \/ "lost" \in Faults /\ UNCHANGED <<index, indexTtl>>
        /\ Goto(w, "del")
        /\ UNCHANGED <<sess, sessTtl, requests, owner, torn>>

DeleteKey(w) ==
    /\ call[w].pc = "del"
    /\ Delete(call[w].sid)
    /\ Reply(w, "ok")
    /\ UNCHANGED <<index, indexTtl, requests, owner, torn>>

DeleteKeyError(w) ==
    /\ call[w].pc = "del"
    /\ \/ "lost" \in Faults /\ UNCHANGED <<sess, sessTtl>>
       \/ "applied" \in Faults /\ Delete(call[w].sid)
    /\ Reply(w, "internal")
    /\ torn' = torn \cup {call[w].sid}
    /\ UNCHANGED <<index, indexTtl, requests, owner>>

\* GetSessionBySupi: SMEMBERS, then a read of the first member in Redis' order.
ReadMembers(w) ==
    LET members == index[SupiIndexKey(call[w].supi)]
    IN  /\ call[w].pc = "smembers"
        /\ \/ \E s \in members :
                /\ call' = [call EXCEPT ![w] = [@ EXCEPT !.pc = "get", !.sid = s]]
                /\ UNCHANGED <<issued, deleted>>
           \/ members = {} /\ Reply(w, "notFound")
           \/ Faults # {} /\ Reply(w, "internal")
        /\ UNCHANGED <<redis, requests, owner, torn>>

\* Redis' clock: keys whose TTL runs out disappear.
Left(t) == IF t \in {0, Forever} THEN t ELSE t - 1

Tick ==
    /\ sessTtl' = [s \in Sessions |-> Left(sessTtl[s])]
    /\ sess' = [s \in Sessions |-> IF sessTtl[s] <= 1 THEN Blank ELSE sess[s]]
    /\ indexTtl' = [u \in Supis |-> Left(indexTtl[u])]
    /\ index' = [u \in Supis |-> IF indexTtl[u] <= 1 THEN {} ELSE index[u]]
    /\ UNCHANGED <<call, requests, history>>

-----------------------------------------------------------------------------
Request(w) ==
    \/ \E s \in Sessions, u \in Supis \cup {NoSupi} : CreateSession(w, s, u)
    \/ \E s \in Sessions : GetSession(w, s)
    \/ \E s \in Sessions, p \in UpdateStatuses : UpdateSessionStatus(w, s, p)
    \/ \E s \in Sessions : DeleteSession(w, s)
    \/ \E u \in Supis : GetSessionBySupi(w, u)

RoundTrip(w) ==
    \/ ReadFound(w) \/ ReadMissing(w) \/ ReadError(w)
    \/ WriteSession(w) \/ WriteSessionError(w)
    \/ WriteIndex(w) \/ WriteIndexError(w)
    \/ RemoveFromIndex(w)
    \/ DeleteKey(w) \/ DeleteKeyError(w)
    \/ ReadMembers(w)

Next == Tick \/ \E w \in Workers : Request(w) \/ RoundTrip(w)

Spec == Init /\ [][Next]_vars

-----------------------------------------------------------------------------
(* Properties.                                                             *)

\* GetSessionBySupi never hands a caller the session of another subscriber,
\* whatever was created, deleted, expired or half-written meanwhile.
NoForeignSession ==
    \A w \in Workers :
        call[w].op = "bySupi" /\ call[w].res = "ok" => owner[call[w].sid] = call[w].supi

\* A call is between the two keys of the session.
Pending(s) == \E w \in Workers : call[w].pc \in {"sadd", "del"} /\ call[w].sid = s

Indexed(s) ==
    /\ s \in index[SupiIndexKey(sess[s].supi)]
    /\ indexTtl[SupiIndexKey(sess[s].supi)] >= sessTtl[s]

\* A live session can be found through its SUPI and its index entry does not
\* expire before it, except while a call is between the two keys of the session
\* or after a failed command of SetSession or DeleteSession tore them apart.
IndexCoversLive ==
    \A s \in Sessions :
        Live(s) /\ sess[s].supi # NoSupi /\ s \notin torn => Pending(s) \/ Indexed(s)

\* Calls and keys agree on whose session an id is: the strengthening that makes
\* NoForeignSession and IndexCoversLive inductive.
CallOwns(c) ==
    /\ c.pc \notin {"idle", "smembers"} => c.sid \in Sessions /\ owner[c.sid] # Unborn
    /\ c.pc \in {"set", "sadd", "srem"} => owner[c.sid] = c.supi
    /\ c.pc \in {"sadd", "srem", "smembers"} => c.supi \in Supis
    /\ c.pc \in {"set", "sadd"} => c.op \in {"create", "update"}
    /\ c.pc \in {"srem", "del"} => c.op = "delete"
    /\ c.pc = "smembers" => c.op = "bySupi"
    /\ c.op = "bySupi" =>
          /\ c.pc \in {"smembers", "get", "idle"}
          /\ c.pc = "get" \/ c.res = "ok" => c.sid \in Sessions /\ owner[c.sid] = c.supi

CallsOwn == \A w \in Workers : CallOwns(call[w])

KeysOwn ==
    /\ \A s \in issued : owner[s] # Unborn
    /\ \A s \in Sessions : Live(s) => owner[s] # Unborn /\ sess[s].supi = owner[s]
    /\ \A u \in Supis : \A s \in index[u] : owner[s] = u

IInv == TypeOK /\ CallsOwn /\ KeysOwn /\ IndexCoversLive

\* Ids are fresh: what is deleted was issued, and a session still being created was
\* not and is the business of one handler.  It makes DeletedUnlessUpdated provable.
Creates(w) == call[w].op = "create" /\ call[w].pc # "idle"

FreshCreates ==
    /\ deleted \subseteq issued
    /\ \A w \in Workers :
          /\ call[w].op = "delete" /\ call[w].pc # "idle" => call[w].sid \in issued
          /\ Creates(w) => /\ call[w].sid \notin issued
                           /\ \A v \in Workers \ {w} : Creates(v) => call[v].sid # call[w].sid

\* A session that DeleteSession reported deleted does not exist any more: what
\* "atomically updates" in UpdateSessionStatus would guarantee.
DeletedStaysDeleted == \A s \in deleted : ~Live(s)

\* Deleted means gone: a session that a DeleteSession reports deleted does not
\* exist then, and it comes back only through an UpdateSessionStatus that had
\* read it before and writes it now.
DeletedUnlessUpdated ==
    [][\A s \in deleted' : (Live(s))' =>
         /\ s \in deleted
         /\ Live(s) \/ \E w \in Workers :
                          call[w].op = "update" /\ call[w].pc = "set" /\ call[w].sid = s]_vars
=============================================================================
