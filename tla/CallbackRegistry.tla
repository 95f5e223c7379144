-------------------------- MODULE CallbackRegistry --------------------------
(***************************************************************************)
(* common/callbackregistry: AMF callbacks reach the LPP flow that waits    *)
(* for them through a Redis pub/sub channel per SUPI.  sbi-gateway         *)
(* publishes, protocol-handler subscribes.  Each Register starts a         *)
(* goroutine that takes the first message only and puts it in a channel of *)
(* capacity one; it ends with that message, or when its connection to      *)
(* Redis breaks.  The read has no deadline, so the end of the flow's       *)
(* context does not wake it.  A message carries no session: what is in     *)
(* flow and kind below is known to the UE, not to the registry.            *)
(***************************************************************************)
EXTENDS Naturals

CONSTANTS
    Flows,     \* LPP flows, each a gRPC handler of protocol-handler
    Supis,
    SupiOf,    \* the UE of each flow
    NoMessage  \* what a Go channel holds before its message arrives

NoFlow == "noFlow"
Kinds == {"PC", "RAD", "ACK", "PLI"}   \* uplink messages, and the waits for them
Message == [kind : Kinds, supi : Supis, flow : Flows \cup {NoFlow}]

ASSUME FlowsAssumption == SupiOf \in [Flows -> Supis] /\ NoMessage \notin Message

VARIABLES
    listeners,   \* for each flow, the waits whose goroutine still listens
    ch           \* ch[f][k]: the Go channel of wait k of flow f

registryVars == <<listeners, ch>>

RegistryTypeOK ==
    /\ listeners \in [Flows -> SUBSET Kinds]
    /\ ch \in [Flows -> [Kinds -> Message \cup {NoMessage}]]

RegistryInit ==
    /\ listeners = [f \in Flows |-> {}]
    /\ ch = [f \in Flows |-> [k \in Kinds |-> NoMessage]]

\* A fault: one channel for all.
channelKeyShared(u) == "lmf:callback"

\* Channels of Redis: one per SUPI.
channelKey(u) == u

\* A fault: the goroutine's context ends when Register returns.
RegisterScoped(f, k) ==
    /\ ch' = [ch EXCEPT ![f][k] = NoMessage]
    /\ UNCHANGED listeners

\* The subscription is confirmed before Register returns.
Register(f, k) ==
    /\ listeners' = [listeners EXCEPT ![f] = @ \cup {k}]
    /\ ch' = [ch EXCEPT ![f][k] = NoMessage]

Receivers(u) == {f \in Flows : channelKey(SupiOf[f]) = channelKey(u) /\ listeners[f] # {}}

\* PUBLISH: every goroutine that listens to the channel takes the message and
\* ends.  Without one the message is gone, and Deliver returns false.
Deliver(m) ==
    /\ ch' = [f \in Flows |->
                IF f \in Receivers(m.supi)
                THEN [k \in Kinds |-> IF k \in listeners[f] THEN m ELSE ch[f][k]]
                ELSE ch[f]]
    /\ listeners' = [f \in Flows |-> IF f \in Receivers(m.supi) THEN {} ELSE listeners[f]]

\* ReceiveMessage returns an error, whether the flow still waits or not: the
\* goroutine ends, the channel stays empty, and nothing subscribes again.
ReceiveFails(f, k) ==
    /\ k \in listeners[f]
    /\ listeners' = [listeners EXCEPT ![f] = @ \ {k}]
    /\ UNCHANGED ch

\* The body case of the select in WaitOnChannel.
Arrived(f, k) == ch[f][k] # NoMessage
=============================================================================
