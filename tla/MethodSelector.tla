--------------------------- MODULE MethodSelector ---------------------------
(***************************************************************************)
(* The method-selector service (MS-05): which positioning methods a        *)
(* location request attempts, and in which order.  The service keeps no    *)
(* state; these are the functions it computes, with the conversions of its *)
(* gRPC server and of the adapter that calls it.                           *)
(***************************************************************************)
EXTENDS Naturals, SequencesExt

\* Values of types.PositioningMethod; Unspecified is the zero value.
Methods == {"AGNSS", "DLTDOA", "OTDOA", "MultiRTT", "NREcid", "WLAN", "Bluetooth",
            "Barometric", "CellID"}
Unspecified == ""

\* What a UE can report to support.
Capabilities == {"AGNSS", "DLTDOA", "MultiRTT", "NREcid", "WLAN", "Bluetooth", "Barometric"}

ResponseTimes == {"NoDelay", "LowDelay", "DelayTolerant", "DelayTolerantV2"}

\* caps: set of Capabilities; accuracy: horizontal accuracy in metres, 0: not set.
Input(caps, accuracy, response, indoor) ==
    [caps |-> caps, accuracy |-> accuracy, response |-> response, indoor |-> indoor]

-----------------------------------------------------------------------------
\* Those of a list that are in S, in the order of the list: the k-th has k - 1 of them
\* before it.
Preferred(order, S) ==
    LET places == {i \in DOMAIN order : order[i] \in S}
    IN  [k \in 1 .. Cardinality(places) |->
            order[CHOOSE i \in places : Cardinality({j \in places : j <= i}) = k]]

\* The default of every class: E-CID when the UE has it, else the cell.
Default(caps) == IF "NREcid" \in caps THEN <<"NREcid">> ELSE <<"CellID">>

HighAccuracy(caps, indoor) ==
    CASE "AGNSS" \in caps /\ ~indoor -> <<"AGNSS">> \o Preferred(<<"DLTDOA">>, caps)
      [] ~("AGNSS" \in caps /\ ~indoor) /\ "WLAN" \in caps -> <<"WLAN", "DLTDOA">>
      [] OTHER -> LET one == Preferred(<<"Bluetooth", "DLTDOA">>, caps)
                  IN  IF one = <<>> THEN <<>> ELSE <<Head(one)>>

MediumAccuracy(caps) ==
    IF "DLTDOA" \in caps THEN <<"DLTDOA", "MultiRTT">> ELSE Preferred(<<"MultiRTT">>, caps)

\* The methods of the request's class, without those of the fallback list.
Primary(in) ==
    LET tolerant == CASE in.accuracy <= 10 -> HighAccuracy(in.caps, in.indoor)
                      [] in.accuracy \in 11 .. 50 -> MediumAccuracy(in.caps)
                      [] OTHER -> <<>>
        ranging == Preferred(<<"MultiRTT", "NREcid">>, in.caps)
    IN  CASE in.response = "NoDelay" -> Default(in.caps)
          [] in.response = "LowDelay" -> IF ranging = <<>> THEN <<"CellID">> ELSE ranging
          [] OTHER -> IF tolerant = <<>> THEN Default(in.caps) ELSE tolerant

Candidates == <<"AGNSS", "DLTDOA", "MultiRTT", "NREcid", "WLAN", "Bluetooth", "CellID">>

BuildFallbacks(primary, caps) ==
    Preferred(Candidates, (caps \cup {"CellID"}) \ ToSet(primary))

\* Metres a method is expected to be off by.
EstimateAccuracy(m) ==
    CASE m = "Barometric" -> 3
      [] m \in {"AGNSS", "Bluetooth"} -> 5
      [] m = "WLAN" -> 20
      [] m \in {"DLTDOA", "MultiRTT"} -> 30
      [] m = "OTDOA" -> 50
      [] m = "NREcid" -> 150
      [] m = "CellID" -> 500
      [] OTHER -> 1000

\* Milliseconds a method is expected to take.
EstimateResponseMs(m) ==
    CASE m = "CellID" -> 100
      [] m = "NREcid" -> 500
      [] m \in {"MultiRTT", "Bluetooth"} -> 2000
      [] m \in {"DLTDOA", "OTDOA", "WLAN"} -> 3000
      [] m = "AGNSS" -> 10000
      [] OTHER -> 5000

Result(selected, fallbacks) ==
    [selected |-> selected, fallbacks |-> fallbacks,
     accuracy |-> EstimateAccuracy(selected), ms |-> EstimateResponseMs(selected)]

\* SelectMethod: a request without delay has the cell as its only fallback.
SelectMethod(in) ==
    LET primary == Primary(in)
    IN  Result(Head(primary),
               IF in.response = "NoDelay"
               THEN Preferred(<<"CellID">>, Methods \ {Head(primary)})
               ELSE Tail(primary) \o BuildFallbacks(primary, in.caps))

\* The methods to attempt, in order.
Plan(in) == LET r == SelectMethod(in) IN <<r.selected>> \o r.fallbacks

-----------------------------------------------------------------------------
(* The conversions on the way from the orchestrator and back.              *)

\* The enum of the protocol; "" is a types value that was not set.
typesResponseTimeToPb(rt) == IF rt \in ResponseTimes THEN rt ELSE "DelayTolerant"

\* A request without capabilities, and what it is taken to support.
NoCapabilities == {"nil"}
AssumedCapabilities == {"AGNSS", "DLTDOA", "MultiRTT", "NREcid"}

\* The server keeps the accuracy and replaces the response time.
PbReqToTypes(req) ==
    [req EXCEPT !.caps = IF @ = NoCapabilities THEN AssumedCapabilities ELSE @,
                !.response = "DelayTolerant"]

\* A fault: a method is missing in the table.
PbMethodToTypesGap(m) == IF m \in Methods \ {"CellID"} THEN m ELSE Unspecified

\* Both tables know every method, and the zero value stands for the others.
typesMethodToPb(m) == IF m \in Methods THEN m ELSE Unspecified
PbMethodToTypes(m) == IF m \in Methods THEN m ELSE Unspecified

\* An unknown method is left out of the fallbacks, and selected as the zero value.
Known(methods, Table(_)) ==
    Preferred([i \in DOMAIN methods |-> Table(methods[i])], Methods)
TypesResultToPb(r) ==
    [r EXCEPT !.selected = typesMethodToPb(@), !.fallbacks = Known(@, typesMethodToPb)]

\* What the orchestrator receives: the methods to attempt, in order.
Select(in) ==
    LET r == TypesResultToPb(SelectMethod(PbReqToTypes(
                [in EXCEPT !.response = typesResponseTimeToPb(@)])))
    IN  <<PbMethodToTypes(r.selected)>> \o Known(r.fallbacks, PbMethodToTypes)

-----------------------------------------------------------------------------
(* What a plan promises.                                                   *)

\* Methods of which the second is attempted after the first without a look at what the
\* UE supports.
Partners == {<<"WLAN", "DLTDOA">>, <<"DLTDOA", "MultiRTT">>}

\* The first method is one the UE supports, whatever branch of the selection tree
\* chose it; only the hard-wired partner of WLAN or DL-TDOA is attempted
\* unsupported, right after it; nothing is attempted twice; and every method the
\* selector knows and the UE supports is attempted, except without delay.
Sound(plan, caps, noDelay) ==
    LET supported == caps \cup {"CellID"}
    IN  /\ Head(plan) \in supported
        /\ \A i \in DOMAIN plan :
              plan[i] \notin supported => i = 2 /\ <<plan[1], plan[2]>> \in Partners
        /\ IsInjective(plan)
        /\ noDelay \/ (supported \ {"Barometric"}) \subseteq ToSet(plan)
=============================================================================
