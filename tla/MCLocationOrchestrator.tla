----------------------- MODULE MCLocationOrchestrator -----------------------
(* Two requests for one subscriber, and what its UE may report.            *)
EXTENDS LocationOrchestrator, TLC

CONSTANTS u1

OneSubscriber == [r \in Requests |-> u1]

\* No report, capabilitiesFromDSX, hardcodedUeCapabilities, and E-CID only.
Reports == {{}, {"AGNSS", "DLTDOA", "NREcid"}, {"AGNSS", "DLTDOA", "MultiRTT", "NREcid"},
            {"NREcid"}}

\* capabilitiesFromDSX, what a UE that answers is taken to support.
DsxReport == {{"AGNSS", "DLTDOA", "NREcid"}}

Symmetry == Permutations(Requests) \cup Permutations(Sessions) \cup Permutations(Workers)
=============================================================================
