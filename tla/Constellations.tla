---------------------------- MODULE Constellations ----------------------------
(***************************************************************************)
(* Constellations and satellites as gnss-engine names them: by a           *)
(* constellation and a PRN in its messages, and by a prefixed string such  *)
(* as "G01" inside, here the pair of the prefix and the PRN.               *)
(***************************************************************************)
EXTENDS Integers, Sequences

Names == {"GPS", "GALILEO", "GLONASS", "BEIDOU", "QZSS"}    \* QZSS: any other name

ConstellationGPS == 0
ConstellationGalileo == 1
ConstellationGLONASS == 2
ConstellationBeiDou == 3

\* An unknown name is taken for GPS.
constellationFromString(c) ==
    CASE c = "GALILEO" -> ConstellationGalileo
      [] c = "GLONASS" -> ConstellationGLONASS
      [] c = "BEIDOU" -> ConstellationBeiDou
      [] OTHER -> ConstellationGPS

constellationToString(c) == <<"GPS", "GALILEO", "GLONASS", "BEIDOU">>[c + 1]

\* A fault: only the prefix of GLONASS and BeiDou was added.
constellationPrefixDefault(c) == CASE c = "GLONASS" -> "R" [] c = "BEIDOU" -> "C" [] OTHER -> "G"

constellationPrefix(c) ==
    CASE c = "GALILEO" -> "E" [] c = "GLONASS" -> "R" [] c = "BEIDOU" -> "C" [] OTHER -> "G"

\* The satellites the provider generates; it has no others.
generateGPSEphemerides == <<1, 7, 13, 15, 21, 27>>
generateGalileoEphemerides == <<1, 3, 9, 18, 21, 31>>

Generated == {ConstellationGPS, ConstellationGalileo}
=============================================================================
