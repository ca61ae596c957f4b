---------------------------- MODULE MCContainers ----------------------------
(***************************************************************************)
(* Two channel ids and the reserved one, two sensors.  Ids and sensors are *)
(* interchangeable, in the fairness and in the properties too: of two      *)
(* behaviours that differ by a permutation of them it is enough to look at *)
(* the one that defines id 1 first and writes the sensor "a" first.        *)
(***************************************************************************)
EXTENDS OticContainers

MCIds == {0, 1, 2}
MCSensors == {"a", "b"}

FirstOnes ==
  /\ chan[1].use # "unused" => chan[1].id = 1
  /\ \A id \in ChannelIds : sent[id] # <<>> =>
       \E i \in ChannelIds : sent[i] # <<>> /\ sent[i][1].sensor = "a"

MCSpec == CInit /\ [][CNext /\ FirstOnes']_cvars /\ WF_cvars(ReadFile)
=============================================================================
