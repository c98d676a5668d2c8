------------------------------- MODULE MCParts -------------------------------
(***************************************************************************)
(* The parts of the library that share no state with the others: a         *)
(* behaviour picks one and runs it alone.  Packet IDs have two low bits    *)
(* and a random part of three values; payloads and noise hold the start    *)
(* bytes; coordinates are four bits wide; the deduplicator's window is one *)
(* tick of four, so that windows open, expire and are opened again.        *)
(***************************************************************************)
EXTENDS PacketId, StreamFraming, Traceroute, PositionPrecision, CoreValues,
        Lifecycle, Dedupe

VARIABLE part
partsVars == <<part, idVars, framingVars, routeVars, positionVars, valueVars, lifeVars,
               dedupeVars>>

mcPayloads == {<<>>, <<Start1>>, <<Start1, Start2>>, <<Start2, 0>>, <<0, 0, 0>>}
mcNoise == {<<0>>, <<Start1, 0>>, <<Start1, Start2, 1, 0>>}
mcNoiseStart == {<<Start1>>}
mcSnrs == {5}

RegionEntry(c, p, d, s) == [code |-> c, profile |-> p, default |-> d, swappable |-> s]
mcRegions ==
    {RegionEntry("us", "std", "fast", FALSE), RegionEntry("slow", "std", "slow", FALSE),
     RegionEntry("eu_866", "lite", "lite", TRUE),
     RegionEntry("eu_n_868", "narrow", "thin", TRUE),
     RegionEntry("kz", "thin", "thin", FALSE),
     RegionEntry("itu2", "ham", "thin", FALSE)}
mcPresets == [std |-> <<"fast", "slow">>, lite |-> <<"lite">>, narrow |-> <<"thin">>,
              thin |-> <<"thin">>, ham |-> <<"thin">>]
mcLicensed == [std |-> FALSE, lite |-> FALSE, narrow |-> FALSE, thin |-> FALSE, ham |-> TRUE]
mcSuperset == <<"lite", "thin", "fast", "slow">>
mcXorHash == [p \in {1, 2} \X {1, 2} |-> IF p[1] = p[2] THEN 0 ELSE 3]

Init ==
    /\ part \in {"ids", "framing", "route", "position", "values", "life", "dedupe"}
    /\ IdInit /\ FramingInit /\ RouteInit /\ PositionInit /\ ValuesInit
    /\ LifeInit /\ DedupeInit
    /\ part # "framing" => wire = <<>>
    /\ part # "life" => kind = "node" /\ enabled = {}
    /\ part # "dedupe" => arg = [c \in Callers |-> CHOOSE k \in Packets : TRUE]

IdsRun ==
    /\ part = "ids" /\ Draw
    /\ UNCHANGED <<part, framingVars, routeVars, positionVars, valueVars, lifeVars, dedupeVars>>
FramingRun ==
    /\ part = "framing" /\ FramingNext
    /\ UNCHANGED <<part, idVars, routeVars, positionVars, valueVars, lifeVars, dedupeVars>>
RouteRun ==
    /\ part = "route" /\ RouteNext
    /\ UNCHANGED <<part, idVars, framingVars, positionVars, valueVars, lifeVars, dedupeVars>>
PositionRun ==
    /\ part = "position" /\ PositionNext
    /\ UNCHANGED <<part, idVars, framingVars, routeVars, valueVars, lifeVars, dedupeVars>>
ValuesRun ==
    /\ part = "values" /\ ValuesNext
    /\ UNCHANGED <<part, idVars, framingVars, routeVars, positionVars, lifeVars, dedupeVars>>
LifeRun ==
    /\ part = "life" /\ LifeNext
    /\ UNCHANGED <<part, idVars, framingVars, routeVars, positionVars, valueVars, dedupeVars>>

DedupeRun ==
    /\ part = "dedupe" /\ DedupeNext
    /\ UNCHANGED <<part, idVars, framingVars, routeVars, positionVars, valueVars, lifeVars>>

Next == IdsRun \/ FramingRun \/ RouteRun \/ PositionRun \/ ValuesRun \/ LifeRun \/ DedupeRun
Spec == Init /\ [][Next]_partsVars

\* Goroutines that can go on do, broadcast functions and transport calls return, and a
\* select whose context stays done takes that case in the end, since Go picks among the
\* ready cases at random.
Ours(A) == part = "life" /\ A /\ UNCHANGED <<part, idVars, framingVars, routeVars,
                                            positionVars, valueVars, dedupeVars>>
FairSpec ==
    /\ Spec
    /\ WF_partsVars(Ours(Install)) /\ WF_partsVars(Ours(Started \/ StartFails))
    /\ WF_partsVars(Ours(NodeReturns)) /\ WF_partsVars(Ours(BridgeReturns))
    /\ WF_partsVars(Ours(ApiReturns))
    /\ WF_partsVars(Ours(ScheduleJobs)) /\ WF_partsVars(Ours(SchedulerReturns))
    /\ \A j \in Jobs : WF_partsVars(Ours(Broadcast(j))) /\ SF_partsVars(Ours(SelectDone(j)))
=============================================================================
