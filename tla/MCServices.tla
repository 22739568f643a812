----------------------------- MODULE MCServices -----------------------------
(***************************************************************************)
(* Small instances of the request-driven components: the routing quota,    *)
(* the portal rate limiter, the artifact store, the buyer's settings and   *)
(* ratings, matching and the parser benchmark.  They share no state, so a  *)
(* behaviour exercises one of them, the one `focus' names, and the others  *)
(* stay as they were initialised.                                          *)
(***************************************************************************)
EXTENDS RoutingQuota, PortalRateLimit, ArtifactStore, BuyerDesk, Matching,
        Benchmark, TLC

VARIABLE focus

serviceVars == <<focus, quotaVars, rateVars, storeVars, deskVars, offers, benchVars>>

Only(component, unchanged) == focus = component /\ UNCHANGED <<focus, unchanged>>

ServicesInit ==
    /\ focus \in {"quota", "rate", "store", "settings", "ratings", "matching", "benchmark"}
    /\ QuotaInit /\ RateInit /\ StoreInit /\ DeskInit /\ MatchInit /\ BenchInit

ServicesNext ==
    \/ Only("quota", <<rateVars, storeVars, deskVars, offers, benchVars>>) /\ QuotaNext
    \/ Only("rate", <<quotaVars, storeVars, deskVars, offers, benchVars>>) /\ RateNext
    \/ Only("store", <<quotaVars, rateVars, deskVars, offers, benchVars>>) /\ StoreNext
    \/ Only("settings", <<quotaVars, rateVars, storeVars, offers, benchVars>>) /\ SettingsNext
    \/ Only("ratings", <<quotaVars, rateVars, storeVars, offers, benchVars>>) /\ RatingNext
    \/ Only("matching", <<quotaVars, rateVars, storeVars, deskVars, benchVars>>) /\ MatchNext
    \/ Only("benchmark", <<quotaVars, rateVars, storeVars, deskVars, offers>>) /\ BenchNext

(* As in StoreSpec, for the behaviours of the store.                       *)
ServicesFairness ==
    /\ \A a \in Actor : SF_storeVars(focus = "store" /\ StoreStep(a))
    /\ SF_storeVars(focus = "store" /\ \E a \in Actor : RequestExpire(a))

ServicesSpec == ServicesInit /\ [][ServicesNext]_serviceVars /\ ServicesFairness

-----------------------------------------------------------------------------
(* Two enrichers whose listings need the same routes in opposite order.    *)
MCPlanOf == "e1" :> <<"q1", "q2">> @@ "e2" :> <<"q2", "q1">>

(* Every threshold of the profile is met exactly or missed by one; heating *)
(* and costs of the first offer lie on their limits.                       *)
GoodOffer ==
    [transaction |-> "purchase", market |-> "secondary", evidence |-> Unknown,
     vacant |-> TRUE, ownership |-> TRUE, legalRisk |-> FALSE,
     locality |-> "north",
     cost |-> [price |-> 60, extras |-> 5, closing |-> 3, renovation |-> 7,
               contingency |-> 5, financed |-> 60, installment |-> 4],
     area |-> 50, rooms |-> 2, layout |-> TRUE, floor |-> 1, top |-> 5,
     garden |-> FALSE, elevator |-> FALSE, parking |-> TRUE, dwellings |-> 80,
     commute |-> 45, ready |-> TRUE, quiet |-> TRUE, green |-> FALSE,
     balcony |-> TRUE, kitchen |-> FALSE, fee |-> 500, feeHeating |-> TRUE,
     heating |-> "district", presented |-> Unknown, changed |-> FALSE]

MCFirstFacts ==
    <<[GoodOffer EXCEPT !.floor = Unknown, !.top = Unknown, !.garden = Unknown],
      [GoodOffer EXCEPT !.market = "primary", !.floor = 4, !.elevator = Unknown],
      [GoodOffer EXCEPT !.locality = "south", !.legalRisk = Unknown,
                        !.area = Unknown, !.heating = "gas"]>>

MCDiscovery ==
    ({<<1, "floor">>} \X {0, 4}) \cup ({<<1, "top">>} \X {4, 5})
        \cup ({<<3, "area">>} \X {39, 90})
MCDiscoveryFlags ==
    {<<1, "garden">>, <<2, "elevator">>, <<3, "legalRisk">>} \X BOOLEAN
MCEvidence == {<<2, "evidence">>} \X {"pass", "fail"}
MCAllDiscovery ==
    {<<d[1][1], d[1][2], d[2]>> : d \in MCDiscovery}
        \cup {<<d[1][1], d[1][2], d[2]>> : d \in MCDiscoveryFlags}
        \cup {<<d[1][1], d[1][2], d[2]>> : d \in MCEvidence}

MCProfile ==
    [excluded |-> {"skawina"}, maxPrice |-> 80, cash |-> 20,
     maxInstallment |-> 4, minArea |-> 40, minRooms |-> 2,
     maxDwellings |-> 80, maxCommute |-> 45, referenceFee |-> 500,
     heating |-> "district", idealLow |-> 48, idealHigh |-> 55]

MCWeight ==
    [ready |-> 25, quiet |-> 20, green |-> 15, balcony |-> 10, kitchen |-> 10,
     small_building |-> 10, area_fit |-> 10]

(* Three artifacts of one stratum and variant and one of another, which    *)
(* the candidate changes and which expires later.                          *)
MCRaw == 1..4
MCStratumOf == <<1, 1, 1, 2>>
MCVariantOf == <<"v", "v", "v", "w">>
MCExpiryOf == <<1, 1, 1, 2>>

=============================================================================
