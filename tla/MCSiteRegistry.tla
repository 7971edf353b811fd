---------------------------- MODULE MCSiteRegistry ----------------------------
(***************************************************************************)
(* Three sites in the chain of the naming heuristic, and for the dashboard *)
(* every shape of a site of at most two devices that the overlay tells     *)
(* apart.                                                                  *)
(***************************************************************************)
EXTENDS SiteRegistry

MCSites == {"core", "mdf", "idf"}
MCRole  == [s \in MCSites |-> s]
MCMdfOf == [s \in MCSites |-> IF s = "idf" THEN "mdf" ELSE "none"]

MCSiteLists == {MCSites, {"core", "idf"}}

(* As suggested; and the chain upside down, which the wizard refuses when a    *)
(* site is missing.                                                        *)
MCTyped == {[core |-> {}, mdf |-> {"core"}, idf |-> {"mdf"}],
            [core |-> {"mdf"}, mdf |-> {"idf"}, idf |-> {}]}

Row(state, reason, online) ==
    [state |-> state, reason |-> reason, online |-> online, blocked |-> FALSE, alerts |-> TRUE,
     key |-> "other"]

Up      == Row("healthy", "reachable", TRUE)
Stale   == Row("healthy", "reachable", FALSE)
Hot     == Row("warning", "temperature_threshold", TRUE)
Down    == Row("critical", "direct_unreachable", FALSE)
NoState == Row("none", "", FALSE)
Shadow  == [Row("unknown", "upstream_unreachable", FALSE) EXCEPT !.blocked = TRUE]
Ignored == [Down EXCEPT !.alerts = FALSE]

(* The hub has an address of its own, or that of the other device.         *)
Two(hub, other) ==
    [d \in {"hub", "other"} |-> IF d = "hub" THEN [hub EXCEPT !.key = "hub"] ELSE other]
Shared(hub, other) == [d \in {"hub", "other"} |-> IF d = "hub" THEN hub ELSE other]

MCDeviceChoices ==
    {Two(Up, Hot), Two(Down, Shadow), Two(Up, Down), Two(Ignored, Down), Shared(Down, Hot),
     Two(Stale, Stale), [d \in {"hub"} |-> NoState], [d \in {} |-> Up]}
=============================================================================
