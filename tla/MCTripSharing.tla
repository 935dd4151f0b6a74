--------------------------- MODULE MCTripSharing ---------------------------
(* Two users and a superuser, two trips, and one plan beside one to create. *)
EXTENDS TripSharing, TLC

CONSTANTS ann, bob, root, t1, t2, p1, p2

MCUsers == {ann, bob, root}
MCTrips == {t1, t2}
MCPlans == {p1, p2}
MCLists == {{}, {bob, root}}
MCRules == {[mode |-> "everyone", named |-> {}], [mode |-> "hidden_from", named |-> {bob}],
            [mode |-> "only_visible_to", named |-> {bob}]}

Unborn(row) == [row EXCEPT !.state = "unborn"]
TripOf(c, a, b, r) == [state |-> "live", creator |-> c,
                       role |-> (ann :> a @@ bob :> b @@ root :> r)]
PlanOn(t, c, pax, mode, named) ==
    [GonePlan EXCEPT !.state = "live", !.trip = t, !.creator = c,
                     !.pax = pax, !.mode = mode, !.named = named]

\* Ann's trip with bob as editor, beside a trip of bob's own.
TwoTrips == [trip |-> (t1 :> TripOf(ann, "owner", "editor", "none")
                       @@ t2 :> TripOf(bob, "none", "owner", "none")),
             plan |-> (p1 :> PlanOn(t1, ann, {ann}, "everyone", {}) @@ p2 :> Unborn(GonePlan))]

\* A trip whose creator has left it to bob, with a plan hidden from a viewer.
HandedOver == [trip |-> (t1 :> TripOf(ann, "none", "owner", "viewer") @@ t2 :> Unborn(GoneTrip)),
               plan |-> (p1 :> PlanOn(t1, bob, {}, "hidden_from", {root}) @@ p2 :> Unborn(GonePlan))]

MCSeeds == {TwoTrips, HandedOver}
OneSeed == {TwoTrips}
=============================================================================
