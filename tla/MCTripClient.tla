---------------------------- MODULE MCTripClient ----------------------------
(* The browsers of the two users of MCTripSharing, with one request.        *)
EXTENDS MCTripSharing, TripClient
=============================================================================
