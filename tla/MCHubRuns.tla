----------------------------- MODULE MCHubRuns ------------------------------
(* Instances of HubRuns for TLC. *)
EXTENDS HubRuns

(* Run ids are opaque, and so are the clients that are not bound to voice. *)
Symmetry == Permutations(Run) \cup Permutations(Client \ {VoiceClient})
=============================================================================
