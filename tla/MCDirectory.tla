---------------------------- MODULE MCDirectory ----------------------------
(* On small instances, one at a time; the admins who may ask for locations,   *)
(* items and broadcasts are those of the first.                               *)
EXTENDS Directory, TLC

VARIABLE scope      \* which of the five; no step changes it

MCVars == <<vars, scope>>

MCInit == Init /\ scope \in {"admins", "locations", "catalogue", "registration", "inbox"}

MCNext ==
    /\ scope' = scope
    /\ \/ scope = "admins"       /\ AdminsPart
       \/ scope = "locations"    /\ LocationsPart
       \/ scope = "catalogue"    /\ CataloguePart
       \/ scope = "registration" /\ RegistrationPart
       \/ scope = "inbox"        /\ InboxPart

MCGrants == {}

CONSTANTS Id, Call       \* shared by the parts, of which only one takes steps

MCSymmetry == Permutations(Id) \cup Permutations(Call) \cup Permutations(State)
=============================================================================
