----------------------------- MODULE Locations -----------------------------
(***************************************************************************)
(* LocationsService and the seed of locations: countries, their states and *)
(* the pickup areas of a state, which also name its country.  The database *)
(* keeps no foreign keys: a parent is checked, or counted over, by a       *)
(* request of its own, one step earlier.                                   *)
(***************************************************************************)
EXTENDS FiniteSets

CONSTANTS Country, State, Area,     \* ids, none of which is used twice
          LocationCall              \* requests in flight at a time

ASSUME LocationsAssumption ==
    Country \cap State = {} /\ Country \cap Area = {} /\ State \cap Area = {}

VARIABLES
    country,    \* the stored countries
    state,      \* the stored states: the country of each
    area,       \* the stored areas: the state and the country of each
    locating,   \* the state of every request, and of the seed
    buried,     \* history: the ids that were deleted
    moved,      \* history: the states and areas an update gave another parent
    astray      \* history: those whose parent was gone, or being deleted, when
                \* they were put there

locationVars == <<country, state, area, locating, buried, moved, astray>>

NoRequest == [op |-> "none"]

LocationJob ==
    {NoRequest}
      \cup [op : {"deleteCountry"}, id : Country]
      \cup [op : {"deleteState"}, id : State]
      \cup [op : {"createArea"}, state : State, country : Country]
      \cup [op : {"seedState"}, country : Country]
      \cup [op : {"seedArea"}, state : State, country : Country]

LocationsTypeOK ==
    /\ country \subseteq Country
    /\ state \in [DOMAIN state -> Country] /\ DOMAIN state \subseteq State
    /\ area \in [DOMAIN area -> [state : State, country : Country]] /\ DOMAIN area \subseteq Area
    /\ locating \in [LocationCall -> LocationJob]
    /\ buried \subseteq Country \cup State \cup Area
    /\ moved \subseteq State \cup Area
    /\ astray \subseteq State \cup Area

LocationsInit ==
    /\ country = {} /\ state = << >> /\ area = << >>
    /\ locating = [c \in LocationCall |-> NoRequest]
    /\ buried = {} /\ moved = {} /\ astray = {}

-----------------------------------------------------------------------------
Fresh(id, stored) == id \notin stored \cup buried

\* The collection after doc is written under the id.
Put(stored, id, doc) == [x \in DOMAIN stored \cup {id} |-> IF x = id THEN doc ELSE stored[x]]

\* Deletions that have counted the children.
Leaving == {locating[c].id : c \in {d \in LocationCall :
                                      locating[d].op \in {"deleteCountry", "deleteState"}}}

PutState(s, c) ==
    /\ state' = Put(state, s, c)
    /\ astray' = IF c \in country \ Leaving THEN astray \ {s} ELSE astray \cup {s}
    /\ UNCHANGED <<country, area, buried>>

PutArea(a, s, c) ==
    /\ area' = Put(area, a, [state |-> s, country |-> c])
    /\ astray' = IF s \in DOMAIN state \ Leaving THEN astray \ {a} ELSE astray \cup {a}
    /\ UNCHANGED <<country, state, buried>>

Ask(c, job) == /\ locating[c] = NoRequest
               /\ locating' = [locating EXCEPT ![c] = job]

Answer(c) == locating' = [locating EXCEPT ![c] = NoRequest]

\* The request fails: not found, refused, or taken by a unique index.
Refuse(c) == /\ Answer(c)
             /\ UNCHANGED <<country, state, area, buried, moved, astray>>

-----------------------------------------------------------------------------
\* Also the first upsert of the seed.
CreateCountry(c) ==
    /\ Fresh(c, country)
    /\ country' = country \cup {c}
    /\ UNCHANGED <<state, area, locating, buried, moved, astray>>

\* Whether the country exists is not looked at.
CreateState(s, c) ==
    /\ Fresh(s, DOMAIN state)
    /\ PutState(s, c)
    /\ UNCHANGED <<locating, moved>>

UpdateState(s, c) ==
    /\ s \in DOMAIN state
    /\ state[s] # c
    /\ PutState(s, c)
    /\ moved' = moved \cup {s}
    /\ UNCHANGED locating

\* Mutant: an area may name any country and a state that is stored.
ReadState_Unchecked(call, s, c) ==
    /\ s \in DOMAIN state
    /\ Ask(call, [op |-> "createArea", state |-> s, country |-> c])
    /\ UNCHANGED <<country, state, area, buried, moved, astray>>

\* createArea checks that the state is in the country ...
ReadState(call, s, c) ==
    /\ s \in DOMAIN state
    /\ state[s] = c
    /\ Ask(call, [op |-> "createArea", state |-> s, country |-> c])
    /\ UNCHANGED <<country, state, area, buried, moved, astray>>

\* ... and creates the area.
CreateArea(call, a) ==
    /\ locating[call].op = "createArea"
    /\ Fresh(a, DOMAIN area)
    /\ PutArea(a, locating[call].state, locating[call].country)
    /\ Answer(call)
    /\ UNCHANGED moved

\* Neither is checked here.
UpdateArea(a, s, c) ==
    /\ a \in DOMAIN area
    /\ area[a] # [state |-> s, country |-> c]
    /\ PutArea(a, s, c)
    /\ moved' = moved \cup {a}
    /\ UNCHANGED locating

\* Mutant: nothing is counted.
CountStates_None(call, c) ==
    /\ Ask(call, [op |-> "deleteCountry", id |-> c])
    /\ UNCHANGED <<country, state, area, buried, moved, astray>>

\* deleteCountry; its areas, which it does not count, are in its states unless
\* they are misplaced.
CountStates(call, c) ==
    /\ \A s \in DOMAIN state : state[s] # c
    /\ Ask(call, [op |-> "deleteCountry", id |-> c])
    /\ UNCHANGED <<country, state, area, buried, moved, astray>>

DeleteCountry(call) ==
    /\ locating[call].op = "deleteCountry"
    /\ locating[call].id \in country
    /\ country' = country \ {locating[call].id}
    /\ buried' = buried \cup {locating[call].id}
    /\ Answer(call)
    /\ UNCHANGED <<state, area, moved, astray>>

\* Mutant: the areas are looked for by the country of the state.
CountAreas_Country(call, s) ==
    /\ s \in DOMAIN state
    /\ \A a \in DOMAIN area : area[a].country # state[s]
    /\ Ask(call, [op |-> "deleteState", id |-> s])
    /\ UNCHANGED <<country, state, area, buried, moved, astray>>

\* deleteState
CountAreas(call, s) ==
    /\ \A a \in DOMAIN area : area[a].state # s
    /\ Ask(call, [op |-> "deleteState", id |-> s])
    /\ UNCHANGED <<country, state, area, buried, moved, astray>>

DeleteState(call) ==
    LET s == locating[call].id IN
    /\ locating[call].op = "deleteState"
    /\ s \in DOMAIN state
    /\ state' = [t \in DOMAIN state \ {s} |-> state[t]]
    /\ buried' = buried \cup {s}
    /\ Answer(call)
    /\ UNCHANGED <<country, area, moved, astray>>

DeleteArea(a) ==
    /\ a \in DOMAIN area
    /\ area' = [b \in DOMAIN area \ {a} |-> area[b]]
    /\ buried' = buried \cup {a}
    /\ UNCHANGED <<country, state, locating, moved, astray>>

-----------------------------------------------------------------------------
(* seedLocations, by hand at any time: a state and its areas are found by    *)
(* name within their parent, or created                                      *)

SeedCountry(call, c) ==
    /\ c \in country
    /\ Ask(call, [op |-> "seedState", country |-> c])
    /\ UNCHANGED <<country, state, area, buried, moved, astray>>

SeedState(call, s) ==
    LET c == locating[call].country IN
    /\ locating[call].op = "seedState"
    /\ locating' = [locating EXCEPT ![call] = [op |-> "seedArea", state |-> s, country |-> c]]
    /\ UNCHANGED moved
    /\ \/ Fresh(s, DOMAIN state) /\ PutState(s, c)
       \/ /\ s \in DOMAIN state /\ state[s] = c
          /\ UNCHANGED <<country, state, area, buried, astray>>

\* The update of an area that is found writes its country.
SeedArea(call, a) ==
    LET s == locating[call].state IN
    /\ locating[call].op = "seedArea"
    /\ \/ Fresh(a, DOMAIN area)
       \/ a \in DOMAIN area /\ area[a].state = s
    /\ PutArea(a, s, locating[call].country)
    /\ Answer(call)
    /\ UNCHANGED moved

\* The requests an admin can make, and the other steps.
LocationRequest ==
    \/ \E c \in Country : CreateCountry(c)
    \/ \E s \in State, c \in Country : CreateState(s, c) \/ UpdateState(s, c)
    \/ \E a \in Area : DeleteArea(a) \/ \E s \in State, c \in Country : UpdateArea(a, s, c)
    \/ \E call \in LocationCall, c \in Country :
         CountStates(call, c) \/ \E s \in State : ReadState(call, s, c)
    \/ \E call \in LocationCall, s \in State : CountAreas(call, s)

LocationStep ==
    \E call \in LocationCall :
      \/ \E c \in Country : SeedCountry(call, c)
      \/ \E s \in State : SeedState(call, s)
      \/ \E a \in Area : CreateArea(call, a) \/ SeedArea(call, a)
      \/ DeleteCountry(call) \/ DeleteState(call)
      \/ locating[call] # NoRequest /\ Refuse(call)

-----------------------------------------------------------------------------
\* A deletion leaves nobody behind but those who were put there after it had
\* counted: a state without its country, or an area without its state, came
\* when its parent was gone already or about to go.
OrphansCameLate ==
    /\ \A s \in DOMAIN state : state[s] \in country \/ s \in astray
    /\ \A a \in DOMAIN area : area[a].state \in DOMAIN state \/ a \in astray

\* The country of an area is that of its state, unless an update gave one of
\* them another parent: through overlapping creations, deletions and seeds.
MisplacedOnlyByMoves ==
    \A a \in DOMAIN area :
      area[a].state \in DOMAIN state /\ state[area[a].state] # area[a].country =>
        a \in moved \/ area[a].state \in moved

\* What a deletion that has counted overlooks came after it.
CountsHold ==
    \A call \in LocationCall :
      /\ locating[call].op = "deleteCountry" =>
           \A s \in DOMAIN state : state[s] = locating[call].id => s \in astray
      /\ locating[call].op = "deleteState" =>
           \A a \in DOMAIN area : area[a].state = locating[call].id => a \in astray

\* The state an area was created for, or is to be, is stored or was deleted ...
StatesKnown ==
    /\ \A a \in DOMAIN area \ moved : area[a].state \in DOMAIN state \cup buried
    /\ \A call \in LocationCall :
         locating[call].op \in {"createArea", "seedArea"} =>
           locating[call].state \in DOMAIN state \cup buried

\* ... and is in the country the request has read, if it was not moved.
CountriesHold ==
    \A call \in LocationCall :
      LET job == locating[call] IN
      job.op \in {"createArea", "seedArea"} /\ job.state \in DOMAIN state =>
        state[job.state] = job.country \/ job.state \in moved

\* Deleted ids are not stored again.
BuriedIsGone == buried \cap (country \cup DOMAIN state \cup DOMAIN area) = {}

\* The inductive invariant.
LocationsInv ==
    /\ LocationsTypeOK
    /\ OrphansCameLate
    /\ MisplacedOnlyByMoves
    /\ CountsHold
    /\ StatesKnown
    /\ CountriesHold
    /\ BuriedIsGone
=============================================================================
