----------------------------- MODULE Directory -----------------------------
(***************************************************************************)
(* The parts of the system that admins and users fill with data, each with *)
(* the guard its controller puts in front of it.                           *)
(***************************************************************************)
EXTENDS Admins, Locations, Catalogue, Registration, Inbox

vars == <<adminVars, locationVars, catalogueVars, registrationVars, inboxVars>>

Init == AdminsInit /\ LocationsInit /\ CatalogueInit /\ RegistrationInit /\ InboxInit

Somebody(permission) == \E a \in Admin : May(a, permission)

AdminsPart ==
    AdminsNext /\ UNCHANGED <<locationVars, catalogueVars, registrationVars, inboxVars>>

\* Every route of locations but the listings for users wants MANAGE_LOCATIONS.
LocationsPart ==
    /\ \/ Somebody("MANAGE_LOCATIONS") /\ LocationRequest
       \/ LocationStep
    /\ UNCHANGED <<adminVars, catalogueVars, registrationVars, inboxVars>>

\* The routes that change items want MANAGE_DEPOSITS.
CataloguePart ==
    /\ \/ Somebody("MANAGE_DEPOSITS") /\ ItemRequest
       \/ CatalogueStep
    /\ UNCHANGED <<adminVars, locationVars, registrationVars, inboxVars>>

RegistrationPart ==
    RegistrationNext /\ UNCHANGED <<adminVars, locationVars, catalogueVars, inboxVars>>

InboxPart ==
    /\ \/ Somebody("SYSTEM_SETTINGS") /\ \E to \in SUBSET Reader : Broadcast(to)
       \/ InboxNext
    /\ UNCHANGED <<adminVars, locationVars, catalogueVars, registrationVars>>

Next == AdminsPart \/ LocationsPart \/ CataloguePart \/ RegistrationPart \/ InboxPart

Spec == Init /\ [][Next]_vars

-----------------------------------------------------------------------------
\* The inductive invariants of the parts together: what is stored has its type,
\* email addresses, user names and phone numbers mean one account each although
\* they are only looked up before the write, and every request in flight still
\* knows what its check has read, or what has overtaken it is on record.
DirectoryInv == AdminsInv /\ LocationsInv /\ CatalogueInv /\ RegistrationInv /\ InboxTypeOK
=============================================================================
