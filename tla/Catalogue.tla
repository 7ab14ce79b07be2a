----------------------------- MODULE Catalogue -----------------------------
(***************************************************************************)
(* ItemsService, the seed of items, and DepositsService.create, which      *)
(* copies the points of an item into the new deposit.                      *)
(***************************************************************************)
EXTENDS Naturals, FiniteSets

CONSTANTS Item,             \* ids, none of which is used twice
          Price,            \* points per pickup
          Request,          \* deposits to be, and the requests that create them
          CatalogueCall     \* requests of admins, in flight at a time

VARIABLES
    item,       \* the stored items: a function on their ids
    toggling,   \* the toggles that have read their item
    request,    \* the requests for deposits, and what they stored
    offered,    \* history: the points each item was active with
    withdrawn,  \* history: the items that were deleted
    stale       \* history: the toggles whose item changed its status since

catalogueVars == <<item, toggling, request, offered, withdrawn, stale>>

ItemType == [points : Price, active : BOOLEAN]
NoToggle == [pc |-> "none"]
NotMade  == [pc |-> "none"]

CatalogueTypeOK ==
    /\ DOMAIN item \subseteq Item
    /\ item \in [DOMAIN item -> ItemType]
    /\ toggling \in [CatalogueCall ->
         {NoToggle} \cup [pc : {"toggle"}, id : Item, seen : BOOLEAN]]
    /\ stale \subseteq CatalogueCall
    /\ request \in [Request -> {NotMade} \cup [pc : {"copy", "stored"}, item : Item,
                                               points : Price]]
    /\ offered \subseteq Item \X Price
    /\ withdrawn \subseteq Item \ DOMAIN item

CatalogueInit ==
    /\ item = << >>
    /\ toggling = [c \in CatalogueCall |-> NoToggle]
    /\ request = [d \in Request |-> NotMade]
    /\ offered = {} /\ withdrawn = {} /\ stale = {}

Offers(items) == {x \in Item \X Price : /\ x[1] \in DOMAIN items
                                        /\ items[x[1]] = [points |-> x[2], active |-> TRUE]}

\* The items become items; c holds the toggle that this ends, if any.
Change(items, c) ==
    /\ item' = items
    /\ offered' = offered \cup Offers(items)
    /\ toggling' = [d \in CatalogueCall |-> IF d \in c THEN NoToggle ELSE toggling[d]]
    /\ stale' = {d \in CatalogueCall \ c :
                   \/ d \in stale
                   \/ /\ toggling[d] # NoToggle /\ toggling[d].id \in DOMAIN items
                      /\ items[toggling[d].id].active # item[toggling[d].id].active}
    /\ withdrawn' = withdrawn \cup (DOMAIN item \ DOMAIN items)
    /\ UNCHANGED request

With(i, doc) == [j \in DOMAIN item \cup {i} |-> IF j = i THEN doc ELSE item[j]]

-----------------------------------------------------------------------------
(* Items *)

\* Also by the seed, which finds an item by its name.
CreateItem(i, points) ==
    /\ i \notin DOMAIN item \cup withdrawn
    /\ Change(With(i, [points |-> points, active |-> TRUE]), {})

UpdateItem(i, points) ==
    /\ i \in DOMAIN item
    /\ Change([item EXCEPT ![i].points = points], {})

SeedItem(i, points) ==
    /\ i \in DOMAIN item
    /\ Change([item EXCEPT ![i] = [points |-> points, active |-> TRUE]], {})

\* Refused, perhaps, if a deposit refers to the item.
DeleteItem(i) ==
    /\ i \in DOMAIN item
    /\ Change([j \in DOMAIN item \ {i} |-> item[j]], {})

BeginToggleItem(c, i) ==
    /\ i \in DOMAIN item
    /\ toggling[c] = NoToggle
    /\ toggling' = [toggling EXCEPT ![c] = [pc |-> "toggle", id |-> i,
                                            seen |-> item[i].active]]
    /\ UNCHANGED <<item, request, offered, withdrawn, stale>>

\* Mutant: a toggle only ever switches off.
Flipped_Off(seen) == FALSE

Flipped(seen) == ~seen

ToggleItem(c) ==
    /\ toggling[c] # NoToggle
    /\ toggling[c].id \in DOMAIN item
    /\ Change([item EXCEPT ![toggling[c].id].active = Flipped(toggling[c].seen)], {c})

\* The item is gone, or the process dies.
DropToggle(c) == toggling[c] # NoToggle /\ Change(item, {c})

-----------------------------------------------------------------------------
(* Deposits *)

\* Mutant: an item that is switched off is accepted.
Orderable_Any(i) == i \in DOMAIN item

Orderable(i) == i \in DOMAIN item /\ item[i].active

\* With a location, an image and a date to come.
BeginDeposit(d, i) ==
    /\ request[d] = NotMade
    /\ Orderable(i)
    /\ request' = [request EXCEPT ![d] = [pc |-> "copy", item |-> i, points |-> item[i].points]]
    /\ UNCHANGED <<item, toggling, offered, withdrawn, stale>>

\* What the item has become is not looked at again.
CreateDeposit(d) ==
    /\ request[d].pc = "copy"
    /\ request' = [request EXCEPT ![d].pc = "stored"]
    /\ UNCHANGED <<item, toggling, offered, withdrawn, stale>>

DropDeposit(d) ==
    /\ request[d].pc = "copy"
    /\ request' = [request EXCEPT ![d] = NotMade]
    /\ UNCHANGED <<item, toggling, offered, withdrawn, stale>>

ItemRequest ==
    \E i \in Item :
      \/ \E points \in Price : CreateItem(i, points) \/ UpdateItem(i, points)
      \/ DeleteItem(i)
      \/ \E c \in CatalogueCall : BeginToggleItem(c, i)

CatalogueStep ==
    \/ \E i \in Item, points \in Price : SeedItem(i, points)
    \/ \E c \in CatalogueCall : ToggleItem(c) \/ DropToggle(c)
    \/ \E d \in Request : \/ CreateDeposit(d) \/ DropDeposit(d)
                          \/ \E i \in Item : BeginDeposit(d, i)

-----------------------------------------------------------------------------
\* A deposit is worth what its item was offered for at some moment: never a
\* price the item only had while it was switched off, whatever admins change
\* before the deposit is stored or afterwards.
SnapshotWasOffered ==
    \A d \in Request : request[d].pc = "stored" => <<request[d].item, request[d].points>> \in offered

\* So is every price a request has copied, and every price of an active item.
CopiesWereOffered ==
    /\ Offers(item) \subseteq offered
    /\ \A d \in Request : request[d] # NotMade => <<request[d].item, request[d].points>> \in offered

\* A toggle that is not stale has read the status its item still has.
FreshToggles ==
    \A c \in CatalogueCall \ stale :
      toggling[c] # NoToggle /\ toggling[c].id \in DOMAIN item =>
        item[toggling[c].id].active = toggling[c].seen

\* The item a toggle has read is stored, or was deleted for good.
TogglesKnown ==
    \A c \in CatalogueCall :
      toggling[c] # NoToggle => toggling[c].id \in DOMAIN item \cup withdrawn

\* The inductive invariant.
CatalogueInv == CatalogueTypeOK /\ CopiesWereOffered /\ FreshToggles /\ TogglesKnown

\* A toggle changes the status, unless another request changed it after the
\* toggle had read it: then the two may cancel out.
TogglesFlip ==
    [][\A c \in CatalogueCall : ToggleItem(c) /\ c \notin stale =>
         item'[toggling[c].id].active # item[toggling[c].id].active]_<<item, toggling>>
=============================================================================
