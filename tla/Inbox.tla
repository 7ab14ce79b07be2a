------------------------------- MODULE Inbox -------------------------------
(***************************************************************************)
(* NotificationsService: the notifications of the users, who read them one *)
(* by one or all at once, and the broadcast of an admin.  Each becomes a   *)
(* job of the push queue too, which is in PushQueue.                       *)
(***************************************************************************)
EXTENDS Naturals, FiniteSets

CONSTANTS Reader,           \* the users
          Note,             \* ids of notifications
          MaxReads          \* bound: requests that mark notifications

ASSUME InboxAssumption == MaxReads \in Nat

VARIABLES
    reachable,  \* the active users
    note,       \* the notifications collection: a function on the stored ids
    sending,    \* the users a broadcast has found and not tried yet
    reads,      \* requests that marked notifications so far: the clock
    audience    \* history: the users the broadcast found

inboxVars == <<reachable, note, sending, reads, audience>>

\* readAt is 0 until the notification is read.
InboxTypeOK ==
    /\ reachable \subseteq Reader
    /\ DOMAIN note \subseteq Note
    /\ note \in [DOMAIN note -> [user : Reader, readAt : 0..MaxReads, broadcast : BOOLEAN]]
    /\ sending \subseteq audience /\ audience \subseteq Reader
    /\ reads \in 0..MaxReads

InboxInit == /\ reachable = Reader
             /\ note = [n \in {} |-> {}]
             /\ sending = {} /\ audience = {}
             /\ reads = 0

ToggleReader(u) ==
    /\ reachable' = IF u \in reachable THEN reachable \ {u} ELSE reachable \cup {u}
    /\ UNCHANGED <<note, sending, reads, audience>>

Stored(n, u, broadcast) ==
    /\ n \notin DOMAIN note
    /\ note' = [m \in DOMAIN note \cup {n} |->
                  IF m = n THEN [user |-> u, readAt |-> 0, broadcast |-> broadcast] ELSE note[m]]

\* Whatever goes wrong is logged, and the caller goes on.
NotifyUserSafely(n, u) ==
    /\ Stored(n, u, FALSE)
    /\ UNCHANGED <<reachable, sending, reads, audience>>

\* To all active users, or to those of them the admin names; once, here.
Broadcast(to) ==
    /\ audience = {}
    /\ audience' = reachable \cap to
    /\ sending' = audience'
    /\ UNCHANGED <<reachable, note, reads>>

\* Each on its own: one that fails does not stop the others.
BroadcastTo(n, u) ==
    /\ u \in sending
    /\ sending' = sending \ {u}
    /\ Stored(n, u, TRUE) \/ UNCHANGED note
    /\ UNCHANGED <<reachable, reads, audience>>

\* Mutant: what is read already is not excepted.
Unread_All(u) == {n \in DOMAIN note : note[n].user = u}

Unread(u) == {n \in DOMAIN note : note[n].user = u /\ note[n].readAt = 0}

\* markRead and markAllRead
Mark(u, ids) ==
    /\ reads < MaxReads
    /\ reads' = reads + 1
    /\ note' = [n \in DOMAIN note |->
                  IF n \in Unread(u) \cap ids THEN [note[n] EXCEPT !.readAt = reads'] ELSE note[n]]
    /\ UNCHANGED <<reachable, sending, audience>>

InboxNext ==
    \E u \in Reader :
      \/ ToggleReader(u)
      \/ Mark(u, Note)
      \/ \E n \in Note : NotifyUserSafely(n, u) \/ BroadcastTo(n, u) \/ Mark(u, {n})

-----------------------------------------------------------------------------
\* A notification keeps the time it was first read, however often its user
\* marks it, or all of his, again; nothing else of it ever changes.
FirstReadStands ==
    [][\A n \in DOMAIN note :
         \/ note'[n] = note[n]
         \/ note[n].readAt = 0 /\ note'[n] = [note[n] EXCEPT !.readAt = reads']]_note
=============================================================================
