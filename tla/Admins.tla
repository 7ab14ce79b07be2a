------------------------------- MODULE Admins -------------------------------
(***************************************************************************)
(* The admin accounts of AdminsService, the guards in front of every admin *)
(* request, and seedAdmin.  The guards read the admin as he is when the    *)
(* request comes; what the handler does afterwards is not bound to it.     *)
(***************************************************************************)
EXTENDS FiniteSets

CONSTANTS Admin,            \* ids, none of which is used twice
          Mail, Nick,       \* email addresses and user names
          Grants, Roles,    \* the lists of permissions and the roles that requests carry
          AdminCall         \* requests in flight at a time

Permission == {"MANAGE_USERS", "MANAGE_DEPOSITS", "MANAGE_LOCATIONS",
               "VIEW_ANALYTICS", "MANAGE_ADMINS", "SYSTEM_SETTINGS"}

DefaultPermissions ==
    [SUPER_ADMIN |-> Permission,
     MODERATOR   |-> {"MANAGE_DEPOSITS", "VIEW_ANALYTICS"},
     ADMIN       |-> {"MANAGE_USERS", "MANAGE_DEPOSITS", "MANAGE_LOCATIONS", "VIEW_ANALYTICS"}]

ASSUME AdminsAssumption == /\ Grants \subseteq SUBSET Permission
                           /\ Roles \subseteq DOMAIN DefaultPermissions
                           /\ Mail # {} /\ Nick # {}

VARIABLES
    admin,      \* the admins collection: a function on the stored ids
    managing,   \* the state of every request, and of the seed
    former,     \* history: the ids that were deleted
    fallen      \* history: the requests whose actor has lost his standing since
                \* the guards let him pass

adminVars == <<admin, managing, former, fallen>>

NoWork == [op |-> "none"]

AdminType == [mail : Mail, nick : Nick, active : BOOLEAN, permissions : SUBSET Permission]

AdminJob ==
    {NoWork}
      \cup [op : {"check", "create"}, actor : Admin, new : AdminType]
      \cup [op : {"update"}, actor : Admin, id : Admin, mail : Mail, nick : Nick,
            permissions : SUBSET Permission]
      \cup [op : {"delete", "read"}, actor : Admin, id : Admin]
      \cup [op : {"toggle"}, actor : Admin, id : Admin, seen : BOOLEAN]
      \cup [op : {"reseed"}, id : Admin]
      \cup [op : {"seed"}, new : AdminType]

AdminsTypeOK ==
    /\ DOMAIN admin \subseteq Admin
    /\ admin \in [DOMAIN admin -> AdminType]
    /\ managing \in [AdminCall -> AdminJob]
    /\ former \subseteq Admin \ DOMAIN admin
    /\ fallen \subseteq AdminCall

\* What a request can give: the permissions it lists, or those of its role.
Granted == Grants \cup {DefaultPermissions[role] : role \in Roles}

SuperAdmin(mail, nick) ==
    [mail |-> mail, nick |-> nick, active |-> TRUE, permissions |-> Permission]

\* seedAdmin has run once, with its default names.
AdminsInit ==
    /\ \E a \in Admin :
         admin = [b \in {a} |->
                    SuperAdmin(CHOOSE mail \in Mail : TRUE, CHOOSE nick \in Nick : TRUE)]
    /\ managing = [c \in AdminCall |-> NoWork]
    /\ former = {} /\ fallen = {}

-----------------------------------------------------------------------------
(* The guards *)

\* Mutant: the status of the admin is not looked at.
May_Inactive(a, permission) == a \in DOMAIN admin /\ permission \in admin[a].permissions

\* AdminJwtStrategy.validate and PermissionsGuard; nothing ever sets lockedUntil.
May(a, permission) ==
    /\ a \in DOMAIN admin
    /\ admin[a].active
    /\ permission \in admin[a].permissions

Manages(a, admins) ==
    a \in DOMAIN admins /\ admins[a].active /\ "MANAGE_ADMINS" \in admins[a].permissions

Managers(admins) == {a \in Admin : Manages(a, admins)}

\* A request of an actor who passes the guards.
Undertake(c, job) ==
    /\ managing[c] = NoWork
    /\ May(job.actor, "MANAGE_ADMINS")
    /\ managing' = [managing EXCEPT ![c] = job]
    /\ UNCHANGED <<admin, former, fallen>>

Proceed(c, job) == /\ managing' = [managing EXCEPT ![c] = job]
                   /\ UNCHANGED <<admin, former, fallen>>

\* The last step of a request: the collection becomes admins.
Store(c, admins) ==
    /\ admin' = admins
    /\ managing' = [managing EXCEPT ![c] = NoWork]
    /\ former' = former \cup (DOMAIN admin \ DOMAIN admins)
    /\ fallen' = (fallen \ {c}) \cup
                   {d \in AdminCall \ {c} : /\ "actor" \in DOMAIN managing[d]
                                            /\ ~Manages(managing[d].actor, admins)}

\* Not found, refused, or the process dies.
Abandon(c) == Store(c, admin)

-----------------------------------------------------------------------------
(* createAdmin *)

BeginCreate(c, actor, mail, nick, permissions) ==
    Undertake(c, [op |-> "check", actor |-> actor,
                  new |-> [mail |-> mail, nick |-> nick, active |-> TRUE,
                           permissions |-> permissions]])

Known(mail, nick) == {a \in DOMAIN admin : admin[a].mail = mail \/ admin[a].nick = nick}

CheckKnown(c) ==
    LET job == managing[c] IN
    /\ job.op = "check"
    /\ Known(job.new.mail, job.new.nick) = {}
    /\ Proceed(c, [job EXCEPT !.op = "create"])

\* The unique indexes on email and username.
Taken(mail, nick, but) == Known(mail, nick) \ {but} # {}

CreateAdmin(c, a) ==
    LET new == managing[c].new IN
    /\ managing[c].op \in {"create", "seed"}
    /\ a \notin DOMAIN admin \cup former
    /\ ~Taken(new.mail, new.nick, a)
    /\ Store(c, [b \in DOMAIN admin \cup {a} |-> IF b = a THEN new ELSE admin[b]])

-----------------------------------------------------------------------------
(* updateAdmin, deleteAdmin, toggleAdminStatus *)

\* Also of his own account.
BeginUpdate(c, actor, a, mail, nick, permissions) ==
    Undertake(c, [op |-> "update", actor |-> actor, id |-> a, mail |-> mail, nick |-> nick,
                  permissions |-> permissions])

UpdateAdmin(c) ==
    LET job == managing[c] IN
    /\ job.op = "update"
    /\ job.id \in DOMAIN admin
    /\ ~Taken(job.mail, job.nick, job.id)
    /\ Store(c, [admin EXCEPT ![job.id].mail = job.mail, ![job.id].nick = job.nick,
                              ![job.id].permissions = job.permissions])

Another(actor, a) == actor # a

BeginDelete(c, actor, a) ==
    /\ Another(actor, a)
    /\ Undertake(c, [op |-> "delete", actor |-> actor, id |-> a])

DeleteAdmin(c) ==
    LET a == managing[c].id IN
    /\ managing[c].op = "delete"
    /\ a \in DOMAIN admin
    /\ Store(c, [b \in DOMAIN admin \ {a} |-> admin[b]])

BeginToggle(c, actor, a) ==
    /\ Another(actor, a)
    /\ Undertake(c, [op |-> "read", actor |-> actor, id |-> a])

ReadStatus(c) ==
    LET job == managing[c] IN
    /\ job.op = "read"
    /\ job.id \in DOMAIN admin
    /\ Proceed(c, [op |-> "toggle", actor |-> job.actor, id |-> job.id,
                   seen |-> admin[job.id].active])

\* Whatever the status is by now.
ToggleAdminStatus(c) ==
    LET job == managing[c] IN
    /\ job.op = "toggle"
    /\ job.id \in DOMAIN admin
    /\ Store(c, [admin EXCEPT ![job.id].active = ~job.seen])

-----------------------------------------------------------------------------
\* seedAdmin, by hand at any time: it finds an admin by either name, or creates
\* one.
FindSeeded(c, mail, nick) ==
    /\ managing[c] = NoWork
    /\ \/ \E a \in Known(mail, nick) : Proceed(c, [op |-> "reseed", id |-> a])
       \/ Known(mail, nick) = {} /\ Proceed(c, [op |-> "seed", new |-> SuperAdmin(mail, nick)])

Reseed(c) ==
    LET a == managing[c].id IN
    /\ managing[c].op = "reseed"
    /\ a \in DOMAIN admin
    /\ Store(c, [admin EXCEPT ![a].active = TRUE, ![a].permissions = Permission])

AdminsNext ==
    \E c \in AdminCall :
      \/ \E mail \in Mail, nick \in Nick :
           \/ FindSeeded(c, mail, nick)
           \/ \E actor \in Admin, granted \in Granted :
                \/ BeginCreate(c, actor, mail, nick, granted)
                \/ \E a \in Admin : BeginUpdate(c, actor, a, mail, nick, granted)
      \/ \E actor, a \in Admin : BeginDelete(c, actor, a) \/ BeginToggle(c, actor, a)
      \/ \E a \in Admin : CreateAdmin(c, a)
      \/ CheckKnown(c) \/ UpdateAdmin(c) \/ DeleteAdmin(c) \/ ReadStatus(c)
      \/ ToggleAdminStatus(c) \/ Reseed(c)
      \/ managing[c] # NoWork /\ Abandon(c)

-----------------------------------------------------------------------------
\* Two accounts never share an email address or a user name, although both are
\* only looked up before a request writes.
AdminsUnique ==
    \A a, b \in DOMAIN admin :
      a # b => admin[a].mail # admin[b].mail /\ admin[a].nick # admin[b].nick

\* A request that is not among the fallen has an actor who still passes the
\* guards.
ActorsStand ==
    \A c \in AdminCall \ fallen :
      "actor" \in DOMAIN managing[c] => Manages(managing[c].actor, admin)

\* Nobody is asked to delete or toggle himself.
ActsOnAnother ==
    \A c \in AdminCall :
      managing[c].op \in {"delete", "read", "toggle"} => managing[c].actor # managing[c].id

\* The inductive invariant.
AdminsInv == AdminsTypeOK /\ AdminsUnique /\ ActorsStand /\ ActsOnAnother

\* Somebody can manage the admins as long as no two requests overlap, but for
\* the one who takes the permission from himself: the last manager falls by
\* his own update, or by the request of an actor who had fallen meanwhile.
LastManagerFallsByOverlap ==
    [][Managers(admin) # {} /\ Managers(admin') = {} =>
         \E c \in AdminCall :
           \/ c \in fallen
           \/ managing[c].op = "update" /\ managing[c].actor = managing[c].id]_admin
=============================================================================
