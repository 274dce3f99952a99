------------------------------- MODULE Accounts -------------------------------
(***************************************************************************)
(* The people of the house: the commands of the portal that list, create,  *)
(* rename, delete them and set their passwords. Every command is a handler *)
(* on a thread of its own; it asks Home Assistant one thing after the      *)
(* other, keeps the register of the users it made on the card, and answers *)
(* the portal.                                                             *)
(*                                                                         *)
(* cloud_worker.py, haadmin.py.  Home Assistant is external: a request may *)
(* be refused, and its answer lost whether or not it took effect.  Power   *)
(* may fail at any step.                                                   *)
(***************************************************************************)
EXTENDS Naturals, FiniteSets

CONSTANTS
    Handler,    \* the commands of a run, one thread each
    User,       \* identifiers of users
    Person,     \* identifiers of persons
    Login,      \* usernames, and display names as a username would be spelt
    Spelt,      \* Spelt[p]: the display name that the identifier of person p is like
    Admin,      \* the users that are administrators
    Portal,     \* bound: what each field of a command may be
    ReadFails,  \* whether the register may be unreadable for a moment
    Initial     \* the first state of Home Assistant and of the register

None == "none"

(* A file cut in the middle: no list of entries. *)
Torn == {[id |-> None, username |-> None, auth |-> None]}

ASSUME SetsApart == /\ ReadFails \in BOOLEAN /\ Admin \subseteq User /\ User \intersect Person = {}
                    /\ None \notin User \union Person \union Login
                    /\ Spelt \in [Person -> Login \union {None}]

Entry == [id : Person, username : Login \union {None}, auth : User \union {None}]
Request == [person : Person \union User \union {None}, auth : User \union Person \union {None},
            username : Login \union {None}]
Command == {"create", "delete", "password", "fetch", "update"}

(* The fields are each for themselves: nothing makes them be of one person. *)
ASSUME PortalAssumption ==
    /\ Portal.person \subseteq Person \union User \union {None}
    /\ Portal.auth \subseteq User \union Person \union {None}
    /\ Portal.username \subseteq Login \union {None}

NoRequest == [person |-> None, auth |-> None, username |-> None]
NoCommand == [op |-> None, arg |-> NoRequest]

(* Home Assistant before the first command, with the administrators in it. *)
ASSUME InitialAssumption ==
    /\ Admin \subseteq Initial.users /\ Initial.users \subseteq User
    /\ Initial.name \in [User -> Login \union {None}]
    /\ Initial.login \in [Login -> User \union {None}]
    /\ Initial.persons \subseteq Person
    /\ Initial.attrs \subseteq [Person -> User \union Person \union {None}]
    /\ Initial.registers \subseteq SUBSET Entry

VARIABLES
    users,      \* Home Assistant: the users that exist
    issued,     \* the identifiers it has given out
    name,       \* their display names
    login,      \* login[n]: the user with username n
    persons,    \* the persons that exist
    attr,       \* attr[p]: the user_id their entity shows
    register,   \* sweetplace_users.json
    temp,       \* temp[h]: the temporary file of handler h
    pc,         \* where each handler is
    cmd,        \* cmd[h]: its command and arguments
    mine        \* mine[h]: its local variables

ha == <<users, issued, name, login, persons, attr>>
disk == <<register, temp>>
own == <<pc, cmd, mine>>
vars == <<ha, disk, own>>

Local == [user : User \union {None}, person : Person \union {None},
          met : SUBSET Person,
          read : SUBSET Entry, entries : SUBSET Entry, seen : SUBSET User, list : SUBSET Request]
Blank == [user |-> None, person |-> None, met |-> {}, read |-> {}, entries |-> {},
          seen |-> {}, list |-> {}]

(* The register is a list of entries at every instant, also when power fails: a
   torn file would silently be an empty one (the comment of _scrivi_schedario). *)
TypeOK ==
    /\ users \subseteq issued /\ issued \subseteq User /\ persons \subseteq Person
    /\ name \in [User -> Login \union {None}] /\ login \in [Login -> User \union {None}]
    /\ attr \in [Person -> User \union Person \union {None}]
    /\ register \in SUBSET Entry
    /\ temp \in [Handler -> (SUBSET Entry) \union {Torn}]
    /\ \A h \in Handler : /\ cmd[h].op \in Command \union {None} /\ cmd[h].arg \in Request
                          /\ mine[h] \in Local

Init ==
    /\ users = Initial.users /\ issued = Initial.users /\ name = Initial.name /\ login = Initial.login
    /\ persons = Initial.persons
    /\ attr \in Initial.attrs
    /\ register \in Initial.registers
    /\ temp = [h \in Handler |-> {}]
    /\ pc = [h \in Handler |-> "idle"]
    /\ cmd = [h \in Handler |-> NoCommand]
    /\ mine = [h \in Handler |-> Blank]

At(h, from) == pc[h] = from
Goto(h, to) == pc' = [pc EXCEPT ![h] = to]
Arg(h) == cmd[h].arg

(* One question to Home Assistant: `effect` is what it changes when it is granted,
   which it is only if `can`; without a good answer the handler goes to `fail`.  *)
Ask(h, can, effect, next, fail) ==
    \E applied, answered \in BOOLEAN :
        /\ answered => applied
        /\ applied => can
        /\ IF applied THEN effect ELSE UNCHANGED ha
        /\ Goto(h, IF answered THEN next ELSE fail)

(* A question that only teaches the handler something. *)
Read(h, learnt, next, fail) ==
    \/ mine' = [mine EXCEPT ![h] = learnt] /\ Goto(h, next)
    \/ UNCHANGED mine /\ Goto(h, fail)

First == [create |-> "auth", delete |-> "delPerson", password |-> "list",
          fetch |-> "states", update |-> "rename"]

(* What a command says: nothing looks whether its fields are of one person. Those that
   its handler does not read are left out.                                     *)
Field(reads, sent) == IF reads THEN sent ELSE {None}
Arguments(op) ==
    {[person |-> p, auth |-> a, username |-> n] :
        p \in Field(op \in {"delete", "update"}, Portal.person),
        a \in Field(op \in {"delete", "update", "password"}, Portal.auth),
        n \in Field(op \in {"create", "password"}, Portal.username)}

(* A handler that waits in vain for the connection to Home Assistant gives up. *)
Receive(h, op, arg) ==
    /\ At(h, "idle")
    /\ arg \in Arguments(op) /\ (op = "create" => arg.username # None)
    /\ cmd' = [cmd EXCEPT ![h] = [op |-> op, arg |-> arg]]
    /\ \/ Goto(h, First[op])
       \/ Goto(h, "fail")
    /\ UNCHANGED <<ha, disk, mine>>

-----------------------------------------------------------------------------
(* _on_create_user                                                           *)

CreateAuth(h) ==
    /\ At(h, "auth")
    /\ \/ Goto(h, "fail") /\ UNCHANGED <<ha, mine>>
       \/ \E u \in User \ issued :
         /\ Ask(h, TRUE, /\ users' = users \union {u} /\ issued' = issued \union {u}
                         /\ name' = [name EXCEPT ![u] = Arg(h).username]
                         /\ UNCHANGED <<login, persons, attr>>, "poll", "fail")
         /\ mine' = [mine EXCEPT ![h].user = u]
    /\ UNCHANGED <<disk, cmd>>

(* At most 15 times. *)
Poll(h) ==
    /\ At(h, "poll")
    /\ \/ mine[h].user \in users /\ Goto(h, "credentials")
       \/ Goto(h, "fail")
    /\ UNCHANGED <<ha, disk, cmd, mine>>

(* Home Assistant refuses a username that is taken. *)
CreateCredentials(h) ==
    /\ At(h, "credentials")
    /\ Ask(h, login[Arg(h).username] = None /\ mine[h].user \in users,
           /\ login' = [login EXCEPT ![Arg(h).username] = mine[h].user]
           /\ UNCHANGED <<users, issued, name, persons, attr>>, "person", "fail")
    /\ UNCHANGED <<disk, cmd, mine>>

CreatePerson(h) ==
    /\ At(h, "person")
    /\ \/ Goto(h, "fail") /\ UNCHANGED <<ha, mine>>
       \/ \E p \in Person \ persons :
         /\ Ask(h, mine[h].user \in users,
                /\ persons' = persons \union {p}
                /\ attr' = [attr EXCEPT ![p] = mine[h].user]
                /\ UNCHANGED <<users, issued, name, login>>, "readRegister", "fail")
         /\ mine' = [mine EXCEPT ![h].person = p]
    /\ UNCHANGED <<disk, cmd>>

-----------------------------------------------------------------------------
(* The register: read whole, changed, written whole. No lock is held.        *)

(* _get_tracked_users: a file that cannot be read is an empty list. *)
ReadRegister ==
    IF register = Torn THEN {{}} ELSE IF ReadFails THEN {register, {}} ELSE {register}

Ids(entries) == {e.id : e \in entries}

(* _add_tracked_user, _remove_tracked_user: what to write, if it is a change. *)
Track(h) ==
    /\ At(h, "readRegister")
    /\ \E entries \in ReadRegister :
         IF mine[h].person \in Ids(entries)
         THEN UNCHANGED mine /\ Goto(h, "reply")
         ELSE /\ mine' = [mine EXCEPT ![h].read = entries, ![h].entries = entries \union
                           {[id |-> mine[h].person, username |-> Arg(h).username,
                             auth |-> mine[h].user]}]
              /\ Goto(h, "open")
    /\ UNCHANGED <<ha, disk, cmd>>

Untrack(h) ==
    /\ At(h, "untrack")
    /\ \E entries \in ReadRegister :
         LET kept == {e \in entries : e.id # Arg(h).person} IN
         IF kept = entries
         THEN UNCHANGED mine /\ Goto(h, "reply")
         ELSE mine' = [mine EXCEPT ![h].read = entries, ![h].entries = kept] /\ Goto(h, "open")
    /\ UNCHANGED <<ha, disk, cmd>>

(* Mutant: the file itself is opened for writing. *)
OpenRegister(h) ==
    /\ At(h, "open")
    /\ register' = Torn /\ temp' = [temp EXCEPT ![h] = Torn] /\ Goto(h, "sync")
    /\ UNCHANGED <<ha, cmd, mine>>

(* _scrivi_schedario: a temporary file, forced to the disk, then put in the place
   of the register. A failure is logged and the command goes on.                *)
OpenTemp(h) ==
    /\ At(h, "open")
    /\ \/ temp' = [temp EXCEPT ![h] = Torn] /\ Goto(h, "sync")
       \/ UNCHANGED temp /\ Goto(h, "reply")
    /\ UNCHANGED <<ha, register, cmd, mine>>

Sync(h) ==
    /\ At(h, "sync")
    /\ \/ temp' = [temp EXCEPT ![h] = mine[h].entries] /\ Goto(h, "replace")
       \/ temp' = [temp EXCEPT ![h] = {}] /\ Goto(h, "reply")
    /\ UNCHANGED <<ha, register, cmd, mine>>

Replace(h) ==
    /\ At(h, "replace")
    /\ \/ register' = temp[h]
       \/ UNCHANGED register
    /\ temp' = [temp EXCEPT ![h] = {}]
    /\ Goto(h, "reply")
    /\ UNCHANGED <<ha, cmd, mine>>

-----------------------------------------------------------------------------
(* _on_delete_user                                                           *)

(* Deleting a user takes its usernames with it. *)
Expunge(u) ==
    /\ users' = users \ {u}
    /\ login' = [n \in Login |-> IF login[n] = u THEN None ELSE login[n]]
    /\ UNCHANGED <<issued, name, persons, attr>>

(* A person that cannot be deleted is only logged. *)
DeletePerson(h) ==
    /\ At(h, "delPerson")
    /\ LET next == IF Arg(h).auth # None THEN "delUser" ELSE "lookUp" IN
       Ask(h, Arg(h).person \in persons, /\ persons' = persons \ {Arg(h).person}
                                         /\ UNCHANGED <<users, issued, name, login, attr>>, next, next)
    /\ UNCHANGED <<disk, cmd, mine>>

DeleteUser(h) ==
    /\ At(h, "delUser")
    /\ Ask(h, Arg(h).auth \in users, Expunge(Arg(h).auth), "untrack", "fail")
    /\ UNCHANGED <<disk, cmd, mine>>

(* Without a user in the command: the one with that very identifier, or whose display
   name is like the identifier of the person.                                  *)
Fits(p, u) == u = p \/ (p \in Person /\ Spelt[p] # None /\ name[u] = Spelt[p])

(* Without the list, or without such a user, the command goes on. *)
LookUp(h) ==
    /\ At(h, "lookUp")
    /\ \/ \E u \in users : /\ Fits(Arg(h).person, u)
                           /\ mine' = [mine EXCEPT ![h].user = u] /\ Goto(h, "delFound")
       \/ /\ \A u \in users : ~Fits(Arg(h).person, u)
          /\ UNCHANGED mine /\ Goto(h, "untrack")
       \/ UNCHANGED mine /\ Goto(h, "untrack")
    /\ UNCHANGED <<ha, disk, cmd>>

DeleteFound(h) ==
    /\ At(h, "delFound")
    /\ Ask(h, mine[h].user \in users, Expunge(mine[h].user), "untrack", "fail")
    /\ UNCHANGED <<disk, cmd, mine>>

-----------------------------------------------------------------------------
(* _on_generate_password                                                     *)

(* Whom the command means: the user with that identifier, or with that username,
   or one whose display name is spelt like it.                                *)
Resolve(h, u) ==
    LET a == Arg(h).auth
        n == Arg(h).username IN
    IF a \in users THEN u = a
    ELSE IF n # None /\ login[n] # None THEN u = login[n]
    ELSE n # None /\ name[u] = n

(* Mutant: nobody is refused. *)
AnyoneMayChange(u) == u \in users

(* HaAdmin.IsAdminInUserList is not False: an administrator, or not known. *)
MayChange(u) == u \in users /\ u \notin Admin

ListUsers(h) ==
    /\ At(h, "list")
    /\ \/ \E u \in users :
            /\ Resolve(h, u) /\ MayChange(u)
            /\ mine' = [mine EXCEPT ![h].user = u]
            /\ Goto(h, IF Arg(h).username = None THEN "recreate" ELSE "delCredentials")
       \/ UNCHANGED mine /\ Goto(h, "fail")
    /\ UNCHANGED <<ha, disk, cmd>>

(* The answer is not looked at. *)
DeleteCredentials(h) ==
    /\ At(h, "delCredentials")
    /\ Ask(h, login[Arg(h).username] # None,
           /\ login' = [login EXCEPT ![Arg(h).username] = None]
           /\ UNCHANGED <<users, issued, name, persons, attr>>, "recreate", "recreate")
    /\ UNCHANGED <<disk, cmd, mine>>

(* Without a username, one made of the user's identifier: not in Login. *)
Recreate(h) ==
    /\ At(h, "recreate")
    /\ LET n == Arg(h).username IN
       IF n = None THEN UNCHANGED ha /\ \E to \in {"reply", "fail"} : Goto(h, to)
       ELSE Ask(h, login[n] = None /\ mine[h].user \in users,
                /\ login' = [login EXCEPT ![n] = mine[h].user]
                /\ UNCHANGED <<users, issued, name, persons, attr>>, "reply", "fail")
    /\ UNCHANGED <<disk, cmd, mine>>

-----------------------------------------------------------------------------
(* _on_fetch_users, and ElencoMembri, which reads the same things.           *)

FetchStates(h) ==
    /\ At(h, "states")
    /\ Read(h, [mine[h] EXCEPT !.met = persons], "readIds", "fail")
    /\ UNCHANGED <<ha, disk, cmd>>

(* Three reads of the register in a row, taken as one. *)
ReadTracked(h) ==
    /\ At(h, "readIds")
    /\ \E entries \in ReadRegister : mine' = [mine EXCEPT ![h].read = entries]
    /\ Goto(h, "whoExists")
    /\ UNCHANGED <<ha, disk, cmd>>

EntryOf(h, p) == CHOOSE e \in mine[h].read : e.id = p

(* Mutant: the attribute of the person is believed. *)
CandidateBelieved(h, p, seen) ==
    LET e == EntryOf(h, p) IN IF e.auth \in seen THEN e.auth ELSE attr[p]

(* The first of three that is in the list of users, when there is one: what was
   written at the creation, the attribute of the person, the username.         *)
Candidate(h, p, seen) ==
    LET e == EntryOf(h, p)
        real(a) == a # None /\ (seen = {} \/ a \in seen)
        byLogin == IF e.username # None /\ seen # {} THEN login[e.username] ELSE None
    IN  IF real(e.auth) THEN e.auth
        ELSE IF real(attr[p]) THEN attr[p]
        ELSE IF real(byLogin) THEN byLogin ELSE None

(* A list that cannot be had leaves the handler with an empty one. *)
FetchUsers(h) ==
    /\ At(h, "whoExists")
    /\ \E seen \in {users, {}} :
         mine' = [mine EXCEPT ![h].seen = seen, ![h].list =
                   {[person |-> p, auth |-> Candidate(h, p, seen),
                     username |-> EntryOf(h, p).username] :
                        p \in mine[h].met \intersect Ids(mine[h].read)}]
    /\ Goto(h, "reply")
    /\ UNCHANGED <<ha, disk, cmd>>

-----------------------------------------------------------------------------
(* _on_update_user: the display name of the user, then of the person; only the
   second answer is looked at.                                               *)

RenameUser(h) ==
    /\ At(h, "rename")
    /\ LET a == Arg(h).auth IN
       \E n \in Login :
         Ask(h, a \in users, /\ name' = [name EXCEPT ![a] = n]
                             /\ UNCHANGED <<users, issued, login, persons, attr>>,
             "renamePerson", "renamePerson")
    /\ UNCHANGED <<disk, cmd, mine>>

RenamePerson(h) ==
    /\ At(h, "renamePerson")
    /\ \/ Arg(h).person \in persons /\ Goto(h, "reply")
       \/ Goto(h, "fail")
    /\ UNCHANGED <<ha, disk, cmd, mine>>

-----------------------------------------------------------------------------
(* The answer: emit raises when the link is down, and the handler of the
   exception emits the failure instead; a second exception ends the thread.  *)

End(h) ==
    /\ Goto(h, "done")
    /\ mine' = [mine EXCEPT ![h] = Blank] /\ cmd' = [cmd EXCEPT ![h] = NoCommand]

ReplyDone(h) ==
    /\ At(h, "reply")
    /\ \/ End(h)
       \/ UNCHANGED <<cmd, mine>> /\ Goto(h, "fail")
    /\ UNCHANGED <<ha, disk>>

ReplyFailed(h) ==
    /\ At(h, "fail")
    /\ End(h)
    /\ UNCHANGED <<ha, disk>>

(* Power fails, or the add-on is restarted: the handlers are gone, the files stay. *)
Crash ==
    /\ pc' = [h \in Handler |-> IF At(h, "idle") THEN "idle" ELSE "done"]
    /\ mine' = [h \in Handler |-> Blank] /\ cmd' = [h \in Handler |-> NoCommand]
    /\ UNCHANGED <<ha, disk>>

-----------------------------------------------------------------------------
CreateStep(h) == CreateAuth(h) \/ Poll(h) \/ CreateCredentials(h) \/ CreatePerson(h)
RegisterStep(h) == Track(h) \/ Untrack(h) \/ OpenTemp(h) \/ Sync(h) \/ Replace(h)
DeleteStep(h) == DeletePerson(h) \/ DeleteUser(h) \/ LookUp(h) \/ DeleteFound(h)
PasswordStep(h) == ListUsers(h) \/ DeleteCredentials(h) \/ Recreate(h)
FetchStep(h) == FetchStates(h) \/ ReadTracked(h) \/ FetchUsers(h)
UpdateStep(h) == RenameUser(h) \/ RenamePerson(h)
ReplyStep(h) == ReplyDone(h) \/ ReplyFailed(h)

Run(h) == \/ CreateStep(h) \/ RegisterStep(h) \/ DeleteStep(h) \/ PasswordStep(h)
          \/ FetchStep(h) \/ UpdateStep(h) \/ ReplyStep(h)

Next ==
    \/ \E h \in Handler, op \in Command : \E arg \in Arguments(op) : Receive(h, op, arg)
    \/ \E h \in Handler : Run(h)
    \/ Crash

Spec == Init /\ [][Next]_vars

-----------------------------------------------------------------------------
(* Properties.                                                               *)

(* An administrator's password is not set by the portal's command, nor its credentials
   removed (the comment at IsAdminInUserList in _on_generate_password): not by a user
   found by a name that is spelt alike, nor by an old list, nor by a race of commands.
   Only one case is left out: the command's identifier is that of a user who may be
   changed, and its username is of somebody else.                             *)
InPassword(h) == cmd[h].op = "password"
OfAnother(h) == /\ At(h, "delCredentials")
                /\ mine[h].user = Arg(h).auth /\ login[Arg(h).username] # Arg(h).auth
AdminUntouched ==
    [][\A n \in Login : (login[n] \in Admin \/ login'[n] \in Admin) /\ login'[n] # login[n]
         => \E h \in Handler : pc[h] # pc'[h] /\ (InPassword(h) => OfAnother(h))]_vars

(* The comment without that exception: what is checked is the user of the identifier,
   what is deleted is the credential of the username.                         *)
AdminNeverTouched ==
    [][\A n \in Login : (login[n] \in Admin \/ login'[n] \in Admin) /\ login'[n] # login[n]
         => \E h \in Handler : pc[h] # pc'[h] /\ ~InPassword(h)]_vars

(* Identifiers given to the portal are users of Home Assistant, whenever the list
   could be had (the comment at elenco_utenti in _on_fetch_users).           *)
ListedUsersExist ==
    \A h \in Handler : mine[h].seen # {} =>
        \A r \in mine[h].list : r.auth \in mine[h].seen \union {None}

(* The register is rewritten whole and without a lock: what a command takes out of
   it, besides the person it deletes, is only what it did not see when it read
   (written in between, or a file it could not read).                        *)
RewriteLosesOnlyUnseen ==
    [][\A e \in register \ register' : \E h \in Handler :
         /\ At(h, "replace")
         /\ e \notin mine[h].read \/ (cmd[h].op = "delete" /\ e.id = Arg(h).person)]_vars

=============================================================================
