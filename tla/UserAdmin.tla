----------------------------- MODULE UserAdmin -----------------------------
(***************************************************************************)
(* The users of the API: the tab of the admin page with its table and two  *)
(* dialogs, the requests it sends, and the handlers that carry them out.   *)
(* An update reads the user's row, hashes the password, and writes the     *)
(* whole row, while other administrators write too.                        *)
(*                                                                         *)
(* A user is a name with a role. The name of a user that was deleted is    *)
(* not given again: only users from the beginning are deleted, and others  *)
(* are created. Of passwords there is only that an update without a role   *)
(* changes one. Sorting, messages and the other tabs are left out, and the *)
(* first fetch of the list succeeds.                                       *)
(***************************************************************************)
EXTENDS Lists

CONSTANTS
    Me,            \* the administrator at the page
    UaUsers,       \* users at the beginning
    UaNew,         \* names that may be given to new users
    UaTouched,     \* bound on the users that the administrator edits or deletes
    MostUaCalls,   \* bound on requests and writes of other administrators together
    MostOthers     \* bound on those writes

ASSUME UserAdminAssumption ==
    /\ Me \in UaUsers /\ UaTouched \subseteq UaUsers /\ UaUsers \cap UaNew = {}
    /\ MostUaCalls \in Nat /\ MostOthers \in Nat

UaRoles == {"readonly", "admin"}

VARIABLES
    uaRows,      \* the users table: name -> role
    uaOthers,    \* writes of other administrators so far
    uaSent,      \* requests so far
    uaCalls,     \* requests under way, with where their handlers are
    uaList,      \* ['admin', 'users']: name -> role, None until it is loaded
    uaFetch,     \* the fetch of that list: [at, roles that it has read]
    editUser,    \* None or [user, role], as when the dialog was opened
    editForm,    \* the role in the dialog
    showCreate, createForm,
    uaChose      \* history: <<user, role>>, the roles picked in the dialog

uaVars == <<uaRows, uaOthers, uaSent, uaCalls, uaList, uaFetch, editUser, editForm,
            showCreate, createForm, uaChose>>
uaForms == <<editUser, editForm, showCreate, createForm>>

UaNames == UaUsers \cup UaNew
NoForm == [username |-> None, role |-> "readonly"]
NotFetched == [at |-> "none", roles |-> None]
FetchSent == [at |-> "sent", roles |-> None]
Without(f, u) == [v \in DOMAIN f \ {u} |-> f[v]]
With(f, u, row) == [v \in DOMAIN f \cup {u} |-> IF v = u THEN row ELSE f[v]]

\* n tells requests apart. read: the row that handleUpdateUser has read. at: where
\* the handler is; "waits": the page knows that it is done, and waits for the list.
Call(kind, user, role) ==
    [n |-> uaSent, kind |-> kind, user |-> user, role |-> role, read |-> None, at |-> "sent"]

UaCalls ==
    [n : 0..MostUaCalls, kind : {"create", "update", "delete"}, user : UaNames,
     role : UaRoles \cup {None}, read : UaRoles \cup {None},
     at : {"sent", "read", "done", "failed", "waits"}]

UaTypeOK ==
    /\ DOMAIN uaRows \subseteq UaNames /\ \A u \in DOMAIN uaRows : uaRows[u] \in UaRoles
    /\ uaOthers \in 0..MostOthers /\ uaSent \in 0..MostUaCalls
    /\ uaCalls \subseteq UaCalls
    /\ uaList = None \/ DOMAIN uaList \subseteq UaNames
    /\ uaFetch.at \in {"none", "sent", "read"}
    /\ editUser = None \/ (editUser.user \in UaNames /\ editUser.role \in UaRoles)
    /\ editForm \in UaRoles
    /\ createForm \in [username : UaNew \cup {None}, role : UaRoles]
    /\ showCreate \in BOOLEAN

UaInit ==
    /\ uaRows = [u \in UaUsers |-> IF u = Me THEN "admin" ELSE "readonly"]
    /\ uaOthers = 0 /\ uaSent = 0 /\ uaCalls = {} /\ uaList = None /\ uaFetch = FetchSent
    /\ editUser = None /\ editForm = "readonly"
    /\ showCreate = FALSE /\ createForm = NoForm
    /\ uaChose = {}

-----------------------------------------------------------------------------
(* The server. *)

Moves(c, to) == uaCalls' = (uaCalls \ {c}) \cup {to}
Fails(c) == Moves(c, [c EXCEPT !.at = "failed"]) /\ UNCHANGED uaRows

\* handleCreateUser
CreatesUser(c) ==
    /\ c.kind = "create" /\ c.at = "sent"
    /\ IF c.user \in DOMAIN uaRows THEN Fails(c)
       ELSE /\ uaRows' = With(uaRows, c.user, c.role)
            /\ Moves(c, [c EXCEPT !.at = "done"])

\* handleDeleteUser
DeletesUser(c) ==
    /\ c.kind = "delete" /\ c.at = "sent"
    /\ IF c.user = Me THEN Fails(c)
       ELSE /\ uaRows' = Without(uaRows, c.user)
            /\ Moves(c, [c EXCEPT !.at = "done"])

\* handleUpdateUser up to the hash of the password: GetUserByID.
ReadsUser(c) ==
    /\ c.kind = "update" /\ c.at = "sent"
    /\ IF c.user \notin DOMAIN uaRows \/ (c.user = Me /\ c.role # None) THEN Fails(c)
       ELSE /\ Moves(c, [c EXCEPT !.at = "read", !.read = uaRows[c.user]])
            /\ UNCHANGED uaRows

\* The role of the request takes the place of that which was read.
Updated(c) == IF c.role = None THEN c.read ELSE c.role

\* handleUpdateUser from there: UpdateUser saves the whole row, and inserts it
\* if it has been deleted.
WritesUser(c) ==
    /\ c.kind = "update" /\ c.at = "read"
    /\ uaRows' = With(uaRows, c.user, Updated(c))
    /\ Moves(c, [c EXCEPT !.at = "done"])

\* The request does not arrive, or the database fails.
NotCarriedOut(c) == c.at \in {"sent", "read"} /\ Fails(c)

ServerWorks(c) ==
    /\ CreatesUser(c) \/ DeletesUser(c) \/ ReadsUser(c) \/ WritesUser(c) \/ NotCarriedOut(c)
    /\ UNCHANGED <<uaOthers, uaSent, uaList, uaFetch, uaForms, uaChose>>

\* Another administrator gives a user another role or deletes it.
OtherAdministrator(u) ==
    /\ uaOthers < MostOthers /\ uaSent + uaOthers < MostUaCalls /\ uaOthers' = uaOthers + 1
    /\ u \in DOMAIN uaRows \ {Me}
    /\ \/ \E role \in UaRoles \ {uaRows[u]} : uaRows' = [uaRows EXCEPT ![u] = role]
       \/ u \in UaUsers /\ uaRows' = Without(uaRows, u)
    /\ UNCHANGED <<uaSent, uaCalls, uaList, uaFetch, uaForms, uaChose>>

-----------------------------------------------------------------------------
(* Answers. *)

\* mutateAsync returns when the list that the request made stale has been fetched,
\* or another request starts that fetch anew. A create then closes its dialog and
\* empties its form, an update closes whichever edit dialog is open.
Waiting == {c \in uaCalls : c.at = "waits"}
Returns(kind) == \E c \in Waiting : c.kind = kind
Succeeded ==
    /\ showCreate' = (showCreate /\ ~Returns("create"))
    /\ createForm' = IF Returns("create") THEN NoForm ELSE createForm
    /\ editUser' = IF Returns("update") THEN None ELSE editUser
    /\ UNCHANGED editForm

\* useUsers: the list is read, and arrives later, or the fetch fails and the page
\* keeps the list it has.
ListRead ==
    /\ uaFetch.at = "sent" /\ uaFetch' = [at |-> "read", roles |-> uaRows]
    /\ UNCHANGED <<uaRows, uaOthers, uaSent, uaCalls, uaList, uaForms, uaChose>>
FetchEnds ==
    /\ uaFetch' = NotFetched
    /\ Succeeded /\ uaCalls' = uaCalls \ Waiting
    /\ UNCHANGED <<uaRows, uaOthers, uaSent, uaChose>>
ListArrives == uaFetch.at = "read" /\ uaList' = uaFetch.roles /\ FetchEnds
ListFails == uaFetch.at # "none" /\ uaList # None /\ UNCHANGED uaList /\ FetchEnds

\* invalidateQueries starts the fetch anew, also one that is under way.
CallDone(c) ==
    /\ c.at = "done" /\ uaFetch' = FetchSent
    /\ Succeeded /\ uaCalls' = (uaCalls \ (Waiting \cup {c})) \cup {[c EXCEPT !.at = "waits"]}
    /\ UNCHANGED <<uaRows, uaOthers, uaSent, uaList, uaChose>>

\* The handler failed, or its answer is lost: a dialog shows the error; nobody
\* hears of a delete that failed.
CallFailed(c) ==
    /\ c.at \in {"done", "failed"} /\ uaCalls' = uaCalls \ {c}
    /\ UNCHANGED <<uaRows, uaOthers, uaSent, uaList, uaFetch, uaForms, uaChose>>

-----------------------------------------------------------------------------
(* The administrator. A dialog covers the page. *)

NoDialog == uaList # None /\ editUser = None /\ ~showCreate
Sends(c) ==
    /\ uaSent + uaOthers < MostUaCalls /\ uaSent' = uaSent + 1
    /\ uaCalls' = uaCalls \cup {c}
Untouched == UNCHANGED <<uaRows, uaOthers, uaList, uaFetch, uaChose>>

OpensEdit(u) ==
    /\ NoDialog /\ u \in DOMAIN uaList \cap UaTouched
    /\ editUser' = [user |-> u, role |-> uaList[u]]
    /\ editForm' = uaList[u]
    /\ Untouched /\ UNCHANGED <<uaSent, uaCalls, showCreate, createForm>>

PicksRole(role) ==
    /\ editUser # None /\ editForm' = role
    /\ uaChose' = uaChose \cup IF role = editUser.role THEN {} ELSE {<<editUser.user, role>>}
    /\ UNCHANGED <<uaRows, uaOthers, uaSent, uaCalls, uaList, uaFetch, editUser, showCreate,
                   createForm>>

\* Mutant of SentRole: the role of the dialog, picked or not.
SentRoleAlways == editForm
\* What handleUpdate sends: the password if there is one, and the role if it is
\* not the one the dialog was opened with.
SentRole == IF editForm # editUser.role THEN editForm ELSE None

\* The button stays enabled while the request is under way.
handleUpdate ==
    /\ editUser # None
    /\ Sends(Call("update", editUser.user, SentRole))
    /\ Untouched /\ UNCHANGED <<editUser, editForm, showCreate, createForm>>

OpensCreate ==
    /\ NoDialog /\ showCreate' = TRUE
    /\ Untouched /\ UNCHANGED <<uaSent, uaCalls, editUser, editForm, createForm>>

FillsForm(form) ==
    /\ showCreate /\ createForm' = form
    /\ Untouched /\ UNCHANGED <<uaSent, uaCalls, editUser, editForm, showCreate>>

handleCreate ==
    /\ showCreate /\ createForm.username # None
    /\ Sends(Call("create", createForm.username, createForm.role))
    /\ Untouched /\ UNCHANGED <<editUser, editForm, showCreate, createForm>>

ClosesDialog ==
    /\ editUser # None \/ showCreate
    /\ editUser' = None /\ showCreate' = FALSE
    /\ Untouched /\ UNCHANGED <<uaSent, uaCalls, editForm, createForm>>

ConfirmsDelete(u) ==
    /\ NoDialog /\ u \in (DOMAIN uaList \cap UaTouched) \ {Me}
    /\ Sends(Call("delete", u, None))
    /\ Untouched /\ UNCHANGED uaForms

UaNext ==
    \/ \E c \in uaCalls : ServerWorks(c) \/ CallDone(c) \/ CallFailed(c)
    \/ \E u \in UaNames : OtherAdministrator(u) \/ OpensEdit(u) \/ ConfirmsDelete(u)
    \/ ListRead \/ ListArrives \/ ListFails
    \/ \E role \in UaRoles : PicksRole(role)
    \/ \E form \in [username : UaNew, role : UaRoles] : FillsForm(form)
    \/ handleUpdate \/ OpensCreate \/ handleCreate \/ ClosesDialog

UaSpec == UaInit /\ [][UaNext]_uaVars

-----------------------------------------------------------------------------
(* Properties. *)

\* A save gives a user another role only if that role was picked for the user in
\* the dialog (handleUpdate in AdminPage.tsx), or if it has no role and gives back
\* the one that handleUpdateUser had read before the row changed under it: a dialog
\* that was opened before another administrator's change does not undo it.
SavesKeepRoles ==
    [][\A u \in DOMAIN uaRows \cap DOMAIN uaRows' :
         (uaRows'[u] # uaRows[u] /\ uaOthers' = uaOthers)
           => \/ <<u, uaRows'[u]>> \in uaChose
              \/ \E c \in uaCalls : /\ c.user = u /\ c.at = "read" /\ c.role = None
                                    /\ c.read = uaRows'[u]]_uaVars
=============================================================================
