------------------------------ MODULE Accounts ------------------------------
(***************************************************************************)
(* The accounts of one organisation and their sessions: the users table    *)
(* (app/modules/users/service.py) and the refresh tokens kept in Redis     *)
(* (app/modules/auth/tokens.py), with the requests that read and write     *)
(* them (app/modules/auth/service.py, app/api/v1/auth.py and users.py).    *)
(*                                                                         *)
(* A session is a family of refresh tokens: each refresh uses one up and   *)
(* registers its successor, and a second use of one kills the family.  A   *)
(* request is a chain of Redis commands and transactions; any other        *)
(* request may run between two of them, and the API may crash there.       *)
(*                                                                         *)
(* Redis commands are atomic, scripts and MULTI pipelines too.  Records    *)
(* and tombstones outlive the tokens they are about, so nothing expires    *)
(* but access tokens.  Passwords always match; nothing in the program      *)
(* switches an organisation off.                                           *)
(***************************************************************************)
EXTENDS Naturals

CONSTANTS
  Users,          \* user ids
  Calls,          \* requests in flight at once
  MaxTokens,      \* bound: refresh tokens ever minted
  MaxFamilies,    \* bound: sessions ever opened
  MaxRequests     \* bound: requests ever begun

ASSUME AccountsAssumption ==
  /\ MaxTokens \in Nat /\ MaxFamilies \in Nat /\ MaxRequests \in Nat
  /\ "None" \notin Users

VARIABLES
  users,      \* the rows of the users table
  rt,         \* rt:{jti}: the record of a refresh token
  fam,        \* rtfam:{family}: the tokens recorded for a family
  dead,       \* rtfam:dead:{family}: the tombstones
  index,      \* rtuser:{user}: the families of a user
  claims,     \* what the signed refresh tokens say
  held,       \* who has an unexpired access token that says ADMIN
  call,       \* the requests in flight
  begun,      \* how many requests have begun
  history     \* what the properties need to know of the past

store == <<rt, fam, dead, index>>
vars == <<users, rt, fam, dead, index, claims, held, call, begun, history>>
-----------------------------------------------------------------------------
None == "None"

UserRole == {"ADMIN", "RECRUITER"}

User == [role : UserRole \cup {None}, is_active : BOOLEAN]

NoUser == [role |-> None, is_active |-> FALSE]

Exists(u) == users[u].role # None

Tokens == 1 .. MaxTokens

Families == 1 .. MaxFamilies

NoRecord == [status |-> None, user |-> None, family |-> 0]

RefreshClaims == [user : Users \cup {None}, family : Families \cup {0}]

(* What an admin may change: is_active is None where it is left out.       *)
UserUpdate == [role : UserRole \cup {None}, is_active : {"yes", "no", None}]

Idle == [op |-> "none", step |-> "idle", user |-> None, family |-> 0, role |-> None,
         seen |-> {}, todo |-> {}, read |-> NoUser,
         edit |-> [role |-> None, is_active |-> None], stale |-> FALSE]

Call == [op : {"none", "login", "refresh", "logout", "logout_all", "update_user"},
         step : {"idle", "reading", "registering", "revoking", "deleting", "forgetting",
                 "writing"},
         user : Users \cup {None}, family : Families \cup {0}, role : UserRole \cup {None},
         seen : SUBSET Tokens, todo : SUBSET Families, read : User,
         edit : UserUpdate, stale : BOOLEAN]

Starts(c) == call[c].op = "none" /\ begun < MaxRequests /\ begun' = begun + 1

Ends(c) == call' = [call EXCEPT ![c] = Idle]

minted == {t \in Tokens : claims[t].user # None}

opened == {claims[t].family : t \in minted} \cup {call[c].family : c \in Calls}

(* An active token whose family is not dead.                               *)
Usable(t) == rt[t].status = "active" /\ rt[t].family \notin dead

ActiveAdmins == {u \in Users : users[u].role = "ADMIN" /\ users[u].is_active}

(* register_org: the tenant with its first admin.                          *)
Init ==
  /\ \E founder \in Users :
       users = [u \in Users |-> IF u = founder THEN [role |-> "ADMIN", is_active |-> TRUE]
                               ELSE NoUser]
  /\ rt = [t \in Tokens |-> NoRecord]
  /\ fam = [f \in Families |-> {}]
  /\ dead = {}
  /\ index = [u \in Users |-> {}]
  /\ claims = [t \in Tokens |-> [user |-> None, family |-> 0]]
  /\ held = {}
  /\ call = [c \in Calls |-> Idle]
  /\ begun = 0
  /\ history = [dropped |-> {}, raced |-> FALSE]
-----------------------------------------------------------------------------
(* Logging in and minting tokens.                                          *)

(* authenticate: the row says who it is and that it may come in.           *)
login(c, u) ==
  /\ Starts(c)
  /\ Exists(u) /\ users[u].is_active
  /\ \E f \in Families :
       /\ f \notin opened
       /\ call' = [call EXCEPT ![c] = [Idle EXCEPT !.op = "login", !.step = "registering",
                                         !.user = u, !.family = f, !.role = users[u].role]]
  /\ UNCHANGED <<users, store, claims, held, history>>

(* issue_token_pair: register() does not look at the tombstone.            *)
issue_token_pair(c) ==
  \E t \in Tokens :
    LET u == call[c].user
        f == call[c].family
    IN  /\ call[c].step = "registering"
        /\ t \notin minted /\ \A s \in 1 .. t - 1 : s \in minted
        /\ claims' = [claims EXCEPT ![t] = [user |-> u, family |-> f]]
        /\ rt' = [rt EXCEPT ![t] = [status |-> "active", user |-> u, family |-> f]]
        /\ fam' = [fam EXCEPT ![f] = @ \cup {t}]
        /\ index' = [index EXCEPT ![u] = @ \cup {f}]
        /\ history' = [history EXCEPT !.dropped = @ \ {f}]
        /\ held' = IF call[c].role = "ADMIN" THEN held \cup {u} ELSE held
        /\ Ends(c)
        /\ UNCHANGED <<users, dead, begun>>

(* An access token lives for minutes.                                      *)
AccessExpires(u) ==
  /\ u \in held
  /\ held' = held \ {u}
  /\ UNCHANGED <<users, store, claims, call, begun, history>>
-----------------------------------------------------------------------------
(* Rotation.                                                               *)
(* Mutant: looking a token up and marking it used are left to the caller.  *)
consume_unmarked(c, t) ==
  LET f == claims[t].family
  IN  /\ Starts(c) /\ t \in minted
      /\ f \notin dead /\ rt[t].status = "active"
      /\ call' = [call EXCEPT ![c] = [Idle EXCEPT !.op = "refresh", !.step = "reading",
                                        !.user = claims[t].user, !.family = f]]
      /\ UNCHANGED <<users, store, claims, held, history>>

(* What _CONSUME_LUA returns.  The tombstone is looked at first.           *)
ConsumeOutcome(t) ==
  IF claims[t].family \in dead THEN "DEAD"
  ELSE IF rt[t].status = None THEN "UNKNOWN"
  ELSE IF rt[t].user # claims[t].user \/ rt[t].family # claims[t].family THEN "MISMATCH"
  ELSE IF rt[t].status # "active" THEN "REUSE" ELSE "OK"

(* The records of a family are deleted, as far as they are known.          *)
Forgotten(tokens) == [t \in Tokens |-> IF t \in tokens THEN NoRecord ELSE rt[t]]

consume(c, t) ==
  LET f == claims[t].family
      outcome == ConsumeOutcome(t)
  IN  /\ Starts(c) /\ t \in minted
      /\ dead' = IF outcome \in {"OK", "DEAD"} THEN dead ELSE dead \cup {f}
      /\ rt' = CASE outcome = "OK" -> [rt EXCEPT ![t].status = "used"]
                 [] outcome = "REUSE" -> Forgotten(fam[f])
                 [] OTHER -> rt
      /\ fam' = IF outcome = "REUSE" THEN [fam EXCEPT ![f] = {}] ELSE fam
      /\ call' = IF outcome = "OK"
                 THEN [call EXCEPT ![c] = [Idle EXCEPT !.op = "refresh", !.step = "reading",
                                             !.user = claims[t].user, !.family = f]]
                 ELSE call
      /\ UNCHANGED <<users, index, claims, held, history>>

(* rotate_refresh reads the user again before it mints the successor.      *)
rotate_refresh(c) ==
  LET user == users[call[c].user]
  IN  /\ call[c].op = "refresh" /\ call[c].step = "reading"
      /\ IF user.is_active
         THEN call' = [call EXCEPT ![c].step = "registering", ![c].role = user.role]
         ELSE call' = [call EXCEPT ![c].step = "revoking"]
      /\ UNCHANGED <<users, store, claims, held, begun, history>>
-----------------------------------------------------------------------------
(* Logging out.                                                            *)

(* Any token of the session will do, used or not.                          *)
logout(c, t) ==
  /\ Starts(c) /\ t \in minted
  /\ call' = [call EXCEPT ![c] = [Idle EXCEPT !.op = "logout", !.step = "revoking",
                                    !.family = claims[t].family]]
  /\ UNCHANGED <<users, store, claims, held, history>>

(* revoke_family reads the members, and writes in a second command.        *)
revoke_family_reads(c) ==
  /\ call[c].step = "revoking"
  /\ call' = [call EXCEPT ![c].step = "deleting", ![c].seen = fam[call[c].family]]
  /\ UNCHANGED <<users, store, claims, held, begun, history>>

revoke_family(c) ==
  LET f == call[c].family
  IN  /\ call[c].step = "deleting"
      /\ dead' = dead \cup {f}
      /\ rt' = Forgotten(call[c].seen)
      /\ fam' = [fam EXCEPT ![f] = {}]
      /\ IF call[c].op = "logout_all"
         THEN call' = [call EXCEPT ![c].step = "forgetting", ![c].family = 0,
                                   ![c].seen = {}, ![c].todo = @ \ {f}]
         ELSE Ends(c)
      /\ UNCHANGED <<users, index, claims, held, begun, history>>

(* revoke_all_for_user, one family after the other ...                     *)
logout_all(c, u) ==
  /\ Starts(c) /\ \E t \in minted : claims[t].user = u
  /\ call' = [call EXCEPT ![c] = [Idle EXCEPT !.op = "logout_all", !.step = "forgetting",
                                    !.user = u, !.todo = index[u]]]
  /\ UNCHANGED <<users, store, claims, held, history>>

revoke_next(c) ==
  /\ call[c].step = "forgetting"
  /\ \E f \in call[c].todo :
       call' = [call EXCEPT ![c].step = "revoking", ![c].family = f]
  /\ UNCHANGED <<users, store, claims, held, begun, history>>

(* Mutant: the index is deleted before the families are dead.              *)
forget_user_early(c) ==
  /\ call[c].step = "forgetting"
  /\ index' = [index EXCEPT ![call[c].user] = {}]
  /\ IF call[c].todo = {} THEN Ends(c) ELSE UNCHANGED call
  /\ UNCHANGED <<users, rt, fam, dead, claims, held, begun, history>>

(* ... and then the index: what was added since it was read goes with it.  *)
forget_user(c) ==
  LET u == call[c].user
  IN  /\ call[c].step = "forgetting" /\ call[c].todo = {}
      /\ index' = [index EXCEPT ![u] = {}]
      /\ history' = [history EXCEPT !.dropped = @ \cup (index[u] \ dead)]
      /\ Ends(c)
      /\ UNCHANGED <<users, rt, fam, dead, claims, held, begun>>
-----------------------------------------------------------------------------
(* Administration.                                                         *)

MayAdminister(a) == a \in held

create_user(a, u, role) ==
  /\ MayAdminister(a) /\ ~Exists(u)
  /\ users' = [users EXCEPT ![u] = [role |-> role, is_active |-> TRUE]]
  /\ UNCHANGED <<store, claims, held, call, begun, history>>

(* Mutant: the guard counts the user who is about to go.                   *)
AnotherAdminOrThisOne(u) == ActiveAdmins # {}

AnotherAdmin(u) == ActiveAdmins \ {u} # {}

(* _guard_last_admin, for the new role and then for the new is_active.     *)
_guard_last_admin(u, e) ==
  LET role == IF e.role = None THEN users[u].role ELSE e.role
      losing == \/ users[u].role = "ADMIN" /\ role # "ADMIN"
                \/ role = "ADMIN" /\ e.is_active = "no"
  IN  losing /\ users[u].is_active => AnotherAdmin(u)

NotOneself(a, u, e) == u = a => e.role \in {None, "ADMIN"} /\ e.is_active # "no"

update_user_reads(c, a, u, e) ==
  /\ Starts(c)
  /\ MayAdminister(a) /\ Exists(u) /\ e # [role |-> None, is_active |-> None]
  /\ NotOneself(a, u, e) /\ _guard_last_admin(u, e)
  /\ call' = [call EXCEPT ![c] = [Idle EXCEPT !.op = "update_user", !.step = "writing",
                                    !.user = u, !.read = users[u], !.edit = e]]
  /\ UNCHANGED <<users, store, claims, held, history>>

(* The columns that differ from what was read are written.                 *)
Flushed(row, read, e) ==
  [role |-> IF e.role \in {None, read.role} THEN row.role ELSE e.role,
   is_active |-> IF e.is_active = None \/ (e.is_active = "yes") = read.is_active
                 THEN row.is_active ELSE e.is_active = "yes"]

(* An edit decided before this write is behind from now on.                *)
update_user(c) ==
  LET u == call[c].user
  IN  /\ call[c].step = "writing"
      /\ users' = [users EXCEPT ![u] = Flushed(@, call[c].read, call[c].edit)]
      /\ call' = [d \in Calls |-> IF d = c THEN Idle
                                 ELSE [call[d] EXCEPT !.stale = @ \/ call[d].step = "writing"]]
      /\ history' = [history EXCEPT !.raced = @ \/ call[c].stale]
      /\ UNCHANGED <<store, claims, held, begun>>
-----------------------------------------------------------------------------
(* The process dies with every request it was serving.                     *)
ApiCrash ==
  /\ \E c \in Calls : call[c].op # "none"
  /\ call' = [c \in Calls |-> Idle]
  /\ UNCHANGED <<users, store, claims, held, begun, history>>

SessionNext(c) ==
  \/ \E u \in Users : login(c, u) \/ logout_all(c, u)
  \/ \E t \in Tokens : consume(c, t) \/ logout(c, t)
  \/ issue_token_pair(c) \/ rotate_refresh(c)
  \/ revoke_family_reads(c) \/ revoke_family(c) \/ revoke_next(c) \/ forget_user(c)

AdminNext ==
  \/ \E a, u \in Users, role \in UserRole : create_user(a, u, role)
  \/ \E c \in Calls, a, u \in Users, e \in UserUpdate : update_user_reads(c, a, u, e)
  \/ \E c \in Calls : update_user(c)

Next ==
  \/ \E c \in Calls : SessionNext(c)
  \/ AdminNext
  \/ \E u \in Users : AccessExpires(u)
  \/ ApiCrash

Spec == Init /\ [][Next]_vars
-----------------------------------------------------------------------------
TypeOK ==
  /\ users \in [Users -> User]
  /\ rt \in [Tokens -> [status : {None, "active", "used"}, user : Users \cup {None},
                        family : Families \cup {0}]]
  /\ fam \in [Families -> SUBSET Tokens]
  /\ dead \subseteq Families
  /\ index \in [Users -> SUBSET Families]
  /\ claims \in [Tokens -> RefreshClaims]
  /\ held \subseteq Users
  /\ call \in [Calls -> Call]
  /\ begun \in 0 .. MaxRequests
  /\ history \in [dropped : SUBSET Families, raced : BOOLEAN]

(* Two refreshes with one token, a logout or a crash in the middle of one: *)
(* a session never has two tokens that can be traded in.                   *)
OneUsableToken ==
  \A s, t \in Tokens :
    Usable(s) /\ Usable(t) /\ rt[s].family = rt[t].family => s = t

(* "Log out everywhere" finds the user's sessions through the index, so    *)
(* every session with a usable token is in it.  The exception is one that  *)
(* was opened while another such logout was deleting the index.            *)
IndexCoversUsable ==
  \A t \in Tokens :
    Usable(t) => rt[t].family \in index[rt[t].user] \cup history.dropped

(* The organisation keeps an active admin, unless two edits overlapped:    *)
(* each counts the other's admin as the one who remains.                   *)
AdminRemains == history.raced \/ ActiveAdmins # {}

=============================================================================
