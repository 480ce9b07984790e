------------------------------ MODULE Tenancy ------------------------------
(***************************************************************************)
(* Who sees which rows.  A bearer token names a principal (get_principal), *)
(* the principal scopes a session (tenant_session), every transaction the  *)
(* session begins tells its pooled connection the tenant's context         *)
(* (after_begin), and PostgreSQL's policies (db/rls.py) filter rows by it. *)
(* Connections are shared and outlive sessions; a session may commit in    *)
(* the middle of a request and go on with another connection; and a route  *)
(* commits before it answers (api/routing.py).                             *)
(*                                                                         *)
(* Tables are abstracted to the one of each kind of policy in use, a row   *)
(* to its table, organisation and owner.  Signatures, expiry and roles are *)
(* left out: a token of another type does not verify.                      *)
(***************************************************************************)
EXTENDS FiniteSets, Naturals

CONSTANTS
  Orgs, Candidates,
  Home,          \* the organisation of a candidate
  Requests,      \* requests, sockets and tasks at work at once
  Connections,   \* the pool's
  MaxRows,       \* bound on the rows there are
  Nobody

ASSUME TenancyAssumption ==
  /\ Home \in [Candidates -> Orgs]
  /\ Nobody \notin Orgs \cup Candidates \cup Connections
  /\ MaxRows \in Nat

VARIABLES
  rows,          \* committed rows
  guc,           \* what each connection was last told, for its transaction
  session,       \* each request's session
  told           \* rows the clients have been told of

tenancyVars == <<rows, guc, session, told>>

----------------------------------------------------------------------------
(* The tables: one stands for each of the registries in use.               *)
USER_ONLY_TABLES == {"scores"}
CANDIDATE_SCOPED == {"interviews"}
CANDIDATE_WRITABLE == {"resumes"}
Owned == CANDIDATE_SCOPED \cup CANDIDATE_WRITABLE

Rows == [table : USER_ONLY_TABLES, org : Orgs, owner : {Nobody}]
        \cup {row \in [table : Owned, org : Orgs, owner : Candidates] : Home[row.owner] = row.org}

(* What app.current_org(), app.actor_kind() and app.actor_id() answer.     *)
Contexts == [org : Orgs, kind : {"user", "system"}, actor : {Nobody}]
            \cup {[org |-> Home[k], kind |-> "candidate", actor |-> k] : k \in Candidates}

NoContext == [org |-> Nobody, kind |-> "none", actor |-> Nobody]

IsStaff(ctx) == ctx.kind \in {"user", "system"}

OwnedBy(row, ctx) == ctx.kind = "candidate" /\ row.owner = ctx.actor

(* The policies: USING says which rows a statement finds, CHECK which it   *)
(* may leave behind.                                                       *)
user_only_policy(row, ctx) ==
  [using |-> row.org = ctx.org /\ IsStaff(ctx), check |-> row.org = ctx.org /\ IsStaff(ctx)]

candidate_scoped_policy(row, ctx) ==
  [using |-> row.org = ctx.org /\ (IsStaff(ctx) \/ OwnedBy(row, ctx)),
   check |-> row.org = ctx.org /\ IsStaff(ctx)]

candidate_writable_policy(row, ctx) ==
  [using |-> row.org = ctx.org /\ (IsStaff(ctx) \/ OwnedBy(row, ctx)),
   check |-> row.org = ctx.org /\ (IsStaff(ctx) \/ OwnedBy(row, ctx))]

policy_for(row, ctx) ==
  CASE row.table \in USER_ONLY_TABLES -> user_only_policy(row, ctx)
    [] row.table \in CANDIDATE_WRITABLE -> candidate_writable_policy(row, ctx)
    [] row.table \in CANDIDATE_SCOPED -> candidate_scoped_policy(row, ctx)

----------------------------------------------------------------------------
(* Tokens as they are minted: four types under four keys.                  *)
TokenType == {"access", "refresh", "invite", "interview"}

MintedTokens ==
  {t \in [typ : TokenType, org : Orgs, sub : Candidates \cup {Nobody}] :
     IF t.typ = "interview" THEN t.sub # Nobody /\ Home[t.sub] = t.org ELSE t.sub = Nobody}

(* Decoding with another type's key raises.                                *)
decode_token(token, expected) == {t \in {token} : t.typ = expected}

get_principal(token) ==
  {[org |-> t.org, kind |-> "user", actor |-> Nobody] : t \in decode_token(token, "access")}
  \cup {[org |-> t.org, kind |-> "candidate", actor |-> t.sub] :
          t \in decode_token(token, "interview")}

----------------------------------------------------------------------------
Session == [step : {"closed", "open", "returned", "sent"},
            tenant : Contexts \cup {NoContext},
            conn : Connections \cup {Nobody},
            added : SUBSET Rows, removed : SUBSET Rows,   \* not yet committed
            made : SUBSET Rows]                           \* what a reply would tell of

Closed == [step |-> "closed", tenant |-> NoContext, conn |-> Nobody,
           added |-> {}, removed |-> {}, made |-> {}]

InTransaction(r) == session[r].step = "open" /\ session[r].conn # Nobody

(* The rows a statement of r finds: what is committed and its own changes, *)
(* filtered by what its connection was told.                               *)
Visible(r) ==
  {row \in (rows \ session[r].removed) \cup session[r].added :
     policy_for(row, guc[session[r].conn]).using}

(* Another transaction has the row locked until it ends.                   *)
LockedBut(r, row) == \E q \in Requests \ {r} : row \in session[q].removed

(* A row there is, or will be if another transaction commits.              *)
Taken == rows \cup UNION {session[r].added : r \in Requests}

TenancyInit ==
  /\ rows = {} /\ told = {}
  /\ guc = [c \in Connections |-> NoContext]
  /\ session = [r \in Requests |-> Closed]

(* set_config(..., is_local => true): the context ends with the transaction. *)
GucsStay(ctx) == ctx
AfterTransaction(ctx) == NoContext

(* A transaction ends: the connection goes back to the pool.               *)
Released(r) ==
  [c \in Connections |-> IF c = session[r].conn THEN AfterTransaction(guc[c]) ELSE guc[c]]

(* r commits what it changed and goes on as `goes`.  Rows it removed are    *)
(* nothing a client still has to be told of, nor to find.                  *)
Commits(r, goes) ==
  /\ rows' = (rows \ session[r].removed) \cup session[r].added
  /\ guc' = Released(r)
  /\ told' = told \ session[r].removed
  /\ session' = [q \in Requests |->
       IF q = r THEN goes ELSE [session[q] EXCEPT !.made = @ \ session[r].removed]]

----------------------------------------------------------------------------
(* A request with a bearer token, and a session for its principal (get_db); *)
(* a token of the wrong type is refused and opens nothing.                  *)
get_db(r) ==
  /\ session[r].step = "closed"
  /\ \E token \in MintedTokens : \E principal \in get_principal(token) :
       session' = [session EXCEPT ![r] = [Closed EXCEPT !.step = "open", !.tenant = principal]]
  /\ UNCHANGED <<rows, guc, told>>

(* A task or an event handler opens a session for its organisation.        *)
tenant_session(r) ==
  /\ session[r].step = "closed"
  /\ \E org \in Orgs :
       session' = [session EXCEPT ![r] = [Closed EXCEPT !.step = "open",
                     !.tenant = [org |-> org, kind |-> "system", actor |-> Nobody]]]
  /\ UNCHANGED <<rows, guc, told>>

(* Login has no organisation yet.                                          *)
unscoped_session(r) ==
  /\ session[r].step = "closed"
  /\ session' = [session EXCEPT ![r] = [Closed EXCEPT !.step = "open"]]
  /\ UNCHANGED <<rows, guc, told>>

(* Mutant: the context is set once, before the request has done anything.  *)
after_begin_once(r, c) ==
  /\ session[r].step = "open" /\ session[r].conn = Nobody
  /\ \A q \in Requests : session[q].conn # c
  /\ session' = [session EXCEPT ![r].conn = c]
  /\ guc' = [guc EXCEPT ![c] = IF session[r].tenant = NoContext \/ session[r].made # {}
                               THEN @ ELSE session[r].tenant]
  /\ UNCHANGED <<rows, told>>

(* The first statement begins a transaction on any free connection, and the *)
(* hook tells it the session's context, if it has one.                      *)
after_begin(r, c) ==
  /\ session[r].step = "open" /\ session[r].conn = Nobody
  /\ \A q \in Requests : session[q].conn # c
  /\ session' = [session EXCEPT ![r].conn = c]
  /\ guc' = [guc EXCEPT ![c] = IF session[r].tenant = NoContext THEN @ ELSE session[r].tenant]
  /\ UNCHANGED <<rows, told>>

(* A statement whose new row fails CHECK raises: see rolls_back.           *)
insert(r) ==
  /\ InTransaction(r) /\ Cardinality(Taken) < MaxRows
  /\ \E row \in Rows \ Taken :
       /\ policy_for(row, guc[session[r].conn]).check
       /\ session' = [session EXCEPT ![r].added = @ \cup {row}, ![r].made = @ \cup {row}]
  /\ UNCHANGED <<rows, guc, told>>

delete(r) ==
  /\ InTransaction(r)
  /\ \E row \in Visible(r) :
       /\ ~ LockedBut(r, row)
       /\ session' = [session EXCEPT ![r].added = @ \ {row}, ![r].made = @ \ {row},
                                     ![r].removed = @ \cup ({row} \cap rows)]
  /\ UNCHANGED <<rows, guc, told>>

(* A commit in the middle of a request, before a task is sent to a worker  *)
(* that must find the row.                                                 *)
commit(r) ==
  /\ InTransaction(r)
  /\ Commits(r, [session[r] EXCEPT !.conn = Nobody, !.added = {}, !.removed = {}])

(* Mutant: the dependency's teardown commits, after the answer.            *)
handler_leaves_it(r) ==
  /\ session[r].step = "open" /\ session[r].tenant.kind \in {"user", "candidate"}
  /\ session' = [session EXCEPT ![r].step = "returned"]
  /\ UNCHANGED <<rows, guc, told>>

(* CommittingRoute: the endpoint returned, commit what is left.            *)
handler(r) ==
  /\ session[r].step = "open" /\ session[r].tenant.kind \in {"user", "candidate"}
  /\ Commits(r, [session[r] EXCEPT !.step = "returned", !.conn = Nobody,
                                   !.added = {}, !.removed = {}])

(* The response goes out.                                                  *)
Reply(r) ==
  /\ session[r].step = "returned"
  /\ told' = told \cup session[r].made
  /\ session' = [session EXCEPT ![r].step = "sent"]
  /\ UNCHANGED <<rows, guc>>

(* tenant_session ends well: it commits what is left, and closes.          *)
session_exits(r) ==
  /\ \/ session[r].step = "sent"
     \/ session[r].step = "open" /\ session[r].tenant.kind \in {"system", "none"}
  /\ Commits(r, Closed)

(* A raise, a cancelled request or a dead process.                         *)
rolls_back(r) ==
  /\ session[r].step \in {"open", "returned"}
  /\ guc' = Released(r)
  /\ session' = [session EXCEPT ![r] = Closed]
  /\ UNCHANGED <<rows, told>>

TenancyNext == \E r \in Requests :
  \/ get_db(r) \/ tenant_session(r) \/ unscoped_session(r)
  \/ \E c \in Connections : after_begin(r, c)
  \/ insert(r) \/ delete(r)
  \/ commit(r) \/ handler(r) \/ Reply(r) \/ session_exits(r) \/ rolls_back(r)

TenancySpec == TenancyInit /\ [][TenancyNext]_tenancyVars

----------------------------------------------------------------------------
(* What a principal may see: staff and tasks their organisation's rows, a  *)
(* candidate his own, a login nothing.                                     *)
Entitled(p) ==
  {row \in Rows : row.org = p.org /\ (p.kind # "candidate" \/ row.owner = p.actor)}

(* Sessions, rows and connections in their ranges; a connection serves one *)
(* session, and outside a transaction it is told nothing.                  *)
TenancyTypeOK ==
  /\ rows \subseteq Rows /\ Cardinality(rows) <= MaxRows /\ told \subseteq Rows
  /\ guc \in [Connections -> Contexts \cup {NoContext}]
  /\ session \in [Requests -> Session]
  /\ \A q, r \in Requests : session[q].conn = session[r].conn /\ q # r => session[q].conn = Nobody
  /\ \A c \in Connections : guc[c] # NoContext => \E r \in Requests : session[r].conn = c

(* Whoever used the connection before and however often the session began  *)
(* anew, a statement finds only rows its principal may see, and a          *)
(* candidate leaves nothing behind but resumes of his own; a login, which  *)
(* has no organisation yet, finds nothing (db/session.py:1-16).            *)
OnlyOwnRows ==
  \A r \in Requests : InTransaction(r) =>
    /\ Visible(r) \cup session[r].added \subseteq Entitled(session[r].tenant)
    /\ session[r].tenant.kind = "candidate" =>
         \A row \in session[r].added : row.table = "resumes"

(* ... and it finds them all: a session that committed halfway is not left *)
(* without its organisation, its later statements finding nothing          *)
(* (db/session.py:10-15).                                                  *)
OwnRowsFound ==
  \A r \in Requests : InTransaction(r) =>
    {row \in (rows \ session[r].removed) \cap Entitled(session[r].tenant) :
       IsStaff(session[r].tenant) \/ row.table \in Owned} \subseteq Visible(r)

(* A client is told of a row only once any other connection can find it,   *)
(* so what it asks for next is there (api/routing.py:1-16).                *)
AnnouncedIsCommitted == told \subseteq rows
=============================================================================
