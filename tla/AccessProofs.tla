---------------------------- MODULE AccessProofs ----------------------------
(***************************************************************************)
(* Proofs about who may do what: Accounts, for any users, requests, tokens *)
(* and sessions, and Tenancy, for any organisations, candidates, requests  *)
(* and connections and any number of rows.                                 *)
(*                                                                         *)
(* Accounts, the argument.  That a session has one token to trade in is    *)
(* not inductive: between the script that marks a token used and the       *)
(* pipeline that registers its successor, the right to the session is a    *)
(* request's. OneHolder counts both: of a session that is not dead, one    *)
(* token is active or one request is about to mint, never two of either.   *)
(* It needs the records to say what the signed tokens say, and a login to  *)
(* open a session nobody has had.  The index then covers the sessions      *)
(* because the holder is alone: registering is what puts a dropped session *)
(* back, and it speaks for the only token there is.  That an admin remains *)
(* rests on what an edit that nobody overtook still knows of the users.    *)
(*                                                                         *)
(* Tenancy, the argument.  What a statement may find is decided by what    *)
(* its connection was last told, by whichever session.  ToldItsTenant ties *)
(* that to the session in two halves: a connection in a transaction was    *)
(* told its session's tenant, and a free one nothing, so that a login,     *)
(* which tells its connection nothing, does not inherit.  That what is     *)
(* announced stays committed rests on the row locks: a transaction that    *)
(* deletes a row is the only one that does, and the row is there to be     *)
(* deleted until it commits.                                               *)
(***************************************************************************)
EXTENDS Accounts, Tenancy, FiniteSetTheorems, TLAPS

(***************************************************************************)
(* Accounts: refresh tokens and admins.                                    *)
(***************************************************************************)
(* The request owns its session: it has used a token up, or is logging in, *)
(* and is to mint the next.                                                *)
Pends(x) == x.step \in {"reading", "registering"}

(* What a request knows at each step.                                      *)
Fits(x) ==
  /\ x.op = "none" => x.step = "idle"
  /\ x.op \in {"login", "refresh", "logout_all", "update_user"} => x.user \in Users
  /\ Pends(x) => x.op \in {"login", "refresh"}
  /\ Pends(x) \/ x.step \in {"revoking", "deleting"} => x.family \in Families
  /\ x.step = "forgetting" => x.op = "logout_all"
  /\ x.step = "writing" => x.op = "update_user"

CallsFit == \A c \in Calls : Fits(call[c])

(* A record is of a minted token and says what the token says.             *)
RecordsMatch ==
  \A t \in Tokens :
    /\ t \in minted => claims[t].family \in Families
    /\ rt[t].status # None =>
         t \in minted /\ rt[t].user = claims[t].user /\ rt[t].family = claims[t].family

(* Of a session that is not dead, one token or one request is the holder.  *)
OneHolder ==
  /\ OneUsableToken
  /\ \A c, d \in Calls :
       /\ Pends(call[c]) /\ Pends(call[d])
       /\ call[c].family = call[d].family /\ call[c].family \notin dead
       => c = d
  /\ \A c \in Calls, t \in Tokens :
       Pends(call[c]) /\ Usable(t) => call[c].family # rt[t].family

(* What an edit found still holds when no other was written since.         *)
Decided(x) == x.step = "writing" /\ ~x.stale =>
  x.read = users[x.user] /\ Exists(x.user) /\ _guard_last_admin(x.user, x.edit)

EditsDecided == \A c \in Calls : Decided(call[c])

IInv ==
  /\ TypeOK /\ CallsFit /\ RecordsMatch /\ OneHolder
  /\ IndexCoversUsable /\ EditsDecided /\ AdminRemains
-----------------------------------------------------------------------------
(* An idle request owns nothing and is consistent.                         *)
LEMMA IdleFits == /\ Idle \in Call /\ Fits(Idle) /\ ~Pends(Idle)
                  /\ Idle.op = "none" /\ Idle.step = "idle"
BY DEF Idle, Call, Fits, Pends, User, NoUser, UserUpdate

(* Family numbers start at one: no session is the zero of an idle request. *)
LEMMA ZeroIsNoFamily == 0 \notin Families
BY DEF Families

(* A request that begins or goes on by itself: it may take a session only  *)
(* if that was its own or nobody's.                                        *)
LEMMA CallChanges ==
  ASSUME IInv, NEW c \in Calls, NEW x \in Call, Fits(x), Decided(x),
         Pends(x) => \/ Pends(call[c]) /\ x.family = call[c].family
                     \/ x.family \notin opened,
         call' = [call EXCEPT ![c] = x], begun' \in 0 .. MaxRequests,
         users' = users, UNCHANGED store, claims' = claims, held' = held, history' = history
  PROVE  IInv'
<1>1. \A d \in Calls : call'[d] = IF d = c THEN x ELSE call[d]
  BY DEF IInv, TypeOK
<1>2. rt' = rt /\ fam' = fam /\ dead' = dead /\ index' = index
  BY DEF store
<1>3. TypeOK'
  BY <1>2 DEF IInv, TypeOK
<1>4. CallsFit'
  BY <1>1 DEF IInv, CallsFit, Fits, Pends
<1>5. RecordsMatch'
  BY <1>2 DEF IInv, RecordsMatch, minted
<1>6. OneHolder'
  <2>1. OneUsableToken'
    BY <1>2 DEF IInv, OneHolder, OneUsableToken, Usable
  <2>2. ASSUME NEW d \in Calls \ {c}, Pends(x), Pends(call[d]),
               x.family = call[d].family, x.family \notin dead
        PROVE  FALSE
    BY <2>2 DEF IInv, OneHolder, opened
  <2>3. ASSUME NEW t \in Tokens, Pends(x), Usable(t), x.family = rt[t].family
        PROVE  FALSE
    <3>1. t \in minted /\ claims[t].family = rt[t].family
      BY <2>3 DEF IInv, RecordsMatch, Usable, None
    <3> QED
      BY <2>3, <3>1 DEF IInv, OneHolder, opened
  <2>4. ASSUME NEW d \in Calls, NEW e \in Calls,
               Pends(call'[d]), Pends(call'[e]),
               call'[d].family = call'[e].family, call'[d].family \notin dead
        PROVE  d = e
    BY <1>1, <2>2, <2>4 DEF IInv, OneHolder
  <2>5. ASSUME NEW d \in Calls, NEW t \in Tokens, Pends(call'[d]), Usable(t)
        PROVE  call'[d].family # rt[t].family
    BY <1>1, <2>3, <2>5 DEF IInv, OneHolder
  <2> QED
    BY <1>2, <2>1, <2>4, <2>5 DEF OneHolder, Usable, Pends
<1>7. IndexCoversUsable'
  BY <1>2 DEF IInv, IndexCoversUsable, Usable
<1>8. EditsDecided'
  <2>1. \A d \in Calls : Decided(call'[d])
    BY <1>1 DEF IInv, EditsDecided
  <2> QED
    BY <2>1 DEF EditsDecided, Decided, Exists, _guard_last_admin, AnotherAdmin, ActiveAdmins
<1>9. AdminRemains'
  BY DEF IInv, AdminRemains, ActiveAdmins
<1> QED
  BY <1>3, <1>4, <1>5, <1>6, <1>7, <1>8, <1>9 DEF IInv

(* Sessions die, records go, and requests that owned a session or were     *)
(* writing an edit stop.                                                   *)
LEMMA LessKeeps ==
  ASSUME IInv, dead \subseteq dead', dead' \subseteq Families,
         NEW gone, rt' \in {rt, Forgotten(gone)},
         fam' \in [Families -> SUBSET Tokens], call' \in [Calls -> Call],
         \A d \in Calls :
           /\ Fits(call'[d])
           /\ call'[d] = call[d] \/ (~Pends(call'[d]) /\ call'[d].step # "writing"),
         begun' \in 0 .. MaxRequests,
         users' = users, index' = index, claims' = claims, held' = held, history' = history
  PROVE  IInv'
<1>1. \A t \in Tokens : rt'[t] \in {rt[t], NoRecord}
  BY DEF Forgotten
<1>2. \A t \in Tokens : Usable(t)' => Usable(t) /\ rt'[t] = rt[t]
  BY <1>1 DEF Usable, NoRecord, None
<1>3. TypeOK'
  BY DEF IInv, TypeOK, Forgotten, NoRecord
<1>4. CallsFit'
  BY DEF CallsFit, Fits, Pends
<1>5. RecordsMatch'
  BY <1>1 DEF IInv, RecordsMatch, minted, NoRecord
<1>6. OneHolder'
  <2>1. OneUsableToken'
    BY <1>2 DEF IInv, OneHolder, OneUsableToken
  <2>2. \A c, d \in Calls :
          /\ Pends(call'[c]) /\ Pends(call'[d])
          /\ call'[c].family = call'[d].family /\ call'[c].family \notin dead'
          => c = d
    BY DEF IInv, OneHolder
  <2>3. \A c \in Calls, t \in Tokens :
          Pends(call'[c]) /\ Usable(t)' => call'[c].family # rt'[t].family
    BY <1>2 DEF IInv, OneHolder
  <2> QED
    BY <2>1, <2>2, <2>3 DEF OneHolder, Pends
<1>7. IndexCoversUsable'
  BY <1>2 DEF IInv, IndexCoversUsable
<1>8. EditsDecided'
  <2>1. \A d \in Calls : Decided(call'[d])
    BY DEF IInv, EditsDecided, Decided
  <2> QED
    BY <2>1 DEF EditsDecided, Decided, Exists, _guard_last_admin, AnotherAdmin, ActiveAdmins
<1>9. AdminRemains'
  BY DEF IInv, AdminRemains, ActiveAdmins
<1> QED
  BY <1>3, <1>4, <1>5, <1>6, <1>7, <1>8, <1>9 DEF IInv
-----------------------------------------------------------------------------
(* A call that starts stays within the bound.                              *)
LEMMA BegunTyped ==
  ASSUME IInv, NEW c, Starts(c)
  PROVE  begun' \in 0 .. MaxRequests
BY AccountsAssumption DEF Starts, IInv, TypeOK

(* A login opens a session nobody has had.                                 *)
LEMMA LoginKeeps ==
  ASSUME IInv, NEW c \in Calls, NEW u \in Users, login(c, u)
  PROVE  IInv'
<1>1. PICK f \in Families :
        /\ f \notin opened
        /\ call' = [call EXCEPT ![c] = [Idle EXCEPT !.op = "login", !.step = "registering",
                                          !.user = u, !.family = f, !.role = users[u].role]]
  BY DEF login
<1>2. PICK role \in UserRole \cup {None} : role = users[u].role
  BY DEF IInv, TypeOK, User
<1>3. PICK x : x = [Idle EXCEPT !.op = "login", !.step = "registering",
                                !.user = u, !.family = f, !.role = role]
  OBVIOUS
<1>4. x \in Call /\ x.op = "login" /\ x.step = "registering" /\ x.user = u /\ x.family = f
  BY <1>3, IdleFits DEF Idle, Call
<1>5. Fits(x) /\ Decided(x)
  BY <1>4 DEF Fits, Pends, Decided
<1>6. call' = [call EXCEPT ![c] = x]
  BY <1>1, <1>2, <1>3
<1>7. begun' \in 0 .. MaxRequests
  BY BegunTyped DEF login
<1> QED
  BY <1>1, <1>4, <1>5, <1>6, <1>7, CallChanges DEF login

(* rotate_refresh goes on with the session it has, or gives it up.         *)
LEMMA RotateKeeps ==
  ASSUME IInv, NEW c \in Calls, rotate_refresh(c)
  PROVE  IInv'
<1>1. PICK s \in Call : s = call[c] /\ Fits(s)
  BY DEF IInv, TypeOK, CallsFit
<1>2. s.op = "refresh" /\ s.step = "reading" /\ s.user \in Users /\ s.family \in Families
  BY <1>1 DEF rotate_refresh, Fits, Pends
<1>3. PICK user \in User : user = users[s.user]
  BY <1>2 DEF IInv, TypeOK
<1>4. PICK x : /\ call' = [call EXCEPT ![c] = x]
               /\ \/ x = [s EXCEPT !.step = "registering", !.role = user.role]
                  \/ x = [s EXCEPT !.step = "revoking"]
  BY <1>1, <1>3 DEF rotate_refresh
<1>5. user.role \in UserRole \cup {None}
  BY DEF User
<1>6. /\ x \in Call /\ x.op = "refresh" /\ x.step \in {"registering", "revoking"}
      /\ x.user = s.user /\ x.family = s.family
  BY <1>2, <1>4, <1>5 DEF Call
<1>7. Fits(x) /\ Decided(x)
  BY <1>2, <1>6 DEF Fits, Pends, Decided
<1>8. Pends(call[c])
  BY <1>1, <1>2 DEF Pends
<1>9. begun' \in 0 .. MaxRequests
  BY DEF rotate_refresh, IInv, TypeOK
<1> QED
  BY <1>1, <1>4, <1>6, <1>7, <1>8, <1>9, CallChanges DEF rotate_refresh

(* Logging out begins with a session, everywhere with all of the user's,   *)
(* and goes through them one by one: none of its steps owns a session.     *)
LEMMA LogoutKeeps ==
  ASSUME IInv, NEW c \in Calls,
         \/ \E t \in Tokens : logout(c, t)
         \/ \E u \in Users : logout_all(c, u)
         \/ revoke_next(c)
         \/ revoke_family_reads(c)
  PROVE  IInv'
<1>1. PICK s \in Call : s = call[c] /\ Fits(s)
  BY DEF IInv, TypeOK, CallsFit
<1>2. ASSUME NEW x \in Call, Fits(x), x.step \in {"revoking", "forgetting", "deleting"},
             call' = [call EXCEPT ![c] = x], begun' \in 0 .. MaxRequests,
             users' = users, UNCHANGED store, claims' = claims, held' = held, history' = history
      PROVE  IInv'
  <2>1. Decided(x) /\ ~Pends(x)
    BY <1>2 DEF Decided, Pends
  <2> QED
    BY <1>2, <2>1, CallChanges
<1>3. ASSUME NEW t \in Tokens, logout(c, t)
      PROVE  IInv'
  <2>1. PICK f \in Families : f = claims[t].family
    BY <1>3 DEF logout, IInv, RecordsMatch
  <2>2. PICK x : x = [Idle EXCEPT !.op = "logout", !.step = "revoking", !.family = f]
    OBVIOUS
  <2>3. x \in Call /\ x.op = "logout" /\ x.step = "revoking" /\ x.family = f
    BY <2>2, IdleFits DEF Idle, Call
  <2>4. Fits(x) /\ begun' \in 0 .. MaxRequests
    BY <1>3, <2>3, BegunTyped DEF Fits, Pends, logout
  <2> QED
    BY <1>2, <1>3, <2>1, <2>2, <2>3, <2>4 DEF logout
<1>4. ASSUME NEW u \in Users, logout_all(c, u)
      PROVE  IInv'
  <2>1. PICK todo \in SUBSET Families : todo = index[u]
    BY DEF IInv, TypeOK
  <2>2. PICK x : x = [Idle EXCEPT !.op = "logout_all", !.step = "forgetting",
                                  !.user = u, !.todo = todo]
    OBVIOUS
  <2>3. x \in Call /\ x.op = "logout_all" /\ x.step = "forgetting" /\ x.user = u
    BY <2>2, IdleFits DEF Idle, Call
  <2>4. Fits(x) /\ begun' \in 0 .. MaxRequests
    BY <1>4, <2>3, BegunTyped DEF Fits, Pends, logout_all
  <2> QED
    BY <1>2, <1>4, <2>1, <2>2, <2>3, <2>4 DEF logout_all
<1>5. CASE revoke_next(c)
  <2>1. PICK f \in Families : call' = [call EXCEPT ![c].step = "revoking", ![c].family = f]
    BY <1>1, <1>5 DEF revoke_next, Call
  <2>2. PICK x : x = [s EXCEPT !.step = "revoking", !.family = f]
    OBVIOUS
  <2>3. /\ x \in Call /\ x.op = s.op /\ x.step = "revoking" /\ x.family = f
        /\ x.user = s.user
    BY <2>2 DEF Call
  <2>4. s.op = "logout_all"
    BY <1>1, <1>5 DEF revoke_next, Fits
  <2>5. Fits(x) /\ begun' \in 0 .. MaxRequests
    BY <1>1, <1>5, <2>3, <2>4 DEF Fits, Pends, revoke_next, IInv, TypeOK
  <2>6. call' = [call EXCEPT ![c] = x]
    BY <1>1, <2>1, <2>2
  <2> QED
    BY <1>2, <1>5, <2>3, <2>5, <2>6 DEF revoke_next
<1>6. CASE revoke_family_reads(c)
  <2>1. PICK seen \in SUBSET Tokens : seen = fam[s.family]
    BY <1>1, <1>6 DEF revoke_family_reads, Fits, IInv, TypeOK
  <2>2. PICK x : x = [s EXCEPT !.step = "deleting", !.seen = seen]
    OBVIOUS
  <2>3. /\ x \in Call /\ x.op = s.op /\ x.step = "deleting" /\ x.family = s.family
        /\ x.user = s.user
    BY <2>2 DEF Call
  <2>4. Fits(x) /\ begun' \in 0 .. MaxRequests
    BY <1>1, <1>6, <2>3 DEF Fits, Pends, revoke_family_reads, IInv, TypeOK
  <2>5. call' = [call EXCEPT ![c] = x]
    BY <1>1, <1>6, <2>1, <2>2 DEF revoke_family_reads
  <2> QED
    BY <1>2, <1>6, <2>3, <2>4, <2>5 DEF revoke_family_reads
<1> QED
  BY <1>3, <1>4, <1>5, <1>6

(* A session dies: its tombstone stands, and a logout everywhere goes on.  *)
LEMMA RevokeKeeps ==
  ASSUME IInv, NEW c \in Calls, revoke_family(c)
  PROVE  IInv'
<1>1. PICK s \in Call : s = call[c] /\ Fits(s)
  BY DEF IInv, TypeOK, CallsFit
<1>2. s.step = "deleting" /\ s.family \in Families
  BY <1>1 DEF revoke_family, Fits
<1>3. PICK todo \in SUBSET Families : todo = s.todo \ {s.family}
  BY DEF Call
<1>4. PICK x : /\ call' = [call EXCEPT ![c] = x]
               /\ \/ x = Idle
                  \/ /\ s.op = "logout_all"
                     /\ x = [s EXCEPT !.step = "forgetting", !.family = 0,
                                      !.seen = {}, !.todo = todo]
  <2>1. CASE s.op = "logout_all"
    <3>1. PICK y : /\ call' = [call EXCEPT ![c] = y]
                   /\ y = [s EXCEPT !.step = "forgetting", !.family = 0, !.seen = {},
                                    !.todo = s.todo \ {s.family}]
      BY <1>1, <2>1 DEF revoke_family
    <3> QED
      BY <1>3, <2>1, <3>1
  <2>2. CASE s.op # "logout_all"
    BY <1>1, <2>2 DEF revoke_family, Ends
  <2> QED
    BY <2>1, <2>2
<1>5. x \in Call /\ Fits(x) /\ ~Pends(x) /\ x.step # "writing"
  <2>1. CASE x = Idle
    BY <2>1, IdleFits
  <2>2. CASE /\ s.op = "logout_all"
             /\ x = [s EXCEPT !.step = "forgetting", !.family = 0, !.seen = {}, !.todo = todo]
    <3>1. x \in Call /\ x.op = s.op /\ x.step = "forgetting" /\ x.user = s.user
      BY <2>2 DEF Call
    <3> QED
      BY <1>1, <2>2, <3>1 DEF Fits, Pends
  <2> QED
    BY <1>4, <2>1, <2>2
<1>6. /\ call' \in [Calls -> Call]
      /\ \A d \in Calls : call'[d] = IF d = c THEN x ELSE call[d]
  BY <1>4, <1>5 DEF IInv, TypeOK
<1>7. ASSUME NEW d \in Calls
      PROVE  /\ Fits(call'[d])
             /\ call'[d] = call[d] \/ (~Pends(call'[d]) /\ call'[d].step # "writing")
  <2>1. CASE d = c
    <3>1. call'[d] = x
      BY <1>6, <2>1
    <3> QED
      BY <1>5, <3>1
  <2>2. CASE d # c
    <3>1. call'[d] = call[d] /\ Fits(call[d])
      BY <1>6, <2>2 DEF IInv, CallsFit
    <3> QED
      BY <3>1
  <2> QED
    BY <2>1, <2>2
<1>8. /\ dead \subseteq dead' /\ dead' \subseteq Families
      /\ fam' \in [Families -> SUBSET Tokens] /\ begun' \in 0 .. MaxRequests
      /\ rt' = Forgotten(s.seen)
  BY <1>1, <1>2 DEF revoke_family, IInv, TypeOK
<1> QED
  BY <1>6, <1>7, <1>8, LessKeeps DEF revoke_family

(* A crash forgets every request.                                          *)
LEMMA CrashKeeps ==
  ASSUME IInv, ApiCrash
  PROVE  IInv'
<1>1. /\ call' \in [Calls -> Call]
      /\ \A d \in Calls : call'[d] = Idle
  BY IdleFits DEF ApiCrash
<1>2. dead' \subseteq Families /\ fam' \in [Families -> SUBSET Tokens] /\ begun' \in 0 .. MaxRequests
  BY DEF ApiCrash, store, IInv, TypeOK
<1> QED
  BY <1>1, <1>2, IdleFits, LessKeeps DEF ApiCrash, store-----------------------------------------------------------------------------
(* A token is registered: the right to the session passes from the request *)
(* to it, and the index gets the session back if it had lost it.           *)
LEMMA MintKeeps ==
  ASSUME IInv, NEW c \in Calls, issue_token_pair(c)
  PROVE  IInv'
<1> DEFINE u == call[c].user
           f == call[c].family
<1>1. PICK t \in Tokens :
        /\ call[c].step = "registering" /\ t \notin minted
        /\ claims' = [claims EXCEPT ![t] = [user |-> u, family |-> f]]
        /\ rt' = [rt EXCEPT ![t] = [status |-> "active", user |-> u, family |-> f]]
        /\ fam' = [fam EXCEPT ![f] = @ \cup {t}]
        /\ index' = [index EXCEPT ![u] = @ \cup {f}]
        /\ history' = [history EXCEPT !.dropped = @ \ {f}]
        /\ held' = IF call[c].role = "ADMIN" THEN held \cup {u} ELSE held
        /\ call' = [call EXCEPT ![c] = Idle]
        /\ UNCHANGED <<users, dead, begun>>
  BY DEF issue_token_pair, Ends
<1>2. u \in Users /\ f \in Families /\ u # None /\ Pends(call[c])
  BY <1>1, AccountsAssumption DEF IInv, CallsFit, Fits, Pends, None
<1>3. u = call[c].user /\ f = call[c].family
  OBVIOUS
<1> HIDE DEF u, f
<1>4. \A d \in Calls : call'[d] = IF d = c THEN Idle ELSE call[d]
  BY <1>1 DEF IInv, TypeOK
<1>5. /\ rt'[t].status = "active" /\ rt'[t].user = u /\ rt'[t].family = f
      /\ claims'[t].user = u /\ claims'[t].family = f
      /\ \A s \in Tokens \ {t} : rt'[s] = rt[s] /\ claims'[s] = claims[s]
  BY <1>1 DEF IInv, TypeOK
<1>6. /\ history'.dropped = history.dropped \ {f} /\ history'.raced = history.raced
      /\ history' \in [dropped : SUBSET Families, raced : BOOLEAN]
  BY <1>1 DEF IInv, TypeOK
<1>7. f \notin dead => \A s \in Tokens : Usable(s) => rt[s].family # f
  BY <1>3, <1>2 DEF IInv, OneHolder
<1>8. TypeOK'
  <2>1. [status |-> "active", user |-> u, family |-> f]
          \in [status : {None, "active", "used"}, user : Users \cup {None}, family : Families \cup {0}]
    BY <1>2
  <2>2. [user |-> u, family |-> f] \in RefreshClaims
    BY <1>2 DEF RefreshClaims
  <2>3. rt' \in [Tokens -> [status : {None, "active", "used"}, user : Users \cup {None},
                            family : Families \cup {0}]]
    BY <1>1, <2>1 DEF IInv, TypeOK
  <2>4. claims' \in [Tokens -> RefreshClaims]
    BY <1>1, <2>2 DEF IInv, TypeOK
  <2>5. fam' \in [Families -> SUBSET Tokens] /\ index' \in [Users -> SUBSET Families]
    BY <1>1, <1>2 DEF IInv, TypeOK
  <2>6. call' \in [Calls -> Call] /\ held' \subseteq Users
    BY <1>1, <1>2, IdleFits DEF IInv, TypeOK
  <2> QED
    BY <1>1, <1>6, <2>3, <2>4, <2>5, <2>6 DEF IInv, TypeOK
<1>9. CallsFit'
  <2>1. \A d \in Calls : Fits(call'[d])
    BY <1>4, IdleFits DEF IInv, CallsFit
  <2> QED
    BY <2>1 DEF CallsFit, Fits, Pends
<1>10. RecordsMatch'
  <2>1. \A s \in Tokens : s \in minted' <=> s \in minted \/ s = t
    BY <1>2, <1>5 DEF minted
  <2> QED
    BY <1>2, <1>5, <2>1 DEF IInv, RecordsMatch
<1>11. \A s \in Tokens \ {t} : Usable(s)' <=> Usable(s)
  BY <1>1, <1>5 DEF Usable
<1>12. OneHolder'
  <2>1. OneUsableToken'
    BY <1>1, <1>3, <1>5, <1>7, <1>11 DEF IInv, OneHolder, OneUsableToken, Usable
  <2>2. \A d, e \in Calls :
          /\ Pends(call'[d]) /\ Pends(call'[e])
          /\ call'[d].family = call'[e].family /\ call'[d].family \notin dead
          => d = e
    BY <1>4, IdleFits DEF IInv, OneHolder
  <2>3. ASSUME NEW d \in Calls, NEW s \in Tokens, Pends(call'[d]), Usable(s)'
        PROVE  call'[d].family # rt'[s].family
    <3>1. d # c /\ call'[d] = call[d] /\ Pends(call[d])
      BY <1>4, <2>3, IdleFits
    <3>2. CASE s = t
      BY <1>1, <1>3, <1>2, <1>5, <2>3, <3>1, <3>2 DEF IInv, OneHolder, Usable
    <3>3. CASE s # t
      BY <1>5, <1>11, <2>3, <3>1, <3>3 DEF IInv, OneHolder
    <3> QED
      BY <3>2, <3>3
  <2> QED
    BY <1>1, <2>1, <2>2, <2>3 DEF OneHolder, Pends
<1>13. IndexCoversUsable'
  <2> SUFFICES ASSUME NEW s \in Tokens, Usable(s)'
               PROVE  rt'[s].family \in index'[rt'[s].user] \cup history'.dropped
    BY DEF IndexCoversUsable
  <2>1. \A v \in Users : index[v] \subseteq index'[v]
    BY <1>1 DEF IInv, TypeOK
  <2>2. CASE s = t
    BY <1>1, <1>2, <1>5, <2>2 DEF IInv, TypeOK
  <2>3. CASE s # t
    <3>1. Usable(s) /\ rt'[s] = rt[s]
      BY <1>5, <1>11, <2>3
    <3>2. rt[s].family # f
      BY <1>1, <1>3, <1>2, <3>1 DEF IInv, OneHolder
    <3>3. rt[s].user \in Users
      <4>1. s \in minted /\ rt[s].user = claims[s].user
        BY <3>1 DEF IInv, RecordsMatch, Usable, None
      <4> QED
        BY <4>1 DEF IInv, TypeOK, minted, RefreshClaims
    <3> QED
      BY <1>6, <2>1, <3>1, <3>2, <3>3 DEF IInv, IndexCoversUsable
  <2> QED
    BY <2>2, <2>3
<1>14. EditsDecided'
  <2>1. \A d \in Calls : Decided(call'[d])
    BY <1>4, IdleFits DEF IInv, EditsDecided, Decided
  <2> QED
    BY <1>1, <2>1 DEF EditsDecided, Decided, Exists, _guard_last_admin, AnotherAdmin, ActiveAdmins
<1>15. AdminRemains'
  BY <1>1, <1>6 DEF IInv, AdminRemains, ActiveAdmins
<1> QED
  BY <1>8, <1>9, <1>10, <1>12, <1>13, <1>14, <1>15 DEF IInv
(* A token is used up: the right to the session passes from it to the      *)
(* request, or the session dies.                                           *)
LEMMA ConsumeKeeps ==
  ASSUME IInv, NEW c \in Calls, NEW t \in Tokens, consume(c, t)
  PROVE  IInv'
<1> DEFINE f == claims[t].family
<1>1. t \in minted /\ f \in Families /\ claims[t].user \in Users /\ call[c].op = "none"
  BY DEF consume, Starts, IInv, TypeOK, RecordsMatch, minted, RefreshClaims
<1>2. begun' \in 0 .. MaxRequests
  BY BegunTyped DEF consume
<1>3. CASE ConsumeOutcome(t) = "OK"
  <2>1. f \notin dead /\ rt[t].status = "active"
    BY <1>3 DEF ConsumeOutcome
  <2>2. rt[t].family = f /\ Usable(t)
    BY <2>1 DEF IInv, RecordsMatch, Usable, None
  <2>3. PICK x : /\ x = [Idle EXCEPT !.op = "refresh", !.step = "reading",
                                     !.user = claims[t].user, !.family = f]
                 /\ call' = [call EXCEPT ![c] = x]
    BY <1>3 DEF consume
  <2>4. /\ x \in Call /\ x.op = "refresh" /\ x.step = "reading"
        /\ x.user \in Users /\ x.family = f
    BY <1>1, <2>3, IdleFits DEF Idle, Call
  <2>5. \A d \in Calls : call'[d] = IF d = c THEN x ELSE call[d]
    BY <2>3 DEF IInv, TypeOK
  <2>6. /\ rt' = [rt EXCEPT ![t].status = "used"]
        /\ dead' = dead /\ fam' = fam
        /\ UNCHANGED <<users, index, claims, held, history>>
    BY <1>3 DEF consume
  <2>7. /\ rt'[t].status = "used" /\ rt'[t].user = rt[t].user /\ rt'[t].family = rt[t].family
        /\ \A s \in Tokens \ {t} : rt'[s] = rt[s]
    BY <2>6 DEF IInv, TypeOK
  <2>8. ~Usable(t)' /\ \A s \in Tokens \ {t} : Usable(s)' <=> Usable(s)
    BY <2>6, <2>7 DEF Usable
  <2>9. TypeOK'
    BY <1>2, <2>3, <2>4, <2>6 DEF IInv, TypeOK
  <2>10. CallsFit'
    <3>1. Fits(x)
      BY <1>1, <2>4 DEF Fits, Pends
    <3>2. \A d \in Calls : Fits(call'[d])
      BY <2>5, <3>1 DEF IInv, CallsFit
    <3> QED
      BY <3>2 DEF CallsFit, Fits, Pends
  <2>11. RecordsMatch'
    BY <2>1, <2>6, <2>7 DEF IInv, RecordsMatch, minted, None
  <2>12. OneHolder'
    <3>1. OneUsableToken'
      BY <2>7, <2>8 DEF IInv, OneHolder, OneUsableToken
    <3>2. ASSUME NEW d \in Calls, NEW e \in Calls, Pends(call'[d]), Pends(call'[e]),
                 call'[d].family = call'[e].family, call'[d].family \notin dead
          PROVE  d = e
      BY <2>2, <2>4, <2>5, <3>2 DEF IInv, OneHolder
    <3>3. ASSUME NEW d \in Calls, NEW s \in Tokens, Pends(call'[d]), Usable(s)'
          PROVE  call'[d].family # rt'[s].family
      <4>1. s # t /\ Usable(s) /\ rt'[s] = rt[s]
        BY <2>7, <2>8, <3>3
      <4>2. rt[s].family # f
        BY <2>2, <4>1 DEF IInv, OneHolder, OneUsableToken
      <4> QED
        BY <2>4, <2>5, <3>3, <4>1, <4>2 DEF IInv, OneHolder
    <3> QED
      BY <2>6, <3>1, <3>2, <3>3 DEF OneHolder, Pends
  <2>13. IndexCoversUsable'
    BY <2>6, <2>7, <2>8 DEF IInv, IndexCoversUsable
  <2>14. EditsDecided'
    <3>1. \A d \in Calls : Decided(call'[d])
      BY <2>4, <2>5 DEF IInv, EditsDecided, Decided
    <3> QED
      BY <2>6, <3>1 DEF EditsDecided, Decided, Exists, _guard_last_admin, AnotherAdmin, ActiveAdmins
  <2>15. AdminRemains'
    BY <2>6 DEF IInv, AdminRemains, ActiveAdmins
  <2> QED
    BY <2>9, <2>10, <2>11, <2>12, <2>13, <2>14, <2>15 DEF IInv
<1>4. CASE ConsumeOutcome(t) # "OK"
  <2>1. dead \subseteq dead' /\ dead' \subseteq Families /\ call' = call
    BY <1>1, <1>4 DEF consume, IInv, TypeOK
  <2>2. rt' \in {rt, Forgotten(fam[f])} /\ fam' \in [Families -> SUBSET Tokens]
    BY <1>1, <1>4 DEF consume, IInv, TypeOK
  <2>3. call' \in [Calls -> Call] /\ \A d \in Calls : Fits(call'[d])
    BY <2>1 DEF IInv, TypeOK, CallsFit
  <2> QED
    BY <1>2, <2>1, <2>2, <2>3, LessKeeps DEF consume
<1> QED
  BY <1>3, <1>4

(* The index is deleted: what is still usable in it is dropped.            *)
LEMMA ForgetKeeps ==
  ASSUME IInv, NEW c \in Calls, forget_user(c)
  PROVE  IInv'
<1> DEFINE u == call[c].user
<1>1. /\ u \in Users
      /\ call' = [call EXCEPT ![c] = Idle]
      /\ index' = [index EXCEPT ![u] = {}]
      /\ history' = [history EXCEPT !.dropped = @ \cup (index[u] \ dead)]
      /\ UNCHANGED <<users, rt, fam, dead, claims, held, begun>>
  BY DEF forget_user, Ends, IInv, CallsFit, Fits
<1> HIDE DEF u
<1>2. \A d \in Calls : call'[d] = IF d = c THEN Idle ELSE call[d]
  BY <1>1 DEF IInv, TypeOK
<1>3. /\ history'.dropped = history.dropped \cup (index[u] \ dead)
      /\ history'.raced = history.raced
      /\ history' \in [dropped : SUBSET Families, raced : BOOLEAN]
  BY <1>1 DEF IInv, TypeOK
<1>4. TypeOK'
  BY <1>1, <1>3, IdleFits DEF IInv, TypeOK
<1>5. CallsFit'
  <2>1. \A d \in Calls : Fits(call'[d])
    BY <1>2, IdleFits DEF IInv, CallsFit
  <2> QED
    BY <2>1 DEF CallsFit, Fits, Pends
<1>6. RecordsMatch'
  BY <1>1 DEF IInv, RecordsMatch, minted
<1>7. OneHolder'
  <2>1. OneUsableToken'
    BY <1>1 DEF IInv, OneHolder, OneUsableToken, Usable
  <2>2. \A d, e \in Calls :
          /\ Pends(call'[d]) /\ Pends(call'[e])
          /\ call'[d].family = call'[e].family /\ call'[d].family \notin dead
          => d = e
    BY <1>2, IdleFits DEF IInv, OneHolder
  <2>3. \A d \in Calls, t \in Tokens :
          Pends(call'[d]) /\ Usable(t) => call'[d].family # rt[t].family
    BY <1>2, IdleFits DEF IInv, OneHolder
  <2> QED
    BY <1>1, <2>1, <2>2, <2>3 DEF OneHolder, Pends, Usable
<1>8. IndexCoversUsable'
  <2> SUFFICES ASSUME NEW t \in Tokens, Usable(t)
               PROVE  rt[t].family \in index'[rt[t].user] \cup history'.dropped
    BY <1>1 DEF IndexCoversUsable, Usable
  <2>1. rt[t].family \in index[rt[t].user] \cup history.dropped /\ rt[t].family \notin dead
    BY DEF IInv, IndexCoversUsable, Usable
  <2>2. rt[t].user = u \/ index'[rt[t].user] = index[rt[t].user]
    BY <1>1 DEF IInv, TypeOK
  <2> QED
    BY <1>3, <2>1, <2>2
<1>9. EditsDecided'
  <2>1. \A d \in Calls : Decided(call'[d])
    BY <1>2, IdleFits DEF IInv, EditsDecided, Decided
  <2> QED
    BY <1>1, <2>1 DEF EditsDecided, Decided, Exists, _guard_last_admin, AnotherAdmin, ActiveAdmins
<1>10. AdminRemains'
  BY <1>1, <1>3 DEF IInv, AdminRemains, ActiveAdmins
<1> QED
  BY <1>4, <1>5, <1>6, <1>7, <1>8, <1>9, <1>10 DEF IInv-----------------------------------------------------------------------------
(* An edit is decided for the users there are.                             *)
LEMMA ReadsKeeps ==
  ASSUME IInv, NEW c \in Calls, NEW a \in Users, NEW u \in Users, NEW e \in UserUpdate,
         update_user_reads(c, a, u, e)
  PROVE  IInv'
<1>1. PICK read \in User : read = users[u]
  BY DEF IInv, TypeOK
<1>2. PICK x : /\ x = [Idle EXCEPT !.op = "update_user", !.step = "writing",
                                   !.user = u, !.read = read, !.edit = e]
               /\ call' = [call EXCEPT ![c] = x]
  BY <1>1 DEF update_user_reads
<1>3. /\ x \in Call /\ x.op = "update_user" /\ x.step = "writing"
      /\ x.user = u /\ x.read = read /\ x.edit = e
  BY <1>2, IdleFits DEF Idle, Call
<1>4. Fits(x) /\ ~Pends(x)
  BY <1>3 DEF Fits, Pends
<1>5. Decided(x)
  BY <1>1, <1>3 DEF Decided, update_user_reads
<1>6. begun' \in 0 .. MaxRequests
  BY BegunTyped DEF update_user_reads
<1> QED
  BY <1>2, <1>3, <1>4, <1>5, <1>6, CallChanges DEF update_user_reads

(* The users change and no token does: what is left to show.               *)
LEMMA UsersChange ==
  ASSUME IInv, users' \in [Users -> User], call' \in [Calls -> Call],
         history' \in [dropped : SUBSET Families, raced : BOOLEAN],
         history'.dropped = history.dropped,
         \A d \in Calls :
           /\ Fits(call'[d])
           /\ ~Pends(call'[d]) \/ (Pends(call[d]) /\ call'[d].family = call[d].family),
         EditsDecided', AdminRemains', UNCHANGED store, claims' = claims, held' = held, begun' = begun
  PROVE  IInv'
<1>1. rt' = rt /\ fam' = fam /\ dead' = dead /\ index' = index
  BY DEF store
<1>2. TypeOK'
  BY <1>1 DEF IInv, TypeOK
<1>3. CallsFit'
  BY DEF CallsFit, Fits, Pends
<1>4. RecordsMatch' /\ IndexCoversUsable'
  BY <1>1 DEF IInv, RecordsMatch, minted, IndexCoversUsable, Usable
<1>5. OneHolder'
  <2>1. OneUsableToken'
    BY <1>1 DEF IInv, OneHolder, OneUsableToken, Usable
  <2>2. \A c, d \in Calls :
          /\ Pends(call'[c]) /\ Pends(call'[d])
          /\ call'[c].family = call'[d].family /\ call'[c].family \notin dead
          => c = d
    BY DEF IInv, OneHolder
  <2>3. \A c \in Calls, t \in Tokens :
          Pends(call'[c]) /\ Usable(t) => call'[c].family # rt[t].family
    BY DEF IInv, OneHolder
  <2> QED
    BY <1>1, <2>1, <2>2, <2>3 DEF OneHolder, Pends, Usable
<1> QED
  BY <1>2, <1>3, <1>4, <1>5 DEF IInv

(* A user more takes nothing from what an edit found.                      *)
LEMMA CreateKeeps ==
  ASSUME IInv, NEW a \in Users, NEW u \in Users, NEW role \in UserRole, create_user(a, u, role)
  PROVE  IInv'
<1>1. PICK new : new = [role |-> role, is_active |-> TRUE] /\ users' = [users EXCEPT ![u] = new]
  BY DEF create_user
<1>2. new \in User
  BY <1>1 DEF User
<1>3. \A v \in Users : users'[v] = IF v = u THEN new ELSE users[v]
  BY <1>1 DEF IInv, TypeOK
<1>4. users' \in [Users -> User] /\ call' = call /\ history' = history
  BY <1>1, <1>2 DEF create_user, IInv, TypeOK
<1>5. ActiveAdmins \subseteq ActiveAdmins'
  BY <1>3 DEF ActiveAdmins, create_user, Exists, None, UserRole
<1>6. EditsDecided'
  <2> SUFFICES ASSUME NEW d \in Calls, call[d].step = "writing", ~call[d].stale
               PROVE  /\ call[d].read = users'[call[d].user] /\ users'[call[d].user].role # None
                      /\ _guard_last_admin(call[d].user, call[d].edit)'
    BY <1>4 DEF EditsDecided, Decided, Exists, _guard_last_admin, AnotherAdmin, ActiveAdmins
  <2>1. PICK v \in Users : v = call[d].user
    BY DEF IInv, CallsFit, Fits
  <2>2. PICK e : e = call[d].edit
    OBVIOUS
  <2>3. /\ call[d].read = users[v] /\ users[v].role # None
        /\ _guard_last_admin(v, e)
    BY <2>1, <2>2 DEF IInv, EditsDecided, Decided, Exists
  <2>4. users'[v] = users[v]
    BY <1>3, <2>3 DEF create_user, Exists
  <2>5. AnotherAdmin(v) => AnotherAdmin(v)'
    BY <1>5 DEF AnotherAdmin
  <2>6. _guard_last_admin(v, e)'
    BY <2>3, <2>4, <2>5 DEF _guard_last_admin
  <2> QED
    BY <1>4, <2>1, <2>2, <2>3, <2>4, <2>6 DEF _guard_last_admin, AnotherAdmin, ActiveAdmins
<1>7. AdminRemains'
  BY <1>4, <1>5 DEF IInv, AdminRemains
<1>8. \A d \in Calls :
        /\ Fits(call'[d])
        /\ ~Pends(call'[d]) \/ (Pends(call[d]) /\ call'[d].family = call[d].family)
  BY <1>4 DEF IInv, CallsFit
<1> QED
  BY <1>4, <1>6, <1>7, <1>8, UsersChange DEF create_user, IInv, TypeOK

(* What an edit leaves behind is a user.                                   *)
LEMMA FlushedTyped ==
  ASSUME NEW row \in User, NEW read \in User, NEW e \in UserUpdate
  PROVE  Flushed(row, read, e) \in User
BY DEF Flushed, User, UserUpdate

(* An edit nobody overtook leaves an admin: when it takes one away, the    *)
(* guard found another, who is still there.                                *)
LEMMA UpdateLeavesAnAdmin ==
  ASSUME IInv, NEW c \in Calls, call[c].step = "writing", ~call[c].stale, ActiveAdmins # {},
         users' = [users EXCEPT ![call[c].user] = Flushed(@, call[c].read, call[c].edit)]
  PROVE  ActiveAdmins' # {}
<1>1. PICK u \in Users, e \in UserUpdate, row \in User :
        u = call[c].user /\ e = call[c].edit /\ row = users[u]
  BY DEF IInv, TypeOK, CallsFit, Fits, Call
<1>2. row = call[c].read /\ _guard_last_admin(u, e)
  BY <1>1 DEF IInv, EditsDecided, Decided
<1>3. PICK new : new = Flushed(row, row, e)
  OBVIOUS
<1>4. \A v \in Users : users'[v] = IF v = u THEN new ELSE users[v]
  BY <1>1, <1>2, <1>3 DEF IInv, TypeOK
<1>5. CASE \E v \in ActiveAdmins : v # u
  BY <1>4, <1>5 DEF ActiveAdmins
<1>6. CASE \A v \in ActiveAdmins : v = u
  <2>1. row.role = "ADMIN" /\ row.is_active /\ ~AnotherAdmin(u)
    BY <1>1, <1>6 DEF ActiveAdmins, AnotherAdmin
  <2>2. e.role \in {None, "ADMIN"} /\ e.is_active # "no"
    BY <1>1, <1>2, <2>1 DEF _guard_last_admin
  <2>3. new.role = "ADMIN" /\ new.is_active
    BY <1>3, <2>1, <2>2 DEF Flushed, UserUpdate
  <2> QED
    BY <1>4, <2>3 DEF ActiveAdmins
<1> QED
  BY <1>5, <1>6

(* An edit is written, and the others have been overtaken.                 *)
LEMMA UpdateKeeps ==
  ASSUME IInv, NEW c \in Calls, update_user(c)
  PROVE  IInv'
<1>1. PICK u \in Users, e \in UserUpdate, read \in User :
        /\ u = call[c].user /\ e = call[c].edit /\ read = call[c].read
        /\ users[u] \in User /\ call[c].stale \in BOOLEAN
  BY DEF update_user, IInv, TypeOK, CallsFit, Fits, Call
<1>2. users' \in [Users -> User]
  <2>1. users' = [users EXCEPT ![u] = Flushed(users[u], read, e)]
    BY <1>1 DEF update_user
  <2> QED
    BY <1>1, <2>1, FlushedTyped DEF IInv, TypeOK
<1>3. ASSUME NEW d \in Calls
      PROVE  /\ call'[d] \in Call /\ Fits(call'[d])
             /\ call'[d].step = "writing" => call'[d].stale
             /\ ~Pends(call'[d]) \/ (Pends(call[d]) /\ call'[d].family = call[d].family)
  <2>1. CASE d = c
    <3>1. call'[d] = Idle
      BY <2>1 DEF update_user
    <3> QED
      BY <3>1, IdleFits
  <2>2. CASE d # c
    <3>1. PICK s \in Call : s = call[d] /\ Fits(s)
      BY DEF IInv, TypeOK, CallsFit
    <3>2. PICK b \in BOOLEAN : b = (s.stale \/ s.step = "writing")
      OBVIOUS
    <3>3. PICK x : x = [s EXCEPT !.stale = b] /\ call'[d] = x
      BY <2>2, <3>1, <3>2 DEF update_user
    <3>4. /\ x \in Call /\ x.op = s.op /\ x.step = s.step /\ x.user = s.user
          /\ x.family = s.family /\ x.stale = b
      BY <3>3 DEF Call
    <3>5. Fits(x)
      BY <3>1, <3>4 DEF Fits, Pends
    <3>6. (x.step = "writing" => x.stale) /\ (Pends(x) => Pends(s))
      BY <3>2, <3>4 DEF Pends
    <3> QED
      BY <3>1, <3>3, <3>4, <3>5, <3>6
  <2> QED
    BY <2>1, <2>2
<1>4. call' \in [Calls -> Call]
  <2>1. call' = [d \in Calls |-> call'[d]]
    BY DEF update_user
  <2> QED
    BY <1>3, <2>1
<1>5. /\ history' \in [dropped : SUBSET Families, raced : BOOLEAN]
      /\ history'.dropped = history.dropped
      /\ history'.raced <=> history.raced \/ call[c].stale
  BY <1>1 DEF update_user, IInv, TypeOK
<1>6. AdminRemains'
  BY <1>5, UpdateLeavesAnAdmin DEF update_user, IInv, AdminRemains
<1>7. EditsDecided'
  BY <1>3 DEF EditsDecided, Decided
<1> QED
  BY <1>2, <1>3, <1>4, <1>5, <1>6, <1>7, UsersChange DEF update_user
-----------------------------------------------------------------------------
(* The founder and no sessions satisfy the invariant.                      *)
LEMMA InitIInv == Init => IInv
<1> SUFFICES ASSUME Init PROVE IInv
  OBVIOUS
<1>1. PICK founder \in Users :
        users = [u \in Users |-> IF u = founder THEN [role |-> "ADMIN", is_active |-> TRUE]
                                 ELSE NoUser]
  BY DEF Init
<1>2. \A t \in Tokens : rt[t].status = None /\ t \notin minted
  BY DEF Init, NoRecord, minted
<1>3. \A c \in Calls : call[c] = Idle
  BY DEF Init
<1>4. TypeOK
  <2>1. users \in [Users -> User]
    BY <1>1 DEF User, NoUser, UserRole
  <2>2. /\ rt \in [Tokens -> [status : {None, "active", "used"}, user : Users \cup {None},
                              family : Families \cup {0}]]
        /\ claims \in [Tokens -> RefreshClaims]
    BY DEF Init, NoRecord, RefreshClaims
  <2>3. call \in [Calls -> Call]
    BY IdleFits DEF Init
  <2>4. /\ dead \subseteq Families /\ held \subseteq Users /\ begun \in 0 .. MaxRequests
        /\ fam \in [Families -> SUBSET Tokens] /\ index \in [Users -> SUBSET Families]
        /\ history \in [dropped : SUBSET Families, raced : BOOLEAN]
    BY AccountsAssumption DEF Init
  <2> QED
    BY <2>1, <2>2, <2>3, <2>4 DEF TypeOK
<1>5. CallsFit /\ EditsDecided
  BY <1>3, IdleFits DEF CallsFit, EditsDecided, Decided
<1>6. RecordsMatch
  BY <1>2 DEF RecordsMatch
<1>7. \A t \in Tokens : ~Usable(t)
  BY <1>2 DEF Usable, None
<1>8. OneHolder /\ IndexCoversUsable
  BY <1>3, <1>7, IdleFits DEF OneHolder, OneUsableToken, IndexCoversUsable
<1>9. AdminRemains
  BY <1>1 DEF AdminRemains, ActiveAdmins
<1> QED
  BY <1>4, <1>5, <1>6, <1>8, <1>9 DEF IInv

(* Every step of every request preserves it.                               *)
LEMMA NextIInv == IInv /\ [Next]_vars => IInv'
<1> SUFFICES ASSUME IInv, [Next]_vars PROVE IInv'
  OBVIOUS
<1>1. ASSUME NEW c \in Calls, SessionNext(c)
      PROVE  IInv'
  BY <1>1, LoginKeeps, LogoutKeeps, ConsumeKeeps, MintKeeps, RotateKeeps, RevokeKeeps,
     ForgetKeeps DEF SessionNext
<1>2. CASE AdminNext
  BY <1>2, CreateKeeps, ReadsKeeps, UpdateKeeps DEF AdminNext
<1>3. ASSUME NEW u \in Users, AccessExpires(u)
      PROVE  IInv'
  BY <1>3 DEF AccessExpires, store, IInv, TypeOK, CallsFit, Fits, Pends, RecordsMatch, minted,
              OneHolder, OneUsableToken, Usable, IndexCoversUsable, EditsDecided, Decided,
              Exists, _guard_last_admin, AnotherAdmin, ActiveAdmins, AdminRemains
<1>4. CASE UNCHANGED vars
  BY <1>4 DEF vars, store, IInv, TypeOK, CallsFit, Fits, Pends, RecordsMatch, minted,
              OneHolder, OneUsableToken, Usable, IndexCoversUsable, EditsDecided, Decided,
              Exists, _guard_last_admin, AnotherAdmin, ActiveAdmins, AdminRemains
<1> QED
  BY <1>1, <1>2, <1>3, <1>4, CrashKeeps DEF Next

(* The invariant holds always.                                             *)
LEMMA Invariance == Spec => []IInv
BY InitIInv, NextIInv, PTL DEF Spec
-----------------------------------------------------------------------------
(* What follows from it.                                                   *)

(* Type correctness: the records, sets and claims of app/modules/auth/     *)
(* tokens.py and the rows of users/service.py stay in their ranges.        *)
THEOREM TypeCorrect == Spec => []TypeOK
<1>1. IInv => TypeOK
  BY DEF IInv
<1> QED
  BY <1>1, Invariance, PTL

(* Two refreshes with one token, a logout or a crash in the middle of one: *)
(* a session never has two tokens that can be traded in (auth/tokens.py).  *)
THEOREM SessionsAreSingle == Spec => []OneUsableToken
<1>1. IInv => OneUsableToken
  BY DEF IInv, OneHolder
<1> QED
  BY <1>1, Invariance, PTL

(* "Log out everywhere" finds every session with a usable token, but for   *)
(* those opened while another such logout was deleting the index           *)
(* (auth/tokens.py, revoke_all_for_user).                                  *)
THEOREM LogoutFindsSessions == Spec => []IndexCoversUsable
<1>1. IInv => IndexCoversUsable
  BY DEF IInv
<1> QED
  BY <1>1, Invariance, PTL

(* The organisation keeps an active admin as long as no two edits          *)
(* overlapped (users/service.py, _guard_last_admin).                       *)
THEOREM AnAdminRemains == Spec => []AdminRemains
<1>1. IInv => AdminRemains
  BY DEF IInv
<1> QED
  BY <1>1, Invariance, PTL

(***************************************************************************)
(* Tenancy: sessions, connections and rows.                                *)
(***************************************************************************)
Typed ==
  /\ rows \subseteq Rows /\ told \subseteq Rows
  /\ guc \in [Connections -> Contexts \cup {NoContext}]
  /\ session \in [Requests -> Session]

(* A connection serves one session.                                        *)
OneSession ==
  \A q, r \in Requests :
    session[q].conn = session[r].conn /\ q # r => session[q].conn = Nobody

(* Only a session that is open is in a transaction.                        *)
ToldItsTenant ==
  /\ \A r \in Requests : session[r].conn # Nobody =>
       session[r].step = "open" /\ guc[session[r].conn] = session[r].tenant
  /\ \A c \in Connections :
       (\A r \in Requests : session[r].conn # c) => guc[c] = NoContext

(* What a transaction added passed the check for its tenant.               *)
AddedChecked ==
  \A r \in Requests :
    /\ session[r].conn = Nobody => session[r].added = {} /\ session[r].removed = {}
    /\ \A row \in session[r].added : policy_for(row, session[r].tenant).check

(* What a transaction removed is there until it commits, and locked.       *)
RemovedLocked ==
  /\ \A r \in Requests : session[r].removed \subseteq rows
  /\ \A q, r \in Requests : q # r => session[q].removed \cap session[r].removed = {}

(* What a reply would tell of is committed, or will be before the reply.   *)
MadeKept ==
  \A r \in Requests :
    /\ session[r].made \subseteq rows \cup session[r].added
    /\ session[r].made \cap session[r].removed = {}

RowsBounded == IsFiniteSet(Taken) /\ Cardinality(Taken) <= MaxRows

TenancyIInv ==
  /\ Typed /\ OneSession /\ ToldItsTenant /\ AddedChecked
  /\ RemovedLocked /\ MadeKept
  /\ AnnouncedIsCommitted
  /\ RowsBounded
-----------------------------------------------------------------------------
(* The policies, and what is told.                                         *)

(* What USING and CHECK come to for the rows there are: the organisation,  *)
(* and for a candidate the owner, who may leave behind resumes alone.      *)
LEMMA PolicyIs ==
  ASSUME NEW row \in Rows, NEW ctx
  PROVE  /\ policy_for(row, ctx).using <=>
              /\ row.org = ctx.org
              /\ IsStaff(ctx) \/ (row.table \in Owned /\ OwnedBy(row, ctx))
         /\ policy_for(row, ctx).check <=>
              /\ row.org = ctx.org
              /\ IsStaff(ctx) \/ (row.table = "resumes" /\ OwnedBy(row, ctx))
<1>1. row.table \in {"scores", "interviews", "resumes"}
  BY DEF Rows, Owned, USER_ONLY_TABLES, CANDIDATE_SCOPED, CANDIDATE_WRITABLE
<1>2. CASE row.table = "scores"
  <2>1. policy_for(row, ctx) = user_only_policy(row, ctx)
    BY <1>2 DEF policy_for, USER_ONLY_TABLES, CANDIDATE_SCOPED, CANDIDATE_WRITABLE
  <2>2. row.table \notin Owned
    BY <1>2 DEF Owned, CANDIDATE_SCOPED, CANDIDATE_WRITABLE
  <2>3. /\ user_only_policy(row, ctx).using = (row.org = ctx.org /\ IsStaff(ctx))
        /\ user_only_policy(row, ctx).check = (row.org = ctx.org /\ IsStaff(ctx))
    BY DEF user_only_policy
  <2> QED
    BY <1>2, <2>1, <2>2, <2>3
<1>3. CASE row.table = "interviews"
  <2>1. policy_for(row, ctx) = candidate_scoped_policy(row, ctx)
    BY <1>3 DEF policy_for, USER_ONLY_TABLES, CANDIDATE_WRITABLE, CANDIDATE_SCOPED
  <2>2. row.table \in Owned
    BY <1>3 DEF Owned, CANDIDATE_SCOPED
  <2>3. /\ candidate_scoped_policy(row, ctx).using
             = (row.org = ctx.org /\ (IsStaff(ctx) \/ OwnedBy(row, ctx)))
        /\ candidate_scoped_policy(row, ctx).check = (row.org = ctx.org /\ IsStaff(ctx))
    BY DEF candidate_scoped_policy
  <2> QED
    BY <1>3, <2>1, <2>2, <2>3
<1>4. CASE row.table = "resumes"
  <2>1. policy_for(row, ctx) = candidate_writable_policy(row, ctx)
    BY <1>4 DEF policy_for, USER_ONLY_TABLES, CANDIDATE_WRITABLE, CANDIDATE_SCOPED
  <2>2. row.table \in Owned
    BY <1>4 DEF Owned, CANDIDATE_WRITABLE
  <2>3. /\ candidate_writable_policy(row, ctx).using
             = (row.org = ctx.org /\ (IsStaff(ctx) \/ OwnedBy(row, ctx)))
        /\ candidate_writable_policy(row, ctx).check
             = (row.org = ctx.org /\ (IsStaff(ctx) \/ OwnedBy(row, ctx)))
    BY DEF candidate_writable_policy
  <2> QED
    BY <1>4, <2>1, <2>2, <2>3
<1> QED
  BY <1>1, <1>2, <1>3, <1>4

(* A token yields a principal the organisations and candidates know.       *)
LEMMA PrincipalsAreContexts ==
  ASSUME NEW token \in MintedTokens, NEW principal \in get_principal(token)
  PROVE  principal \in Contexts
<1>1. CASE token.typ = "access" /\ principal = [org |-> token.org, kind |-> "user", actor |-> Nobody]
  BY <1>1 DEF MintedTokens, Contexts
<1>2. CASE /\ token.typ = "interview"
           /\ principal = [org |-> token.org, kind |-> "candidate", actor |-> token.sub]
  BY <1>2 DEF MintedTokens, Contexts
<1> QED
  BY <1>1, <1>2 DEF get_principal, decode_token

(* A closed session has nothing in hand.                                   *)
LEMMA ClosedTyped == /\ Closed \in Session
                     /\ Closed.step = "closed" /\ Closed.conn = Nobody
                     /\ Closed.added = {} /\ Closed.removed = {} /\ Closed.made = {}
BY DEF Closed, Session
-----------------------------------------------------------------------------
(* The steps.                                                              *)

(* Fewer rows within the bound stay within it.                             *)
LEMMA BoundKeeps ==
  ASSUME RowsBounded, Taken' \subseteq Taken
  PROVE  RowsBounded'
<1>1. IsFiniteSet(Taken') /\ Cardinality(Taken') <= Cardinality(Taken)
  BY FS_Subset DEF RowsBounded
<1>2. Cardinality(Taken) \in Nat /\ Cardinality(Taken') \in Nat
  BY <1>1, FS_CardinalityType DEF RowsBounded
<1> QED
  BY <1>1, <1>2, TenancyAssumption DEF RowsBounded

(* Opening a session changes nothing but its record, which starts empty.   *)
LEMMA OpenKeeps ==
  ASSUME TenancyIInv, NEW r \in Requests, session[r].step = "closed",
         NEW fresh \in Session, fresh.conn = Nobody,
         fresh.added = {}, fresh.removed = {}, fresh.made = {},
         session' = [session EXCEPT ![r] = fresh],
         UNCHANGED <<rows, guc, told>>
  PROVE  TenancyIInv'
<1>1. session[r].conn = Nobody
  BY DEF TenancyIInv, ToldItsTenant
<1>2. \A q \in Requests : session'[q] = IF q = r THEN fresh ELSE session[q]
  BY DEF TenancyIInv, Typed
<1>3. Typed'
  BY DEF TenancyIInv, Typed
<1>4. OneSession'
  BY <1>2 DEF TenancyIInv, OneSession
<1>5. ToldItsTenant'
  BY <1>1, <1>2 DEF TenancyIInv, ToldItsTenant
<1>6. AddedChecked'
  BY <1>2 DEF TenancyIInv, AddedChecked
<1>7. RemovedLocked' /\ MadeKept'
  BY <1>2 DEF TenancyIInv, RemovedLocked, MadeKept
<1>8. RowsBounded'
  <2>1. Taken' \subseteq Taken
    BY <1>2 DEF Taken
  <2> QED
    BY <2>1, BoundKeeps DEF TenancyIInv
<1> QED
  BY <1>3, <1>4, <1>5, <1>6, <1>7, <1>8 DEF TenancyIInv, AnnouncedIsCommitted

(* What a new session starts as, for the tenant it is given.               *)
LEMMA FreshTyped ==
  ASSUME NEW tenant \in Contexts \cup {NoContext}, NEW fresh,
         \/ fresh = [Closed EXCEPT !.step = "open", !.tenant = tenant]
         \/ tenant = NoContext /\ fresh = [Closed EXCEPT !.step = "open"]
  PROVE  /\ fresh \in Session /\ fresh.conn = Nobody
         /\ fresh.added = {} /\ fresh.removed = {} /\ fresh.made = {}
BY DEF Closed, Session

(* A connection that goes back to the pool was told nothing, the others    *)
(* what they were.                                                         *)
LEMMA ReleasedIs ==
  ASSUME Typed, NEW r \in Requests
  PROVE  /\ Released(r) \in [Connections -> Contexts \cup {NoContext}]
         /\ \A c \in Connections :
              Released(r)[c] = IF c = session[r].conn THEN NoContext ELSE guc[c]
BY DEF Released, AfterTransaction, Typed

(* A transaction commits and lets go of its connection; its session goes   *)
(* on with no more to announce than it had.                                *)
LEMMA CommitKeeps ==
  ASSUME TenancyIInv, NEW r \in Requests, NEW goes \in Session, Commits(r, goes),
         goes.conn = Nobody, goes.added = {}, goes.removed = {},
         goes.made \subseteq session[r].made
  PROVE  TenancyIInv'
<1>1. \A q \in Requests :
        session'[q] = IF q = r THEN goes ELSE [session[q] EXCEPT !.made = @ \ session[r].removed]
  BY DEF Commits
<1>2. \A q \in Requests : session[q] \in Session
  BY DEF TenancyIInv, Typed
<1>3. \A q \in Requests \ {r} :
        /\ session'[q].step = session[q].step /\ session'[q].tenant = session[q].tenant
        /\ session'[q].conn = session[q].conn
        /\ session'[q].added = session[q].added /\ session'[q].removed = session[q].removed
        /\ session'[q].made = session[q].made \ session[r].removed
        /\ session'[q] \in Session
  <2> SUFFICES ASSUME NEW q \in Requests \ {r}
               PROVE  /\ session'[q].step = session[q].step /\ session'[q].tenant = session[q].tenant
                      /\ session'[q].conn = session[q].conn /\ session'[q].added = session[q].added
                      /\ session'[q].removed = session[q].removed
                      /\ session'[q].made = session[q].made \ session[r].removed
                      /\ session'[q] \in Session
    OBVIOUS
  <2>1. PICK s \in Session : s = session[q]
    BY <1>2
  <2>2. PICK left \in SUBSET Rows : left = s.made \ session[r].removed
    BY DEF Session
  <2>3. PICK t : t = session'[q]
    OBVIOUS
  <2>4. t = [s EXCEPT !.made = left]
    BY <1>1, <2>1, <2>2, <2>3
  <2>5. /\ t.step = s.step /\ t.tenant = s.tenant /\ t.conn = s.conn
        /\ t.added = s.added /\ t.removed = s.removed
        /\ t.made = left /\ t \in Session
    BY <2>4 DEF Session
  <2> QED
    BY <2>1, <2>2, <2>3, <2>5
<1>4. session'[r] = goes
  BY <1>1
<1>5. Typed'
  <2>1. \A q \in Requests : session'[q] \in Session
    BY <1>3, <1>4
  <2>2. session' \in [Requests -> Session]
    BY <2>1 DEF Commits
  <2>3. rows' \subseteq Rows /\ told' \subseteq Rows
    BY <1>2 DEF Commits, TenancyIInv, Typed, Session
  <2> QED
    BY <2>2, <2>3, ReleasedIs DEF Commits, TenancyIInv, Typed
<1>6. OneSession'
  BY <1>3, <1>4 DEF TenancyIInv, OneSession
<1>7. ToldItsTenant'
  <2>1. \A c \in Connections : guc'[c] = IF c = session[r].conn THEN NoContext ELSE guc[c]
    BY ReleasedIs DEF Commits, TenancyIInv
  <2>2. ASSUME NEW q \in Requests, session'[q].conn # Nobody
        PROVE  session'[q].step = "open" /\ guc'[session'[q].conn] = session'[q].tenant
    <3>1. q # r /\ session[q].conn # Nobody /\ session[q].conn \in Connections
      BY <1>2, <1>3, <1>4, <2>2 DEF Session
    <3>2. session[q].conn # session[r].conn
      BY <3>1 DEF TenancyIInv, OneSession
    <3> QED
      BY <1>3, <2>1, <3>1, <3>2 DEF TenancyIInv, ToldItsTenant
  <2>3. ASSUME NEW c \in Connections, \A q \in Requests : session'[q].conn # c
        PROVE  guc'[c] = NoContext
    <3>1. CASE c = session[r].conn
      BY <2>1, <3>1
    <3>2. CASE c # session[r].conn
      <4>1. \A q \in Requests : session[q].conn # c
        BY <1>3, <2>3, <3>2
      <4> QED
        BY <2>1, <3>2, <4>1 DEF TenancyIInv, ToldItsTenant
    <3> QED
      BY <3>1, <3>2
  <2> QED
    BY <2>2, <2>3 DEF ToldItsTenant
<1>8. AddedChecked'
  <2>1. ASSUME NEW q \in Requests
        PROVE  /\ session'[q].conn = Nobody => session'[q].added = {} /\ session'[q].removed = {}
               /\ \A row \in session'[q].added : policy_for(row, session'[q].tenant).check
    BY <1>3, <1>4 DEF TenancyIInv, AddedChecked
  <2> QED
    BY <2>1 DEF AddedChecked
<1>9. RemovedLocked'
  BY <1>3, <1>4 DEF TenancyIInv, RemovedLocked, Commits
<1>10. MadeKept'
  <2>1. rows' = (rows \ session[r].removed) \cup session[r].added
    BY DEF Commits
  <2>2. ASSUME NEW q \in Requests \ {r}
        PROVE  /\ session'[q].made \subseteq rows' \cup session'[q].added
               /\ session'[q].made \cap session'[q].removed = {}
    BY <1>3, <2>1 DEF TenancyIInv, MadeKept
  <2>3. session'[r].made \subseteq rows' /\ session'[r].removed = {}
    BY <1>4, <2>1 DEF TenancyIInv, MadeKept
  <2> QED
    BY <2>2, <2>3 DEF MadeKept
<1>11. AnnouncedIsCommitted'
  BY DEF TenancyIInv, AnnouncedIsCommitted, Commits
<1>12. RowsBounded'
  <2>1. Taken' \subseteq Taken
    BY <1>3, <1>4 DEF Taken, Commits
  <2> QED
    BY <2>1, BoundKeeps DEF TenancyIInv
<1> QED
  BY <1>5, <1>6, <1>7, <1>8, <1>9, <1>10, <1>11, <1>12 DEF TenancyIInv

(* A raise: the record is forgotten and the connection let go of.          *)
LEMMA RollbackKeeps ==
  ASSUME TenancyIInv, NEW r \in Requests, rolls_back(r)
  PROVE  TenancyIInv'
<1>1. \A q \in Requests : session'[q] = IF q = r THEN Closed ELSE session[q]
  BY DEF rolls_back, TenancyIInv, Typed
<1>2. \A q \in Requests : session[q] \in Session
  BY DEF TenancyIInv, Typed
<1>3. \A c \in Connections : guc'[c] = IF c = session[r].conn THEN NoContext ELSE guc[c]
  BY ReleasedIs DEF rolls_back, TenancyIInv
<1>4. Typed'
  BY ReleasedIs, ClosedTyped DEF rolls_back, TenancyIInv, Typed
<1>5. OneSession'
  BY <1>1, ClosedTyped DEF TenancyIInv, OneSession
<1>6. ToldItsTenant'
  <2>1. ASSUME NEW q \in Requests, session'[q].conn # Nobody
        PROVE  session'[q].step = "open" /\ guc'[session'[q].conn] = session'[q].tenant
    <3>1. q # r /\ session[q].conn # Nobody /\ session[q].conn \in Connections
      BY <1>1, <1>2, <2>1, ClosedTyped DEF Session
    <3>2. session[q].conn # session[r].conn
      BY <3>1 DEF TenancyIInv, OneSession
    <3> QED
      BY <1>1, <1>3, <3>1, <3>2 DEF TenancyIInv, ToldItsTenant
  <2>2. ASSUME NEW c \in Connections, \A q \in Requests : session'[q].conn # c
        PROVE  guc'[c] = NoContext
    <3>1. CASE c = session[r].conn
      BY <1>3, <3>1
    <3>2. CASE c # session[r].conn
      <4>1. \A q \in Requests : session[q].conn # c
        BY <1>1, <2>2, <3>2
      <4> QED
        BY <1>3, <3>2, <4>1 DEF TenancyIInv, ToldItsTenant
    <3> QED
      BY <3>1, <3>2
  <2> QED
    BY <2>1, <2>2 DEF ToldItsTenant
<1>7. AddedChecked' /\ RemovedLocked' /\ MadeKept'
  BY <1>1, ClosedTyped DEF rolls_back, TenancyIInv, AddedChecked, RemovedLocked, MadeKept
<1>8. RowsBounded'
  <2>1. Taken' \subseteq Taken
    BY <1>1, ClosedTyped DEF rolls_back, Taken
  <2> QED
    BY <2>1, BoundKeeps DEF TenancyIInv
<1> QED
  BY <1>4, <1>5, <1>6, <1>7, <1>8 DEF TenancyIInv, AnnouncedIsCommitted, rolls_back

(* A transaction begins: its connection was free, so it was told nothing,  *)
(* and is told the session's tenant or, of a login, nothing.               *)
LEMMA BeginKeeps ==
  ASSUME TenancyIInv, NEW r \in Requests, NEW c \in Connections, after_begin(r, c)
  PROVE  TenancyIInv'
<1>1. session[r] \in Session /\ session[r].step = "open" /\ session[r].conn = Nobody
  BY DEF TenancyIInv, Typed, after_begin
<1>2. \A q \in Requests :
        session'[q] = IF q = r THEN [session[r] EXCEPT !.conn = c] ELSE session[q]
  BY DEF after_begin, TenancyIInv, Typed
<1>3. /\ session'[r].step = "open" /\ session'[r].conn = c
      /\ session'[r].tenant = session[r].tenant
      /\ session'[r].added = session[r].added /\ session'[r].removed = session[r].removed
      /\ session'[r].made = session[r].made
  BY <1>1, <1>2 DEF Session
<1>4. c # Nobody
  BY TenancyAssumption
<1>5. guc[c] = NoContext /\ \A q \in Requests : session[q].conn # c
  BY DEF after_begin, TenancyIInv, ToldItsTenant
<1>6. \A d \in Connections : guc'[d] = IF d = c THEN session[r].tenant ELSE guc[d]
  BY <1>5 DEF after_begin, TenancyIInv, Typed
<1>7. Typed'
  <2>1. session'[r] \in Session
    BY <1>1, <1>2 DEF Session
  <2> QED
    BY <1>1, <2>1 DEF after_begin, TenancyIInv, Typed, Session
<1>8. OneSession'
  BY <1>2, <1>3, <1>5 DEF TenancyIInv, OneSession
<1>9. ToldItsTenant'
  <2>1. ASSUME NEW q \in Requests, session'[q].conn # Nobody
        PROVE  session'[q].step = "open" /\ guc'[session'[q].conn] = session'[q].tenant
    <3>1. CASE q = r
      BY <1>3, <1>6, <3>1
    <3>2. CASE q # r
      <4>1. session'[q] = session[q] /\ session[q].conn # c /\ session[q].conn \in Connections
        BY <1>2, <1>5, <2>1, <3>2 DEF TenancyIInv, Typed, Session
      <4> QED
        BY <1>6, <2>1, <4>1 DEF TenancyIInv, ToldItsTenant
    <3> QED
      BY <3>1, <3>2
  <2>2. ASSUME NEW d \in Connections, \A q \in Requests : session'[q].conn # d
        PROVE  guc'[d] = NoContext
    <3>1. d # c /\ \A q \in Requests : session[q].conn # d
      BY <1>1, <1>2, <1>3, <2>2, TenancyAssumption
    <3> QED
      BY <1>6, <3>1 DEF TenancyIInv, ToldItsTenant
  <2> QED
    BY <2>1, <2>2 DEF ToldItsTenant
<1>10. AddedChecked'
  <2>1. \A q \in Requests \ {r} : session'[q] = session[q]
    BY <1>2
  <2> QED
    BY <1>3, <1>4, <2>1 DEF TenancyIInv, AddedChecked
<1>11. RemovedLocked' /\ MadeKept'
  BY <1>2, <1>3 DEF after_begin, TenancyIInv, RemovedLocked, MadeKept
<1>12. RowsBounded'
  <2>1. Taken' \subseteq Taken
    BY <1>2, <1>3 DEF after_begin, Taken
  <2> QED
    BY <2>1, BoundKeeps DEF TenancyIInv
<1> QED
  BY <1>7, <1>8, <1>9, <1>10, <1>11, <1>12 DEF TenancyIInv, AnnouncedIsCommitted, after_begin

(* A row is added that passes the check for what the connection was told,  *)
(* which is the tenant.                                                    *)
LEMMA InsertKeeps ==
  ASSUME TenancyIInv, NEW r \in Requests, insert(r)
  PROVE  TenancyIInv'
<1>1. PICK row \in Rows \ Taken :
        /\ policy_for(row, guc[session[r].conn]).check
        /\ session' = [session EXCEPT ![r].added = @ \cup {row}, ![r].made = @ \cup {row}]
  BY DEF insert
<1>2. /\ session[r] \in Session /\ session[r].step = "open" /\ session[r].conn # Nobody
      /\ Cardinality(Taken) < MaxRows /\ UNCHANGED <<rows, guc, told>>
  BY DEF TenancyIInv, Typed, insert, InTransaction
<1>3. \A q \in Requests :
        session'[q] = IF q = r THEN [session[r] EXCEPT !.added = @ \cup {row}, !.made = @ \cup {row}]
                      ELSE session[q]
  BY <1>1 DEF TenancyIInv, Typed
<1>4. /\ session'[r].step = session[r].step /\ session'[r].conn = session[r].conn
      /\ session'[r].tenant = session[r].tenant /\ session'[r].removed = session[r].removed
      /\ session'[r].added = session[r].added \cup {row}
      /\ session'[r].made = session[r].made \cup {row}
  BY <1>2, <1>3 DEF Session
<1>5. \A q \in Requests \ {r} : session'[q] = session[q]
  BY <1>3
<1>6. row \notin rows /\ row \notin session[r].added
  BY <1>1 DEF Taken
<1>7. Typed'
  <2>1. session'[r] \in Session
    <3> SUFFICES ASSUME NEW s \in Session
                 PROVE  [s EXCEPT !.added = @ \cup {row}, !.made = @ \cup {row}] \in Session
      BY <1>2, <1>3
    <3> QED
      BY <1>1 DEF Session
  <2> QED
    BY <1>1, <1>2, <1>3, <2>1 DEF TenancyIInv, Typed
<1>8. OneSession' /\ ToldItsTenant'
  BY <1>2, <1>4, <1>5 DEF TenancyIInv, OneSession, ToldItsTenant
<1>9. AddedChecked'
  <2>1. policy_for(row, session[r].tenant).check
    BY <1>1, <1>2 DEF TenancyIInv, ToldItsTenant
  <2> QED
    BY <1>2, <1>4, <1>5, <2>1 DEF TenancyIInv, AddedChecked
<1>10. RemovedLocked'
  BY <1>2, <1>4, <1>5 DEF TenancyIInv, RemovedLocked
<1>11. MadeKept'
  <2>1. row \notin session[r].removed
    BY <1>6 DEF TenancyIInv, RemovedLocked
  <2> QED
    BY <1>2, <1>4, <1>5, <2>1 DEF TenancyIInv, MadeKept
<1>12. RowsBounded'
  <2>1. Taken' = Taken \cup {row}
    BY <1>2, <1>4, <1>5 DEF Taken
  <2>2. IsFiniteSet(Taken') /\ Cardinality(Taken') = Cardinality(Taken) + 1
    BY <1>1, <2>1, FS_AddElement DEF TenancyIInv, RowsBounded
  <2>3. Cardinality(Taken) \in Nat
    BY FS_CardinalityType DEF TenancyIInv, RowsBounded
  <2> QED
    BY <1>2, <2>2, <2>3, TenancyAssumption DEF RowsBounded
<1> QED
  BY <1>2, <1>7, <1>8, <1>9, <1>10, <1>11, <1>12 DEF TenancyIInv, AnnouncedIsCommitted

(* A row is removed that nobody else is removing.                          *)
LEMMA DeleteKeeps ==
  ASSUME TenancyIInv, NEW r \in Requests, delete(r)
  PROVE  TenancyIInv'
<1>1. PICK row \in Visible(r) :
        /\ ~ LockedBut(r, row)
        /\ session' = [session EXCEPT ![r].added = @ \ {row}, ![r].made = @ \ {row},
                                      ![r].removed = @ \cup ({row} \cap rows)]
  BY DEF delete
<1>2. /\ session[r] \in Session /\ session[r].step = "open" /\ session[r].conn # Nobody
      /\ UNCHANGED <<rows, guc, told>>
  BY DEF TenancyIInv, Typed, delete, InTransaction
<1>3. \A q \in Requests :
        session'[q] = IF q = r THEN [session[r] EXCEPT !.added = @ \ {row}, !.made = @ \ {row},
                                                       !.removed = @ \cup ({row} \cap rows)]
                      ELSE session[q]
  BY <1>1 DEF TenancyIInv, Typed
<1>4. /\ session'[r].step = session[r].step /\ session'[r].conn = session[r].conn
      /\ session'[r].tenant = session[r].tenant
      /\ session'[r].removed = session[r].removed \cup ({row} \cap rows)
      /\ session'[r].added = session[r].added \ {row}
      /\ session'[r].made = session[r].made \ {row}
  BY <1>2, <1>3 DEF Session
<1>5. \A q \in Requests \ {r} : session'[q] = session[q]
  BY <1>3
<1>6. Typed'
  <2>1. session'[r] \in Session
    <3>1. PICK s \in Session : s = session[r]
      BY <1>2
    <3>2. PICK a \in SUBSET Rows, m \in SUBSET Rows, g \in SUBSET Rows :
            a = s.added \ {row} /\ m = s.made \ {row} /\ g = s.removed \cup ({row} \cap rows)
      BY DEF Session, TenancyIInv, Typed
    <3>3. session'[r] = [s EXCEPT !.added = a, !.made = m, !.removed = g]
      BY <1>3, <3>1, <3>2
    <3> QED
      BY <3>3 DEF Session
  <2> QED
    BY <1>1, <1>2, <1>3, <2>1 DEF TenancyIInv, Typed
<1>7. OneSession' /\ ToldItsTenant'
  BY <1>2, <1>4, <1>5 DEF TenancyIInv, OneSession, ToldItsTenant
<1>8. AddedChecked'
  BY <1>2, <1>4, <1>5 DEF TenancyIInv, AddedChecked
<1>9. RemovedLocked'
  <2>1. \A q \in Requests \ {r} : row \notin session[q].removed
    BY <1>1 DEF LockedBut
  <2> QED
    BY <1>2, <1>4, <1>5, <2>1 DEF TenancyIInv, RemovedLocked
<1>10. MadeKept'
  BY <1>2, <1>4, <1>5 DEF TenancyIInv, MadeKept
<1>11. RowsBounded'
  <2>1. Taken' \subseteq Taken
    BY <1>2, <1>4, <1>5 DEF Taken
  <2> QED
    BY <2>1, BoundKeeps DEF TenancyIInv
<1> QED
  BY <1>2, <1>6, <1>7, <1>8, <1>9, <1>10, <1>11 DEF TenancyIInv, AnnouncedIsCommitted

(* The response announces what was made, all of it committed by then.      *)
LEMMA ReplyKeeps ==
  ASSUME TenancyIInv, NEW r \in Requests, Reply(r)
  PROVE  TenancyIInv'
<1>1. /\ session[r] \in Session /\ session[r].step = "returned"
      /\ UNCHANGED <<rows, guc>> /\ told' = told \cup session[r].made
  BY DEF TenancyIInv, Typed, Reply
<1>2. session[r].conn = Nobody /\ session[r].added = {}
  BY <1>1 DEF TenancyIInv, ToldItsTenant, AddedChecked
<1>3. \A q \in Requests :
        session'[q] = IF q = r THEN [session[r] EXCEPT !.step = "sent"] ELSE session[q]
  BY DEF Reply, TenancyIInv, Typed
<1>4. /\ session'[r].conn = Nobody /\ session'[r].tenant = session[r].tenant
      /\ session'[r].removed = session[r].removed /\ session'[r].added = session[r].added
      /\ session'[r].made = session[r].made
  BY <1>1, <1>2, <1>3 DEF Session
<1>5. \A q \in Requests \ {r} : session'[q] = session[q]
  BY <1>3
<1>6. session[r].made \subseteq rows
  BY <1>2 DEF TenancyIInv, MadeKept
<1>7. Typed'
  <2>1. session'[r] \in Session
    BY <1>1, <1>3 DEF Session
  <2> QED
    BY <1>1, <1>6, <2>1 DEF Reply, TenancyIInv, Typed
<1>8. OneSession' /\ ToldItsTenant'
  BY <1>1, <1>2, <1>4, <1>5 DEF TenancyIInv, OneSession, ToldItsTenant
<1>9. AddedChecked' /\ RemovedLocked' /\ MadeKept'
  BY <1>1, <1>2, <1>4, <1>5 DEF TenancyIInv, AddedChecked, RemovedLocked, MadeKept
<1>10. RowsBounded'
  <2>1. Taken' \subseteq Taken
    BY <1>1, <1>4, <1>5 DEF Taken
  <2> QED
    BY <2>1, BoundKeeps DEF TenancyIInv
<1> QED
  BY <1>1, <1>6, <1>7, <1>8, <1>9, <1>10 DEF TenancyIInv, AnnouncedIsCommitted

(* The initial pool and no sessions satisfy the invariant.                 *)
LEMMA TenancyInitIInv == TenancyInit => TenancyIInv
<1> SUFFICES ASSUME TenancyInit PROVE TenancyIInv
  OBVIOUS
<1>1. \A r \in Requests : session[r] = Closed
  BY DEF TenancyInit
<1>2. Typed
  BY ClosedTyped DEF TenancyInit, Typed
<1>3. OneSession /\ ToldItsTenant /\ AddedChecked
  BY <1>1, ClosedTyped DEF TenancyInit, OneSession, ToldItsTenant, AddedChecked
<1>4. RemovedLocked /\ MadeKept
  BY <1>1, ClosedTyped DEF RemovedLocked, MadeKept
<1>5. RowsBounded
  <2>1. Taken = {}
    BY <1>1, ClosedTyped DEF TenancyInit, Taken
  <2> QED
    BY <2>1, FS_EmptySet, TenancyAssumption DEF RowsBounded
<1> QED
  BY <1>2, <1>3, <1>4, <1>5 DEF TenancyIInv, AnnouncedIsCommitted, TenancyInit

(* Every step of every request preserves it.                               *)
LEMMA TenancyNextIInv == TenancyIInv /\ [TenancyNext]_tenancyVars => TenancyIInv'
<1> SUFFICES ASSUME TenancyIInv, [TenancyNext]_tenancyVars PROVE TenancyIInv'
  OBVIOUS
<1>1. ASSUME NEW r \in Requests, get_db(r)
      PROVE  TenancyIInv'
  <2>1. PICK principal \in Contexts :
          session' = [session EXCEPT ![r] = [Closed EXCEPT !.step = "open", !.tenant = principal]]
    BY <1>1, PrincipalsAreContexts DEF get_db
  <2> QED
    BY <1>1, <2>1, OpenKeeps, FreshTyped DEF get_db
<1>2. ASSUME NEW r \in Requests, tenant_session(r)
      PROVE  TenancyIInv'
  <2>1. PICK org \in Orgs :
          session' = [session EXCEPT ![r] = [Closed EXCEPT !.step = "open",
                        !.tenant = [org |-> org, kind |-> "system", actor |-> Nobody]]]
    BY <1>2 DEF tenant_session
  <2>2. [org |-> org, kind |-> "system", actor |-> Nobody] \in Contexts
    BY DEF Contexts
  <2> QED
    BY <1>2, <2>1, <2>2, OpenKeeps, FreshTyped DEF tenant_session
<1>3. ASSUME NEW r \in Requests, unscoped_session(r)
      PROVE  TenancyIInv'
  BY <1>3, OpenKeeps, FreshTyped DEF unscoped_session
<1>4. ASSUME NEW r \in Requests, commit(r)
      PROVE  TenancyIInv'
  <2> DEFINE goes == [session[r] EXCEPT !.conn = Nobody, !.added = {}, !.removed = {}]
  <2>1. /\ goes \in Session /\ goes.conn = Nobody /\ goes.added = {} /\ goes.removed = {}
        /\ goes.made = session[r].made
    BY DEF TenancyIInv, Typed, Session
  <2> QED
    BY <1>4, <2>1, CommitKeeps DEF commit
<1>5. ASSUME NEW r \in Requests, handler(r)
      PROVE  TenancyIInv'
  <2> DEFINE goes == [session[r] EXCEPT !.step = "returned", !.conn = Nobody,
                                        !.added = {}, !.removed = {}]
  <2>1. /\ goes \in Session /\ goes.conn = Nobody /\ goes.added = {} /\ goes.removed = {}
        /\ goes.made = session[r].made
    BY DEF TenancyIInv, Typed, Session
  <2> QED
    BY <1>5, <2>1, CommitKeeps DEF handler
<1>6. ASSUME NEW r \in Requests, session_exits(r)
      PROVE  TenancyIInv'
  BY <1>6, CommitKeeps, ClosedTyped DEF session_exits
<1>7. CASE UNCHANGED tenancyVars
  BY <1>7 DEF tenancyVars, TenancyIInv, Typed, OneSession, ToldItsTenant, AddedChecked, RemovedLocked,
              MadeKept, AnnouncedIsCommitted, RowsBounded, Taken
<1> QED
  BY <1>1, <1>2, <1>3, <1>4, <1>5, <1>6, <1>7,
     BeginKeeps, InsertKeeps, DeleteKeeps, ReplyKeeps, RollbackKeeps DEF TenancyNext

(* The invariant holds always.                                             *)
LEMMA TenancyInvariance == TenancySpec => []TenancyIInv
BY TenancyInitIInv, TenancyNextIInv, PTL DEF TenancySpec
-----------------------------------------------------------------------------
(* What follows from it.                                                   *)

(* Type correctness: sessions, rows and connections stay in their ranges   *)
(* (db/session.py, db/rls.py), and a connection that serves nobody has     *)
(* been told nothing.                                                      *)
THEOREM TenancyTypeCorrect == TenancySpec => []TenancyTypeOK
<1>1. TenancyIInv => TenancyTypeOK
  <2> SUFFICES ASSUME TenancyIInv PROVE TenancyTypeOK
    OBVIOUS
  <2>1. rows \subseteq Taken
    BY DEF Taken
  <2>2. IsFiniteSet(rows) /\ Cardinality(rows) <= Cardinality(Taken)
    BY <2>1, FS_Subset DEF TenancyIInv, RowsBounded
  <2>3. Cardinality(rows) <= MaxRows
    BY <2>2, FS_CardinalityType, TenancyAssumption DEF TenancyIInv, RowsBounded
  <2> QED
    BY <2>3 DEF TenancyIInv, Typed, OneSession, ToldItsTenant, TenancyTypeOK
<1> QED
  BY <1>1, TenancyInvariance, PTL

(* Whoever used the connection before and however often the session began  *)
(* anew, a statement finds only rows its principal may see, and a          *)
(* candidate leaves nothing behind but resumes of his own                  *)
(* (db/session.py:1-16).                                                   *)
THEOREM TenantsAreApart == TenancySpec => []OnlyOwnRows
<1>1. TenancyIInv => OnlyOwnRows
  <2> SUFFICES ASSUME TenancyIInv, NEW r \in Requests, InTransaction(r)
               PROVE  /\ Visible(r) \cup session[r].added \subseteq Entitled(session[r].tenant)
                      /\ session[r].tenant.kind = "candidate" =>
                           \A row \in session[r].added : row.table = "resumes"
    BY DEF OnlyOwnRows
  <2>1. guc[session[r].conn] = session[r].tenant
    BY DEF TenancyIInv, ToldItsTenant, InTransaction
  <2>2. rows \cup session[r].added \subseteq Rows
    BY DEF TenancyIInv, Typed, Session
  <2>3. ASSUME NEW row \in Visible(r)
        PROVE  row \in Entitled(session[r].tenant)
    <3>1. row \in Rows /\ policy_for(row, session[r].tenant).using
      BY <2>1, <2>2 DEF Visible
    <3> QED
      BY <3>1, PolicyIs DEF Entitled, IsStaff, OwnedBy
  <2>4. ASSUME NEW row \in session[r].added
        PROVE  /\ row \in Entitled(session[r].tenant)
               /\ session[r].tenant.kind = "candidate" => row.table = "resumes"
    <3>1. row \in Rows /\ policy_for(row, session[r].tenant).check
      BY <2>2 DEF TenancyIInv, AddedChecked
    <3> QED
      BY <3>1, PolicyIs DEF Entitled, IsStaff, OwnedBy
  <2> QED
    BY <2>3, <2>4
<1> QED
  BY <1>1, TenancyInvariance, PTL

(* ... and it finds them all: a session that committed halfway is not left *)
(* without its organisation (db/session.py:10-15).                         *)
THEOREM TenantsAreWhole == TenancySpec => []OwnRowsFound
<1>1. TenancyIInv => OwnRowsFound
  <2> SUFFICES ASSUME TenancyIInv, NEW r \in Requests, InTransaction(r),
                      NEW row \in (rows \ session[r].removed) \cap Entitled(session[r].tenant),
                      IsStaff(session[r].tenant) \/ row.table \in Owned
               PROVE  row \in Visible(r)
    BY DEF OwnRowsFound
  <2>1. guc[session[r].conn] = session[r].tenant
    BY DEF TenancyIInv, ToldItsTenant, InTransaction
  <2>2. row \in Rows /\ row.org \in Orgs
    BY DEF Entitled, Rows
  <2>3. session[r].tenant \in Contexts \cup {NoContext}
    BY DEF TenancyIInv, Typed, Session
  <2>4. session[r].tenant.kind \in {"user", "system", "candidate"}
    BY <2>2, <2>3, TenancyAssumption DEF Contexts, NoContext, Entitled
  <2>5. policy_for(row, session[r].tenant).using
    BY <2>2, <2>4, PolicyIs DEF Entitled, IsStaff, OwnedBy
  <2> QED
    BY <2>1, <2>5 DEF Visible
<1> QED
  BY <1>1, TenancyInvariance, PTL

(* A client is told of a row only once any other connection can find it    *)
(* (api/routing.py:1-16).                                                  *)
THEOREM AnnouncedRowsAreThere == TenancySpec => []AnnouncedIsCommitted
<1>1. TenancyIInv => AnnouncedIsCommitted
  BY DEF TenancyIInv
<1> QED
  BY <1>1, TenancyInvariance, PTL
=============================================================================
