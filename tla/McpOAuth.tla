------------------------------- MODULE McpOAuth -------------------------------
(***************************************************************************)
(* The OAuth token store of the MCP endpoint (mcp/oauth.rs) with the       *)
(* handlers that drive it (mcp/http.rs) and the account handlers that cut  *)
(* a user off (api/mod.rs).                                                *)
(*                                                                         *)
(* The state lives in memory under one lock; clients and grants are also   *)
(* written to a file.  Every change of those two is made on a copy, the    *)
(* copy is written, and only then made live (commit); a write may fail.    *)
(* Expired entries are dropped from memory without a write (prune).  A     *)
(* token request holds the lock twice and reads the account files in       *)
(* between, so other requests, revocations and restarts fall in the gap.   *)
(*                                                                         *)
(* Random secrets are fresh names, and one that was never written nor      *)
(* answered may be drawn again.  A refresh token is a number; anybody      *)
(* may present any token ever minted, at any time, which covers answers    *)
(* that were lost, late or repeated.  An access token is told from another *)
(* one of its grant by its expiry only.  A code carries the name of the    *)
(* authorization request it was minted for, so a request approved twice    *)
(* would bring its code back to life.  Scopes, redirect addresses and PKCE *)
(* decide only whether a request is refused, and so do the pool limits     *)
(* other than MAX_CLIENTS: Refuse stands for them.                         *)
(***************************************************************************)
EXTENDS Naturals, Sequences, FiniteSets, Functions

CONSTANTS
  Clients, Auths, Grants, \* names of clients, authorization requests, grants
  Users,
  Reqs,                   \* requests being served at once
  MaxClients,             \* MAX_CLIENTS
  Keep,                   \* RETIRED_REFRESH_KEEP
  CodeTtl, UsedMemory, AccessTtl, RefreshTtl, GrantMax, Grace, PendingTtl, ClientTtl,
  MaxTokens,              \* bound: refresh tokens minted
  MaxNames,               \* bound: clients, requests and grants named
  MaxFp,                  \* bound: versions of a user's credentials
  MaxClock,               \* bound: clock
  NoGrant

ASSUME NamesAssumption == NoGrant \notin Grants
ASSUME BoundsAssumption == MaxClients \in Nat \ {0} /\ Keep \in Nat \ {0}
ASSUME TimesAssumption ==
  /\ CodeTtl \in Nat /\ UsedMemory \in Nat /\ AccessTtl \in Nat /\ RefreshTtl \in Nat
  /\ GrantMax \in Nat /\ Grace \in Nat /\ PendingTtl \in Nat /\ ClientTtl \in Nat

VARIABLES
  mem,      \* Inner: clients, grants, the two indexes, codes, used codes, access, pending
  disk,     \* Persisted: clients and grants
  unread,   \* the last load could not read the file, and nothing was written since
  req,      \* req[q]: what request q carries from one lock to the next
  account,  \* account[u]: version of u's credentials, 0 when u does not resolve
  cutOff,   \* users whose account was changed and revoke_user not yet called
  now,      \* clock
  minted,   \* refresh tokens handed out so far
  issued,   \* names already given away (random, never given twice)
  origin    \* history: the authorization request each grant was opened for

vars == <<mem, disk, unread, req, account, cutOff, now, minted, issued, origin>>

ClientRec == [approved : BOOLEAN, created : Nat]
GrantRec == [client : Clients, user : Users, fp : Nat, cur : Nat, retired : Seq(Nat),
             rotated : Nat, created : Nat, expires : Nat]

CodeRec == [client : Clients, user : Users, expires : Nat]
PendingRec == [client : Clients, created : Nat]

Empty == [x \in {} |-> x]

EmptyInner ==
  [clients |-> Empty, grants |-> Empty, refreshIndex |-> {}, retiredIndex |-> {},
   codes |-> Empty, usedCodes |-> {}, access |-> {}, pending |-> Empty]

Idle == [phase |-> "idle"]

Init ==
  /\ mem = EmptyInner
  /\ disk = [clients |-> Empty, grants |-> Empty]
  /\ unread = FALSE
  /\ req = [q \in Reqs |-> Idle]
  /\ account = [u \in Users |-> 1]
  /\ cutOff = {}
  /\ now = 0
  /\ minted = 0
  /\ issued = {}
  /\ origin = Empty

-----------------------------------------------------------------------------
(* Inner: functions of the state, as the code applies them to a copy.      *)

With(f, x, v) == [y \in DOMAIN f \cup {x} |-> IF y = x THEN v ELSE f[y]]
Without(f, S) == Restrict(f, DOMAIN f \ S)

RefreshIndex(grants) == {<<grants[g].cur, g>> : g \in DOMAIN grants}
RetiredIndex(grants) ==
  UNION {{<<t, g>> : t \in Range(grants[g].retired)} : g \in DOMAIN grants}

(* Mutant: the retired tokens of a removed grant stay in their index.      *)
RemoveGrantsKeepsRetired(d, S) ==
  LET gone == S \cap DOMAIN d.grants
  IN [d EXCEPT !.grants = Without(@, S),
               !.refreshIndex = {e \in @ : \A g \in gone : e[1] # d.grants[g].cur},
               !.access = {a \in @ : a.grant \notin gone}]

(* remove_grant, for every grant of S there is.                            *)
RemoveGrants(d, S) ==
  LET gone == S \cap DOMAIN d.grants
  IN [d EXCEPT !.grants = Without(@, S),
               !.refreshIndex = {e \in @ : \A g \in gone : e[1] # d.grants[g].cur},
               !.retiredIndex = {e \in @ : \A g \in gone : e[1] \notin Range(d.grants[g].retired)},
               !.access = {a \in @ : a.grant \notin gone}]

Lapsed(d, t) == {g \in DOMAIN d.grants : d.grants[g].expires <= t}

Unused(d) == {c \in DOMAIN d.clients :
                ~d.clients[c].approved /\ \A g \in DOMAIN d.grants : d.grants[g].client # c}

(* The expired codes, approvals, tokens, grants and unapproved clients go, *)
(* in memory only.                                                         *)
Prune(d, t) ==
  LET e == RemoveGrants([d EXCEPT !.access = {a \in @ : a.expires > t}], Lapsed(d, t))
  IN [e EXCEPT !.codes = Without(@, {a \in DOMAIN @ : @[a].expires <= t}),
               !.usedCodes = {u \in @ : u.until > t},
               !.pending = Without(@, {a \in DOMAIN @ : @[a].created + PendingTtl <= t}),
               !.clients = Without(@, {c \in Unused(e) : @[c].created + ClientTtl <= t})]

(* Two access tokens of a grant that expire together act alike.            *)
IssueAccess(d, g, grant, t) ==
  [d EXCEPT !.access = @ \cup {[grant |-> g, fp |-> grant.fp, user |-> grant.user,
                                expires |-> t + AccessTtl]}]

(* evict_unapproved_client: the oldest of the unused; ties are broken by   *)
(* the order of a HashMap.                                                 *)
Evictable(d) == {c \in Unused(d) : \A e \in Unused(d) : d.clients[c].created <= d.clients[e].created}

Snapshot(d) == [clients |-> d.clients, grants |-> d.grants]

(* Mutant: the copy is made live before it is written.                     *)
CommitLiveFirst(live, draft, ok) ==
  /\ mem' = draft
  /\ disk' = IF ok THEN Snapshot(draft) ELSE disk
  /\ unread' = IF ok THEN FALSE ELSE unread

(* commit: `draft' is written and made live, or the write fails and `live' *)
(* stays.                                                                  *)
Commit(live, draft, ok) ==
  /\ mem' = IF ok THEN draft ELSE live
  /\ disk' = IF ok THEN Snapshot(draft) ELSE disk
  /\ unread' = IF ok THEN FALSE ELSE unread

Pruned == Prune(mem, now)

Fresh(x) == x \notin issued /\ Cardinality(issued) < MaxNames

-----------------------------------------------------------------------------
(* Registration and consent.                                               *)

RegisterClient(c, ok) ==
  /\ Fresh(c)
  /\ LET p == Pruned
         client == [approved |-> FALSE, created |-> now]
     IN \/ /\ Cardinality(DOMAIN p.clients) < MaxClients
           /\ Commit(p, [p EXCEPT !.clients = With(@, c, client)], ok)
        \/ /\ Cardinality(DOMAIN p.clients) >= MaxClients
           /\ \E v \in Evictable(p) :
                Commit(p, [p EXCEPT !.clients = With(Without(@, {v}), c, client)], ok)
  /\ issued' = IF ok THEN issued \cup {c} ELSE issued
  /\ UNCHANGED <<req, account, cutOff, now, minted, origin>>

(* An id that is not registered is removed all the same: a write of what   *)
(* is in memory.                                                           *)
DeleteClient(c, ok) ==
  /\ Commit(mem,
            RemoveGrants([mem EXCEPT !.clients = Without(@, {c})],
                         {g \in DOMAIN mem.grants : mem.grants[g].client = c}),
            ok)
  /\ UNCHANGED <<req, account, cutOff, now, minted, issued, origin>>

BeginPending(a, c) ==
  /\ Fresh(a)
  /\ c \in DOMAIN mem.clients
  /\ mem' = [Pruned EXCEPT !.pending = With(@, a, [client |-> c, created |-> now])]
  /\ issued' = issued \cup {a}
  /\ UNCHANGED <<disk, unread, req, account, cutOff, now, minted, origin>>

(* The form is posted: peek_pending, then the password is verified and the *)
(* account read, outside the lock.                                         *)
ConsentPosted(q, a, u) ==
  /\ req[q] = Idle
  /\ a \in DOMAIN Pruned.pending
  /\ account[u] # 0
  /\ mem' = Pruned
  /\ req' = [req EXCEPT ![q] = [phase |-> "consent", auth |-> a, user |-> u]]
  /\ UNCHANGED <<disk, unread, account, cutOff, now, minted, issued, origin>>

(* Mutant: the approval is looked at and not consumed.                     *)
ConsentTakenAgain(q) ==
  /\ req[q].phase = "consent"
  /\ LET a == req[q].auth
         p == Pruned
     IN /\ mem' = p
        /\ req' = [req EXCEPT ![q] =
                     IF a \in DOMAIN p.pending
                     THEN [phase |-> "approved", auth |-> a, user |-> req[q].user,
                           client |-> p.pending[a].client]
                     ELSE Idle]
  /\ UNCHANGED <<disk, unread, account, cutOff, now, minted, issued, origin>>

(* take_pending: the approval is consumed; a double submit finds nothing.  *)
ConsentTaken(q) ==
  /\ req[q].phase = "consent"
  /\ LET a == req[q].auth
         p == Pruned
     IN /\ mem' = [p EXCEPT !.pending = Without(@, {a})]
        /\ req' = [req EXCEPT ![q] =
                     IF a \in DOMAIN p.pending
                     THEN [phase |-> "approved", auth |-> a, user |-> req[q].user,
                           client |-> p.pending[a].client]
                     ELSE Idle]
  /\ UNCHANGED <<disk, unread, account, cutOff, now, minted, issued, origin>>


(* Denied, or the account may not approve: the approval is consumed too.   *)
ConsentDenied(a) ==
  /\ a \in DOMAIN mem.pending
  /\ mem' = [Pruned EXCEPT !.pending = Without(@, {a})]
  /\ UNCHANGED <<disk, unread, req, account, cutOff, now, minted, issued, origin>>

IssueCode(q, ok) ==
  /\ req[q].phase = "approved"
  /\ LET r == req[q]
         code == [client |-> r.client, user |-> r.user, expires |-> now + CodeTtl]
     IN Commit(Pruned,
               [Pruned EXCEPT
                  !.clients = IF r.client \in DOMAIN @ THEN [@ EXCEPT ![r.client].approved = TRUE] ELSE @,
                  !.codes = With(@, r.auth, code)],
               ok)
  /\ req' = [req EXCEPT ![q] = Idle]
  /\ UNCHANGED <<account, cutOff, now, minted, issued, origin>>

-----------------------------------------------------------------------------
(* The token endpoint.  It asks whether the client is registered before it *)
(* calls the store.                                                        *)

(* exchange_code, first lock: the code is consumed, whatever comes of it.  *)
ExchangeLookup(q, a, c) ==
  /\ req[q] = Idle
  /\ c \in DOMAIN mem.clients
  /\ LET p == Pruned
     IN /\ a \in DOMAIN p.codes
        /\ mem' = [p EXCEPT !.codes = Without(@, {a})]
        /\ req' = [req EXCEPT ![q] =
                     IF p.codes[a].client = c
                     THEN [phase |-> "exchange", auth |-> a, client |-> c,
                           user |-> p.codes[a].user, at |-> now, seen |-> 0]
                     ELSE Idle]
  /\ UNCHANGED <<disk, unread, account, cutOff, now, minted, issued, origin>>

(* A used code again: the grant it produced is revoked.                    *)
ExchangeReplay(a, ok) ==
  /\ DOMAIN mem.clients # {}
  /\ LET p == Pruned
     IN /\ a \notin DOMAIN p.codes
        /\ \E u \in p.usedCodes :
             /\ u.code = a
             /\ Commit(p, RemoveGrants(p, {u.grant}), ok)
  /\ UNCHANGED <<req, account, cutOff, now, minted, issued, origin>>

(* Third phase: the grant is created under the credentials just read.      *)
ExchangeCreate(q, g, ok) ==
  /\ req[q].phase = "create"
  /\ req[q].client \in DOMAIN mem.clients
  /\ Fresh(g)
  /\ minted < MaxTokens
  /\ LET r == req[q]
         grant == [client |-> r.client, user |-> r.user, fp |-> r.seen, cur |-> minted + 1,
                   retired |-> << >>, rotated |-> r.at, created |-> r.at,
                   expires |-> r.at + RefreshTtl]
         d == IssueAccess(mem, g, grant, r.at)
     IN /\ Commit(mem,
                  [d EXCEPT !.refreshIndex = @ \cup {<<grant.cur, g>>},
                            !.usedCodes = @ \cup {[code |-> r.auth, grant |-> g, until |-> r.at + UsedMemory]},
                            !.grants = With(@, g, grant)],
                  ok)
        /\ origin' = IF ok THEN With(origin, g, r.auth) ELSE origin
  /\ req' = [req EXCEPT ![q] = Idle]
  /\ minted' = IF ok THEN minted + 1 ELSE minted
  /\ issued' = IF ok THEN issued \cup {g} ELSE issued
  /\ UNCHANGED <<account, cutOff, now>>

(* The grants a presented refresh token finds in an index.                 *)
Found(index, tok) == {e[2] : e \in {e \in index : e[1] = tok}}

(* The token rotated away last, and seconds ago: the client retries a      *)
(* refresh whose answer it lost.                                           *)
IsRetry(grant, tok) ==
  /\ grant.retired # << >> /\ grant.retired[Len(grant.retired)] = tok
  /\ now <= grant.rotated + Grace

(* refresh, first lock: the grant is found by its current token, or by its *)
(* last one in a retry, and a copy of it is taken along.                   *)
RefreshLookup(q, tok, c) ==
  /\ req[q] = Idle
  /\ c \in DOMAIN mem.clients
  /\ LET p == Pruned
     IN /\ \E g \in DOMAIN p.grants :
             LET grant == p.grants[g]
             IN /\ \/ g \in Found(p.retiredIndex, tok) /\ IsRetry(grant, tok)
                   \/ Found(p.retiredIndex, tok) = {} /\ g \in Found(p.refreshIndex, tok)
                /\ req' = [req EXCEPT ![q] =
                             IF grant.client = c
                             THEN [phase |-> "refresh", grant |-> g, cur |-> grant.cur,
                                   fp |-> grant.fp, user |-> grant.user, at |-> now, seen |-> 0]
                             ELSE Idle]
        /\ mem' = p
  /\ UNCHANGED <<disk, unread, account, cutOff, now, minted, issued, origin>>

(* Mutant: the revocation is made in memory and not written.               *)
RefreshReplayUnwritten(tok, ok) ==
  /\ DOMAIN mem.clients # {}
  /\ LET p == Pruned
     IN \E g \in Found(p.retiredIndex, tok) :
          /\ ~(g \in DOMAIN p.grants /\ IsRetry(p.grants[g], tok))
          /\ mem' = RemoveGrants(p, {g})
  /\ UNCHANGED <<disk, unread, req, account, cutOff, now, minted, issued, origin>>

(* An older retired token is taken for a stolen one: the grant is revoked. *)
RefreshReplay(tok, ok) ==
  /\ DOMAIN mem.clients # {}
  /\ LET p == Pruned
     IN \E g \in Found(p.retiredIndex, tok) :
          /\ ~(g \in DOMAIN p.grants /\ IsRetry(p.grants[g], tok))
          /\ Commit(p, RemoveGrants(p, {g}), ok)
  /\ UNCHANGED <<req, account, cutOff, now, minted, issued, origin>>

(* Mutant: retired tokens are never forgotten.                             *)
DrainNothing(s) == s

(* Third phase: rotate, if the token seen in the first one is still the    *)
(* current one.                                                            *)
Drain(s) == IF Len(s) > Keep THEN SubSeq(s, Len(s) - Keep + 1, Len(s)) ELSE s

Rotation(d, g, tok, t) ==
  LET old == d.grants[g]
      new == [old EXCEPT !.retired = Drain(Append(@, old.cur)), !.cur = tok, !.rotated = t,
                         !.expires = IF t + RefreshTtl < old.created + GrantMax
                                     THEN t + RefreshTtl ELSE old.created + GrantMax]
      grants == With(d.grants, g, new)
  IN IssueAccess([d EXCEPT !.grants = grants, !.refreshIndex = RefreshIndex(grants),
                           !.retiredIndex = RetiredIndex(grants)],
                 g, new, t)

RefreshRotate(q, ok) ==
  /\ req[q].phase = "rotate"
  /\ LET r == req[q]
     IN /\ <<r.cur, r.grant>> \in mem.refreshIndex
        /\ r.seen = r.fp
        /\ r.grant \in DOMAIN mem.grants
        /\ minted < MaxTokens
        /\ Commit(mem, Rotation(mem, r.grant, minted + 1, r.at), ok)
  /\ req' = [req EXCEPT ![q] = Idle]
  /\ minted' = IF ok THEN minted + 1 ELSE minted
  /\ UNCHANGED <<account, cutOff, now, issued, origin>>

(* The credentials have changed since the approval: the grant is revoked.  *)
RefreshStale(q, ok) ==
  /\ req[q].phase = "rotate"
  /\ LET r == req[q]
     IN /\ <<r.cur, r.grant>> \in mem.refreshIndex
        /\ r.seen # r.fp
        /\ Commit(mem, RemoveGrants(mem, {r.grant}), ok)
  /\ req' = [req EXCEPT ![q] = Idle]
  /\ UNCHANGED <<account, cutOff, now, minted, issued, origin>>

-----------------------------------------------------------------------------
(* The MCP endpoint: authenticate.                                         *)

(* validate_access: an expired token is dropped, one whose grant is there  *)
(* is accepted and the account looked up.                                  *)
UseLookup(q, a) ==
  /\ req[q] = Idle
  /\ IF a.expires <= now
     THEN /\ mem' = [mem EXCEPT !.access = @ \ {a}]
          /\ UNCHANGED req
     ELSE /\ a.grant \in DOMAIN mem.grants
          /\ req' = [req EXCEPT ![q] = [phase |-> "use", grant |-> a.grant, fp |-> a.fp,
                                        user |-> a.user, seen |-> 0]]
          /\ UNCHANGED mem
  /\ UNCHANGED <<disk, unread, account, cutOff, now, minted, issued, origin>>

(* The call goes on to the tools.                                          *)
UseServed(q) ==
  /\ req[q].phase = "decide"
  /\ req[q].seen = req[q].fp
  /\ req' = [req EXCEPT ![q] = Idle]
  /\ UNCHANGED <<mem, disk, unread, account, cutOff, now, minted, issued, origin>>

(* The credentials have changed since the approval: revoke_grant.          *)
UseStale(q, ok) ==
  /\ req[q].phase = "decide"
  /\ req[q].seen # req[q].fp
  /\ IF req[q].grant \in DOMAIN mem.grants
     THEN Commit(mem, RemoveGrants(mem, {req[q].grant}), ok)
     ELSE UNCHANGED <<mem, disk, unread>>
  /\ req' = [req EXCEPT ![q] = Idle]
  /\ UNCHANGED <<account, cutOff, now, minted, issued, origin>>

-----------------------------------------------------------------------------
(* Between the locks.                                                      *)

Awaits == [exchange |-> "create", refresh |-> "rotate", use |-> "decide"]

(* user_authority: the account as the files tell it now; 0 when it is not  *)
(* there or the files cannot be read just now, which ends the request and  *)
(* revokes nothing.                                                        *)
Authority(q, seen) ==
  /\ req[q].phase \in DOMAIN Awaits
  /\ seen \in {account[req[q].user], 0}
  /\ req' = [req EXCEPT ![q] =
               IF seen = 0 THEN Idle
               ELSE [req[q] EXCEPT !.phase = Awaits[@], !.seen = seen]]
  /\ UNCHANGED <<mem, disk, unread, account, cutOff, now, minted, issued, origin>>

(* Any check that ends a request and changes nothing: the password was     *)
(* wrong, the token was rotated meanwhile, the client is gone, no scope is *)
(* left, a pool is full.                                                   *)
Refuse(q) ==
  /\ req[q].phase \in {"consent", "create", "rotate"}
  /\ req' = [req EXCEPT ![q] = Idle]
  /\ UNCHANGED <<mem, disk, unread, account, cutOff, now, minted, issued, origin>>

-----------------------------------------------------------------------------
(* Revocation, accounts, time and restarts.                                *)

RevokeToken(g, ok) ==
  /\ \/ \E a \in mem.access : a.grant = g
     \/ \E e \in mem.refreshIndex : e[2] = g
  /\ Commit(mem, RemoveGrants(mem, {g}), ok)
  /\ UNCHANGED <<req, account, cutOff, now, minted, issued, origin>>

RevokeGrant(g, ok) ==
  /\ g \in DOMAIN mem.grants
  /\ Commit(mem, RemoveGrants(mem, {g}), ok)
  /\ UNCHANGED <<req, account, cutOff, now, minted, issued, origin>>

(* The public URL was changed.                                             *)
RevokeAll(ok) ==
  /\ DOMAIN mem.grants # {}
  /\ Commit(mem, RemoveGrants(mem, DOMAIN mem.grants), ok)
  /\ UNCHANGED <<req, account, cutOff, now, minted, issued, origin>>

(* delete_user, or a new password: the account is saved ...                *)
ChangeAccount(u, fp) ==
  /\ u \notin cutOff
  /\ fp \in {0, account[u] + 1} \cap 0 .. MaxFp
  /\ account[u] # 0
  /\ account' = [account EXCEPT ![u] = fp]
  /\ cutOff' = cutOff \cup {u}
  /\ UNCHANGED <<mem, disk, unread, req, now, minted, issued, origin>>

(* ... and then revoke_user is called, once: a failed write is logged.     *)
RevokeUser(u, ok) ==
  /\ u \in cutOff
  /\ cutOff' = cutOff \ {u}
  /\ LET S == {g \in DOMAIN mem.grants : mem.grants[g].user = u}
     IN IF S = {} THEN UNCHANGED <<mem, disk, unread>>
        ELSE Commit(mem, RemoveGrants(mem, S), ok)
  /\ UNCHANGED <<req, account, now, minted, issued, origin>>

(* list_grants and list_clients.                                           *)
List ==
  /\ mem' = Pruned
  /\ UNCHANGED <<disk, unread, req, account, cutOff, now, minted, issued, origin>>

(* The service stops at any point and starts again: load.                  *)
Load(file) ==
  [EmptyInner EXCEPT !.clients = file.clients, !.grants = file.grants,
                     !.refreshIndex = RefreshIndex(file.grants),
                     !.retiredIndex = RetiredIndex(file.grants)]

(* A file that does not parse is moved aside; where that fails it loads as *)
(* empty every time, until it is overwritten.  One that cannot be read     *)
(* stays where it is, beside an empty memory: the next start may read it.  *)
Restart(load) ==
  /\ disk' = IF load = "corrupt" THEN [clients |-> Empty, grants |-> Empty] ELSE disk
  /\ unread' = (load = "unread")
  /\ mem' = IF load = "unread" THEN EmptyInner ELSE Load(disk')
  /\ req' = [q \in Reqs |-> Idle]
  /\ cutOff' = {}
  /\ UNCHANGED <<account, now, minted, issued, origin>>

Tick ==
  /\ now < MaxClock
  /\ now' = now + 1
  /\ UNCHANGED <<mem, disk, unread, req, account, cutOff, minted, issued, origin>>

-----------------------------------------------------------------------------
ConsentStep(q, ok) ==
  \/ \E a \in Auths, u \in Users : ConsentPosted(q, a, u)
  \/ ConsentTaken(q)
  \/ IssueCode(q, ok)

TokenStep(q, ok) ==
  \/ \E a \in Auths, c \in Clients : ExchangeLookup(q, a, c)
  \/ \E g \in Grants : ExchangeCreate(q, g, ok)
  \/ \E tok \in 1 .. minted, c \in Clients : RefreshLookup(q, tok, c)
  \/ RefreshRotate(q, ok)
  \/ RefreshStale(q, ok)
  \/ \E seen \in 0 .. MaxFp : Authority(q, seen)
  \/ Refuse(q)

UseStep(q, ok) ==
  \/ \E a \in mem.access : UseLookup(q, a)
  \/ UseServed(q)
  \/ UseStale(q, ok)

StoreStep(ok) ==
  \/ \E c \in Clients : RegisterClient(c, ok) \/ DeleteClient(c, ok)
  \/ \E a \in Auths, c \in Clients : BeginPending(a, c)
  \/ \E a \in Auths : ConsentDenied(a) \/ ExchangeReplay(a, ok)
  \/ \E tok \in 1 .. minted : RefreshReplay(tok, ok)
  \/ \E g \in Grants : RevokeToken(g, ok) \/ RevokeGrant(g, ok)
  \/ RevokeAll(ok)
  \/ \E u \in Users : RevokeUser(u, ok)
  \/ List

World ==
  \/ \E u \in Users, fp \in 0 .. MaxFp : ChangeAccount(u, fp)
  \/ \E load \in {"read", "corrupt", "unread"} : Restart(load)
  \/ Tick

Next ==
  \/ \E q \in Reqs, ok \in BOOLEAN : ConsentStep(q, ok) \/ TokenStep(q, ok) \/ UseStep(q, ok)
  \/ \E ok \in BOOLEAN : StoreStep(ok)
  \/ World

Spec == Init /\ [][Next]_vars

-----------------------------------------------------------------------------
Requests ==
  {Idle}
  \cup [phase : {"consent"}, auth : Auths, user : Users]
  \cup [phase : {"approved"}, auth : Auths, user : Users, client : Clients]
  \cup [phase : {"exchange", "create"}, auth : Auths, client : Clients, user : Users,
        at : Nat, seen : Nat]
  \cup [phase : {"refresh", "rotate"}, grant : Grants, cur : Nat, fp : Nat, user : Users,
        at : Nat, seen : Nat]
  \cup [phase : {"use", "decide"}, grant : Grants, fp : Nat, user : Users, seen : Nat]

(* A HashMap with keys in S and values in T.                               *)
IsMap(f, S, T) == DOMAIN f \subseteq S /\ f \in [DOMAIN f -> T]

IsInner(d) ==
  /\ d = [clients |-> d.clients, grants |-> d.grants, refreshIndex |-> d.refreshIndex,
          retiredIndex |-> d.retiredIndex, codes |-> d.codes, usedCodes |-> d.usedCodes,
          access |-> d.access, pending |-> d.pending]
  /\ IsMap(d.clients, Clients, ClientRec)
  /\ IsMap(d.grants, Grants, GrantRec)
  /\ d.refreshIndex \subseteq Nat \X Grants
  /\ d.retiredIndex \subseteq Nat \X Grants
  /\ IsMap(d.codes, Auths, CodeRec)
  /\ d.usedCodes \subseteq [code : Auths, grant : Grants, until : Nat]
  /\ d.access \subseteq [grant : Grants, fp : Nat, user : Users, expires : Nat]
  /\ IsMap(d.pending, Auths, PendingRec)

IsFile(f) ==
  /\ f = [clients |-> f.clients, grants |-> f.grants]
  /\ IsMap(f.clients, Clients, ClientRec)
  /\ IsMap(f.grants, Grants, GrantRec)

(* The types of the state; no grant remembers more retired tokens than     *)
(* RETIRED_REFRESH_KEEP.                                                   *)
TypeOK ==
  /\ IsInner(mem)
  /\ IsFile(disk)
  /\ \A g \in DOMAIN mem.grants : Len(mem.grants[g].retired) <= Keep
  /\ unread \in BOOLEAN
  /\ req \in [Reqs -> Requests]
  /\ account \in [Users -> Nat]
  /\ cutOff \subseteq Users
  /\ now \in Nat
  /\ minted \in Nat
  /\ issued \subseteq Clients \cup Auths \cup Grants
  /\ IsMap(origin, Grants, Auths)

Indexed(d) ==
  /\ d.refreshIndex = RefreshIndex(d.grants)
  /\ d.retiredIndex = RetiredIndex(d.grants)
  /\ \A a \in d.access : a.grant \in DOMAIN d.grants /\ a.fp = d.grants[a.grant].fp

(* No token belongs to two grants, or to one both as current and retired.  *)
TokensApart(grants) ==
  \A g, h \in DOMAIN grants :
    /\ grants[g].cur = grants[h].cur => g = h
    /\ Range(grants[g].retired) \cap Range(grants[h].retired) # {} => g = h
    /\ grants[g].cur \notin Range(grants[h].retired)

(* The indexes a token is looked up in are kept by hand, in four places    *)
(* (remove_grant, exchange_code, rebuild_indexes twice).  After any        *)
(* sequence of rotations, revocations, expiries and restarts they hold     *)
(* exactly the tokens of the live grants, the access tokens belong to live *)
(* grants, and no token finds two of them.                                 *)
IndexesAgree == Indexed(mem) /\ TokensApart(mem.grants)

Agrees(f, g) == \A x \in DOMAIN f : x \in DOMAIN g /\ g[x] = f[x]

(* Everything in d is in the file as it is in d; what the file has beyond  *)
(* that is out of date at t, unless it is a file nobody could read.        *)
Backed(d, file, t, blind) ==
  /\ Agrees(d.grants, file.grants)
  /\ Agrees(d.clients, file.clients)
  /\ ~blind =>
       /\ \A g \in DOMAIN file.grants \ DOMAIN d.grants : file.grants[g].expires <= t
       /\ \A c \in DOMAIN file.clients \ DOMAIN d.clients :
            ~file.clients[c].approved /\ file.clients[c].created + ClientTtl <= t

(* A restart changes nothing that matters: every live grant and client is  *)
(* in the file exactly as it is in memory, and what the file has beyond    *)
(* that is a grant that has expired or a client nobody approved in time.   *)
(* ("a failed write can never leave a revocation that the next restart     *)
(* silently undoes", mcp/oauth.rs:25.)  The exception is a load that could *)
(* not read the file (mcp/oauth.rs:516): until the next write the file     *)
(* holds grants that memory lacks, and another restart brings them back.   *)
RestartIsInvisible == Backed(mem, disk, now, unread)

(* One approval opens at most one grant, whatever is submitted twice,      *)
(* exchanged at the same time, fails to be written or is lost in a restart.*)
OneGrantPerApproval ==
  \A g, h \in DOMAIN origin : origin[g] = origin[h] => g = h

(* "presenting a retired one is treated as theft and revokes the whole     *)
(* grant (except within a few seconds of its rotation, which is an honest  *)
(* client retrying a request whose answer it lost)" (mcp/oauth.rs:20-22):  *)
(* while a grant is younger than the grace so are all its rotations, and   *)
(* each of its retired tokens is answered as a retry.                      *)
EarlyRetryIsHonest ==
  \A g \in DOMAIN mem.grants : now <= mem.grants[g].created + Grace =>
    \A tok \in Range(mem.grants[g].retired) : IsRetry(mem.grants[g], tok)

-----------------------------------------------------------------------------
(* The store seen as a ledger.  What counts is the file.                   *)
StateOf(g) ==
  IF g \in DOMAIN disk.grants THEN "live" ELSE IF g \in DOMAIN origin THEN "ended" ELSE "none"
TokenOf(g) == IF g \in DOMAIN disk.grants THEN disk.grants[g].cur ELSE 0
AdmittedOf(q) == IF req[q].phase \in {"use", "decide"} THEN req[q].grant ELSE NoGrant

Ledger == INSTANCE GrantLedger WITH
  state <- [g \in Grants |-> StateOf(g)],
  token <- [g \in Grants |-> TokenOf(g)],
  admitted <- [q \in Reqs |-> AdmittedOf(q)]

(* The store implements the ledger: memory, file, write failures, crashes  *)
(* and the gap between the two locks of a token request are not to be seen *)
(* from outside.  Once a grant has left the file it is never renewed and   *)
(* never opened again, by no token request that was under way and by no    *)
(* restart; a renewal is by a newer token; and no request is admitted on   *)
(* it.  A call admitted before (authenticate, mcp/http.rs:216) may still   *)
(* come to its end: the code looks at the grant once.                      *)
ImplementsLedger == Ledger!Spec
=============================================================================
