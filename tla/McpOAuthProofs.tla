---------------------------- MODULE McpOAuthProofs ----------------------------
(***************************************************************************)
(* Proofs about McpOAuth, for every set of clients, users, requests and    *)
(* grants, every lifetime and every bound.                                 *)
(*                                                                         *)
(* First the functions on the state (remove_grant, prune, the rotation,    *)
(* load), then the steps: each changes memory by one of them and leaves    *)
(* the file alone or writes the new memory to it.                          *)
(***************************************************************************)
EXTENDS McpOAuth, SequenceTheorems, TLAPS

LEMMA WithIsMap ==
  ASSUME NEW S, NEW T, NEW f, IsMap(f, S, T), NEW x \in S, NEW v \in T
  PROVE  /\ IsMap(With(f, x, v), S, T)
         /\ DOMAIN With(f, x, v) = DOMAIN f \cup {x}
         /\ With(f, x, v)[x] = v
         /\ \A y \in DOMAIN f \ {x} : With(f, x, v)[y] = f[y]
  BY DEF IsMap, With

LEMMA WithoutIsMap ==
  ASSUME NEW S, NEW T, NEW f, IsMap(f, S, T), NEW X
  PROVE  /\ IsMap(Without(f, X), S, T)
         /\ DOMAIN Without(f, X) = DOMAIN f \ X
         /\ \A y \in DOMAIN f \ X : Without(f, X)[y] = f[y]
  BY DEF IsMap, Without, Restrict

LEMMA WithoutFacts ==
  ASSUME NEW f, NEW X
  PROVE  /\ DOMAIN Without(f, X) = DOMAIN f \ X
         /\ \A y \in DOMAIN f \ X : Without(f, X)[y] = f[y]
         /\ Agrees(Without(f, X), f)
  BY DEF Without, Restrict, Agrees

LEMMA EmptyIsMap ==
  ASSUME NEW S, NEW T
  PROVE  IsMap(Empty, S, T) /\ DOMAIN Empty = {}
  BY DEF IsMap, Empty

-----------------------------------------------------------------------------
(* remove_grant and prune.                                                 *)

LEMMA RemoveFields ==
  ASSUME NEW d, IsInner(d), NEW S
  PROVE  /\ RemoveGrants(d, S).clients = d.clients
         /\ RemoveGrants(d, S).grants = Without(d.grants, S)
         /\ RemoveGrants(d, S).refreshIndex =
              {e \in d.refreshIndex : \A g \in S \cap DOMAIN d.grants : e[1] # d.grants[g].cur}
         /\ RemoveGrants(d, S).retiredIndex =
              {e \in d.retiredIndex :
                 \A g \in S \cap DOMAIN d.grants : e[1] \notin Range(d.grants[g].retired)}
         /\ RemoveGrants(d, S).codes = d.codes
         /\ RemoveGrants(d, S).usedCodes = d.usedCodes
         /\ RemoveGrants(d, S).access = {a \in d.access : a.grant \notin S \cap DOMAIN d.grants}
         /\ RemoveGrants(d, S).pending = d.pending
         /\ IsInner(RemoveGrants(d, S))
<1> DEFINE r == RemoveGrants(d, S)
           x1 == Without(d.grants, S)
           x2 == {e \in d.refreshIndex : \A g \in S \cap DOMAIN d.grants : e[1] # d.grants[g].cur}
           x3 == {e \in d.retiredIndex :
                    \A g \in S \cap DOMAIN d.grants : e[1] \notin Range(d.grants[g].retired)}
           x4 == {a \in d.access : a.grant \notin S \cap DOMAIN d.grants}
<1>1. r = [d EXCEPT !.grants = x1, !.refreshIndex = x2, !.retiredIndex = x3, !.access = x4]
  BY DEF RemoveGrants
<1>2. IsMap(x1, Grants, GrantRec)
  BY WithoutIsMap DEF IsInner
<1> HIDE DEF x1
<1>3. x2 \subseteq Nat \X Grants /\ x3 \subseteq Nat \X Grants
  BY DEF IsInner
<1>4. x4 \subseteq [grant : Grants, fp : Nat, user : Users, expires : Nat]
  BY DEF IsInner
<1> HIDE DEF r, x2, x3, x4
<1>5. r = [clients |-> d.clients, grants |-> x1, refreshIndex |-> x2, retiredIndex |-> x3,
           codes |-> d.codes, usedCodes |-> d.usedCodes, access |-> x4, pending |-> d.pending]
  BY <1>1 DEF IsInner
<1>6. IsInner(r)
  BY <1>2, <1>3, <1>4, <1>5 DEF IsInner
<1> QED BY <1>5, <1>6 DEF r, x1, x2, x3, x4

LEMMA RemoveIndexed ==
  ASSUME NEW d, IsInner(d), Indexed(d), TokensApart(d.grants), NEW S
  PROVE  Indexed(RemoveGrants(d, S)) /\ TokensApart(RemoveGrants(d, S).grants)
<1> DEFINE r == RemoveGrants(d, S)
<1>1. /\ r.grants = Without(d.grants, S)
      /\ DOMAIN r.grants = DOMAIN d.grants \ S
      /\ \A g \in DOMAIN d.grants \ S : r.grants[g] = d.grants[g]
  <2>1. r.grants = Without(d.grants, S)
    BY RemoveFields
  <2> HIDE DEF r
  <2> QED BY <2>1 DEF Without, Restrict
<1>2. TokensApart(r.grants)
  BY <1>1 DEF TokensApart
<1>3. r.refreshIndex = RefreshIndex(r.grants)
  <2>1. r.refreshIndex = {e \in RefreshIndex(d.grants) :
                            \A g \in S \cap DOMAIN d.grants : e[1] # d.grants[g].cur}
    BY RemoveFields DEF Indexed
  <2>2. ASSUME NEW e \in r.refreshIndex PROVE e \in RefreshIndex(r.grants)
    BY <2>1, <1>1 DEF RefreshIndex
  <2>3. ASSUME NEW e \in RefreshIndex(r.grants) PROVE e \in r.refreshIndex
    <3>1. PICK g \in DOMAIN r.grants : e = <<r.grants[g].cur, g>>
      BY DEF RefreshIndex
    <3>2. \A h \in S \cap DOMAIN d.grants : e[1] # d.grants[h].cur
      BY <3>1, <1>1 DEF TokensApart
    <3>3. e \in RefreshIndex(d.grants)
      BY <3>1, <1>1 DEF RefreshIndex
    <3> QED BY <3>2, <3>3, <2>1
  <2> QED BY <2>2, <2>3
<1>4. r.retiredIndex = RetiredIndex(r.grants)
  <2>1. r.retiredIndex = {e \in RetiredIndex(d.grants) :
                            \A g \in S \cap DOMAIN d.grants : e[1] \notin Range(d.grants[g].retired)}
    BY RemoveFields DEF Indexed
  <2>2. ASSUME NEW e \in r.retiredIndex PROVE e \in RetiredIndex(r.grants)
    <3>1. PICK g \in DOMAIN d.grants : e \in {<<t, g>> : t \in Range(d.grants[g].retired)}
      BY <2>1 DEF RetiredIndex
    <3>2. PICK t \in Range(d.grants[g].retired) : e = <<t, g>>
      BY <3>1
    <3>3. g \notin S
      BY <2>1, <3>2
    <3> QED BY <3>2, <3>3, <1>1 DEF RetiredIndex
  <2>3. ASSUME NEW e \in RetiredIndex(r.grants) PROVE e \in r.retiredIndex
    <3>1. PICK g \in DOMAIN r.grants : e \in {<<t, g>> : t \in Range(r.grants[g].retired)}
      BY DEF RetiredIndex
    <3>2. PICK t \in Range(r.grants[g].retired) : e = <<t, g>>
      BY <3>1
    <3>3. e \in RetiredIndex(d.grants)
      BY <3>2, <1>1 DEF RetiredIndex
    <3>4. ASSUME NEW h \in S \cap DOMAIN d.grants PROVE e[1] \notin Range(d.grants[h].retired)
      BY <3>2, <1>1 DEF TokensApart
    <3> QED BY <3>3, <3>4, <2>1
  <2> QED BY <2>2, <2>3
<1>5. \A a \in r.access : a.grant \in DOMAIN r.grants /\ a.fp = r.grants[a.grant].fp
  BY RemoveFields, <1>1 DEF Indexed
<1> QED BY <1>2, <1>3, <1>4, <1>5 DEF Indexed

(* What prune leaves and what it takes.                                    *)
Prunes(p, d, t) ==
  /\ IsInner(p)
  /\ p.grants = Without(d.grants, Lapsed(d, t))
  /\ Agrees(p.clients, d.clients)
  /\ \A c \in DOMAIN d.clients \ DOMAIN p.clients :
       ~d.clients[c].approved /\ d.clients[c].created + ClientTtl <= t
  /\ Agrees(p.codes, d.codes)
  /\ Agrees(p.pending, d.pending)
  /\ p.usedCodes \subseteq d.usedCodes

LEMMA PruneFields ==
  ASSUME NEW d, IsInner(d), Indexed(d), TokensApart(d.grants), NEW t \in Nat
  PROVE  Prunes(Prune(d, t), d, t) /\ Indexed(Prune(d, t)) /\ TokensApart(Prune(d, t).grants)
<1> DEFINE x0 == {a \in d.access : a.expires > t}
           d2 == [d EXCEPT !.access = x0]
           e == RemoveGrants(d2, Lapsed(d, t))
           x1 == Without(e.codes, {a \in DOMAIN e.codes : e.codes[a].expires <= t})
           x2 == {u \in e.usedCodes : u.until > t}
           x3 == Without(e.pending, {a \in DOMAIN e.pending : e.pending[a].created + PendingTtl <= t})
           x4 == Without(e.clients, {c \in Unused(e) : e.clients[c].created + ClientTtl <= t})
           p == Prune(d, t)
<1>1. /\ d2 = [clients |-> d.clients, grants |-> d.grants, refreshIndex |-> d.refreshIndex,
               retiredIndex |-> d.retiredIndex, codes |-> d.codes, usedCodes |-> d.usedCodes,
               access |-> x0, pending |-> d.pending]
  <2> HIDE DEF x0
  <2> QED BY DEF IsInner
<1>2. IsInner(d2) /\ Indexed(d2) /\ TokensApart(d2.grants)
  BY <1>1 DEF IsInner, Indexed
<1>3. /\ e.grants = Without(d.grants, Lapsed(d, t)) /\ e.clients = d.clients
      /\ e.codes = d.codes /\ e.pending = d.pending /\ e.usedCodes = d.usedCodes
      /\ IsInner(e)
  BY <1>1, <1>2, RemoveFields
<1>4. Indexed(e) /\ TokensApart(e.grants)
  BY <1>2, RemoveIndexed
<1>5. p = [e EXCEPT !.codes = x1, !.usedCodes = x2, !.pending = x3, !.clients = x4]
  BY DEF Prune
<1> HIDE DEF p, e, d2
<1>6. /\ IsMap(x1, Auths, CodeRec) /\ Agrees(x1, e.codes)
      /\ IsMap(x3, Auths, PendingRec) /\ Agrees(x3, e.pending)
      /\ IsMap(x4, Clients, ClientRec) /\ Agrees(x4, e.clients)
  <2>1. /\ IsMap(e.codes, Auths, CodeRec)
        /\ IsMap(e.pending, Auths, PendingRec)
        /\ IsMap(e.clients, Clients, ClientRec)
    BY <1>3 DEF IsInner
  <2> QED BY <2>1, WithoutIsMap, WithoutFacts
<1>7. x2 \subseteq [code : Auths, grant : Grants, until : Nat] /\ x2 \subseteq e.usedCodes
  BY <1>3 DEF IsInner
<1>8. \A c \in DOMAIN e.clients \ DOMAIN x4 :
        ~e.clients[c].approved /\ e.clients[c].created + ClientTtl <= t
  BY DEF Without, Restrict, Unused
<1> HIDE DEF x1, x2, x3, x4
<1>9. p = [clients |-> x4, grants |-> e.grants, refreshIndex |-> e.refreshIndex,
           retiredIndex |-> e.retiredIndex, codes |-> x1, usedCodes |-> x2,
           access |-> e.access, pending |-> x3]
  BY <1>3, <1>5 DEF IsInner
<1>10. IsInner(p)
  BY <1>3, <1>6, <1>7, <1>9 DEF IsInner
<1>11. Prunes(p, d, t)
  BY <1>3, <1>6, <1>7, <1>8, <1>9, <1>10 DEF Prunes
<1>12. Indexed(p) /\ TokensApart(p.grants)
  BY <1>4, <1>9 DEF Indexed
<1> QED BY <1>11, <1>12 DEF p

LEMMA PruneBacked ==
  ASSUME NEW d, NEW p, NEW file, NEW t \in Nat, NEW u, IsInner(d), IsFile(file),
         Prunes(p, d, t), Backed(d, file, t, u)
  PROVE  Backed(p, file, t, u)
<1>1. /\ DOMAIN p.grants = DOMAIN d.grants \ Lapsed(d, t)
      /\ \A g \in DOMAIN p.grants : p.grants[g] = d.grants[g]
  <2>1. p.grants = Without(d.grants, Lapsed(d, t))
    BY DEF Prunes
  <2> QED BY <2>1 DEF Without, Restrict
<1>2. Agrees(p.grants, file.grants)
  BY <1>1 DEF Backed, Agrees
<1>3. ~u => \A g \in DOMAIN file.grants \ DOMAIN p.grants : file.grants[g].expires <= t
  BY <1>1 DEF Backed, Agrees, Lapsed
<1>4. Agrees(p.clients, file.clients)
  BY DEF Backed, Agrees, Prunes
<1>5. ~u => \A c \in DOMAIN file.clients \ DOMAIN p.clients :
        ~file.clients[c].approved /\ file.clients[c].created + ClientTtl <= t
  BY DEF Backed, Agrees, Prunes
<1> QED BY <1>2, <1>3, <1>4, <1>5 DEF Backed

-----------------------------------------------------------------------------
(* A state of the store in good order, with m tokens minted.               *)

Minted(grants, m) ==
  \A g \in DOMAIN grants :
    /\ grants[g].cur \in 1 .. m /\ Range(grants[g].retired) \subseteq 1 .. m
    /\ Len(grants[g].retired) <= Keep

Good(d, m) == IsInner(d) /\ Indexed(d) /\ TokensApart(d.grants) /\ Minted(d.grants, m)

GoodFile(f, m) == IsFile(f) /\ TokensApart(f.grants) /\ Minted(f.grants, m)

StoreInv == Good(mem, minted) /\ GoodFile(disk, minted) /\ Backed(mem, disk, now, unread)

LEMMA RemoveGood ==
  ASSUME NEW m, NEW d, Good(d, m), NEW S
  PROVE  Good(RemoveGrants(d, S), m)
<1> DEFINE r == RemoveGrants(d, S)
<1>1. IsInner(r) /\ r.grants = Without(d.grants, S)
  BY RemoveFields DEF Good
<1>2. Indexed(r) /\ TokensApart(r.grants)
  BY RemoveIndexed DEF Good
<1> HIDE DEF r
<1>3. Minted(r.grants, m)
  BY <1>1 DEF Good, Minted, Without, Restrict
<1> QED BY <1>1, <1>2, <1>3 DEF Good, r

LEMMA PrunedGood ==
  ASSUME StoreInv, now \in Nat
  PROVE  Good(Pruned, minted) /\ Backed(Pruned, disk, now, unread) /\ Prunes(Pruned, mem, now)
<1> DEFINE p == Pruned
<1>1. Prunes(p, mem, now) /\ Indexed(p) /\ TokensApart(p.grants)
  BY PruneFields DEF StoreInv, Good, Pruned
<1> HIDE DEF p
<1>2. IsInner(p) /\ p.grants = Without(mem.grants, Lapsed(mem, now))
  BY <1>1 DEF Prunes
<1>3. Minted(p.grants, minted)
  BY <1>2 DEF StoreInv, Good, Minted, Without, Restrict
<1>4. Backed(p, disk, now, unread)
  BY <1>1, PruneBacked DEF StoreInv, Good, GoodFile
<1> QED BY <1>1, <1>2, <1>3, <1>4 DEF Good, p

(* Fields that neither a grant nor an index depends on.                    *)
SameGrants(d, e) ==
  /\ e.grants = d.grants /\ e.refreshIndex = d.refreshIndex
  /\ e.retiredIndex = d.retiredIndex /\ e.access = d.access

LEMMA SameGrantsGood ==
  ASSUME NEW m, NEW d, Good(d, m), NEW e, IsInner(e), SameGrants(d, e)
  PROVE  Good(e, m)
  BY DEF Good, SameGrants, Indexed

LEMMA SnapshotBacks ==
  ASSUME NEW m, NEW t, NEW u, NEW d, Good(d, m)
  PROVE  GoodFile(Snapshot(d), m) /\ Backed(d, Snapshot(d), t, u)
<1>1. Snapshot(d).clients = d.clients /\ Snapshot(d).grants = d.grants
  BY DEF Snapshot
<1>2. Backed(d, Snapshot(d), t, u)
  BY <1>1 DEF Backed, Agrees
<1>3. GoodFile(Snapshot(d), m)
  BY DEF Snapshot, Good, GoodFile, IsInner, IsFile
<1> QED BY <1>2, <1>3

(* A commit keeps the store in good order if its draft is.                 *)
LEMMA Committed ==
  ASSUME NEW live, NEW draft, NEW ok \in BOOLEAN, Commit(live, draft, ok),
         Good(live, minted'), Good(draft, minted'), GoodFile(disk, minted'),
         Backed(live, disk, now, unread), now' = now
  PROVE  StoreInv'
<1>1. CASE ok
  <2>1. mem' = draft /\ disk' = Snapshot(draft)
    BY <1>1 DEF Commit
  <2> QED BY <2>1, SnapshotBacks DEF StoreInv
<1>2. CASE ~ok
  BY <1>2 DEF Commit, StoreInv
<1> QED BY <1>1, <1>2

LEMMA MoreMinted ==
  ASSUME NEW m \in Nat, NEW d, NEW n \in Nat, n >= m
  PROVE  (Good(d, m) => Good(d, n)) /\ (GoodFile(d, m) => GoodFile(d, n))
<1>1. 1 .. m \subseteq 1 .. n
  OBVIOUS
<1> QED BY <1>1 DEF Good, GoodFile, Minted

(* Revocations, of any set of grants.                                      *)
LEMMA Revoked ==
  ASSUME StoreInv, now \in Nat, NEW S, NEW ok \in BOOLEAN, UNCHANGED <<now, minted>>,
         \/ Commit(mem, RemoveGrants(mem, S), ok)
         \/ Commit(Pruned, RemoveGrants(Pruned, S), ok)
  PROVE  StoreInv'
<1>1. Good(mem, minted) /\ Good(RemoveGrants(mem, S), minted)
  BY RemoveGood DEF StoreInv
<1>2. Good(Pruned, minted) /\ Good(RemoveGrants(Pruned, S), minted) /\ Backed(Pruned, disk, now, unread)
  BY RemoveGood, PrunedGood
<1>3. GoodFile(disk, minted) /\ Backed(mem, disk, now, unread)
  BY DEF StoreInv
<1>4. CASE Commit(mem, RemoveGrants(mem, S), ok)
  BY <1>1, <1>3, <1>4, Committed
<1>5. CASE Commit(Pruned, RemoveGrants(Pruned, S), ok)
  BY <1>2, <1>3, <1>5, Committed
<1> QED BY <1>4, <1>5

-----------------------------------------------------------------------------
(* The steps that make tokens.                                             *)

LEMMA DrainRange ==
  ASSUME NEW s \in Seq(Nat), NEW x \in Nat
  PROVE  /\ Drain(Append(s, x)) \in Seq(Nat)
         /\ Range(Drain(Append(s, x))) \subseteq Range(s) \cup {x}
         /\ Len(Drain(Append(s, x))) <= Keep
<1> DEFINE a == Append(s, x)
           r == Drain(a)
<1>1. /\ a \in Seq(Nat) /\ Len(a) = Len(s) + 1 /\ Len(s) \in Nat
      /\ a[Len(a)] = x
      /\ \A i \in 1 .. Len(s) : a[i] = s[i]
  OBVIOUS
<1>2. Range(a) \subseteq Range(s) \cup {x}
  <2> SUFFICES ASSUME NEW i \in DOMAIN a PROVE a[i] \in Range(s) \cup {x}
    BY DEF Range
  <2>1. i \in 1 .. Len(s) \/ i = Len(a)
    BY <1>1
  <2>2. DOMAIN s = 1 .. Len(s)
    OBVIOUS
  <2> QED BY <1>1, <2>1, <2>2 DEF Range
<1> HIDE DEF a
<1>3. CASE Len(a) > Keep
  <2>1. r = SubSeq(a, Len(a) - Keep + 1, Len(a))
    BY <1>3 DEF Drain
  <2>2. Len(a) - Keep + 1 \in 1 .. Len(a) + 1 /\ Len(a) \in Nat
    BY <1>1, <1>3, BoundsAssumption
  <2>3. r \in Seq(Nat) /\ Len(r) = Keep
        /\ \A i \in 1 .. Len(r) : r[i] = a[Len(a) - Keep + i]
    <3>1. \A i \in Len(a) - Keep + 1 .. Len(a) : a[i] \in Nat
      <4>1. \A i \in Int : i \in Len(a) - Keep + 1 .. Len(a) => i \in 1 .. Len(a)
        BY <1>1, <2>2, BoundsAssumption
      <4>2. \A i \in 1 .. Len(a) : a[i] \in Nat
        BY <1>1
      <4> QED BY <4>1, <4>2, BoundsAssumption, <1>1
    <3>2. Len(a) - Keep + 1 \in Int /\ Len(a) \in Int /\ Keep \in Nat
      BY <2>2, BoundsAssumption
    <3>3. /\ r \in Seq(Nat) /\ Len(r) = Len(a) - (Len(a) - Keep + 1) + 1
          /\ \A i \in 1 .. Len(a) - (Len(a) - Keep + 1) + 1 : r[i] = a[Len(a) - Keep + 1 + i - 1]
      BY <2>1, <2>2, <3>1, <3>2, SubSeqProperties
    <3> HIDE DEF r
    <3> QED BY <3>2, <3>3
  <2> HIDE DEF r
  <2>4. Range(r) \subseteq Range(a)
    <3> SUFFICES ASSUME NEW i \in DOMAIN r PROVE r[i] \in Range(a)
      BY DEF Range
    <3>1. i \in 1 .. Keep /\ r[i] = a[Len(a) - Keep + i]
      BY <2>3, BoundsAssumption
    <3>2. Len(a) - Keep + i \in 1 .. Len(a)
      <4>1. Keep \in Nat /\ i \in Nat /\ 1 <= i /\ i <= Keep
        BY <3>1, BoundsAssumption
      <4>2. Len(a) \in Nat /\ Len(a) > Keep
        BY <1>1, <1>3
      <4>3. \A k, n, j \in Nat : 1 <= j /\ j <= k /\ n > k => n - k + j \in 1 .. n
        OBVIOUS
      <4> QED BY <4>1, <4>2, <4>3
    <3>3. DOMAIN a = 1 .. Len(a)
      BY <1>1
    <3> QED BY <3>1, <3>2, <3>3 DEF Range
  <2> QED BY <2>3, <2>4, <1>2, BoundsAssumption DEF r, a
<1>4. CASE ~(Len(a) > Keep)
  BY <1>1, <1>2, <1>4, BoundsAssumption DEF Drain, a
<1> QED BY <1>3, <1>4

LEMMA RotationGood ==
  ASSUME NEW m \in Nat, NEW d, Good(d, m), NEW g \in DOMAIN d.grants, NEW t \in Nat
  PROVE  /\ Good(Rotation(d, g, m + 1, t), m + 1)
         /\ DOMAIN Rotation(d, g, m + 1, t).grants = DOMAIN d.grants
         /\ Rotation(d, g, m + 1, t).grants[g].cur = m + 1
         /\ \A h \in DOMAIN d.grants \ {g} : Rotation(d, g, m + 1, t).grants[h] = d.grants[h]
         /\ Rotation(d, g, m + 1, t).clients = d.clients
         /\ Rotation(d, g, m + 1, t).codes = d.codes
         /\ Rotation(d, g, m + 1, t).pending = d.pending
         /\ Rotation(d, g, m + 1, t).usedCodes = d.usedCodes
<1> DEFINE old == d.grants[g]
           new == [old EXCEPT !.retired = Drain(Append(old.retired, old.cur)), !.cur = m + 1,
                              !.rotated = t,
                              !.expires = IF t + RefreshTtl < old.created + GrantMax
                                          THEN t + RefreshTtl ELSE old.created + GrantMax]
           grants == With(d.grants, g, new)
           acc == d.access \cup {[grant |-> g, fp |-> new.fp, user |-> new.user,
                                  expires |-> t + AccessTtl]}
           r == Rotation(d, g, m + 1, t)
<1>1. g \in Grants /\ old \in GrantRec /\ IsMap(d.grants, Grants, GrantRec)
  BY DEF Good, IsInner, IsMap
<1>2. /\ old.retired \in Seq(Nat) /\ old.cur \in Nat /\ old.created \in Nat
      /\ old.fp \in Nat /\ old.user \in Users
  BY <1>1 DEF GrantRec
<1>3. /\ new \in GrantRec /\ new.cur = m + 1 /\ new.fp = old.fp /\ new.user = old.user
      /\ new.retired = Drain(Append(old.retired, old.cur))
  <2>1. Drain(Append(old.retired, old.cur)) \in Seq(Nat)
    BY <1>2, DrainRange
  <2> DEFINE ret == Drain(Append(old.retired, old.cur))
             exp == IF t + RefreshTtl < old.created + GrantMax
                    THEN t + RefreshTtl ELSE old.created + GrantMax
  <2>2. exp \in Nat
    BY <1>2, TimesAssumption
  <2> HIDE DEF ret, exp, old
  <2>3. ret \in Seq(Nat)
    BY <2>1 DEF ret, old
  <2>4. new = [old EXCEPT !.retired = ret, !.cur = m + 1, !.rotated = t, !.expires = exp]
    BY DEF ret, exp
  <2> HIDE DEF new
  <2>5. new \in GrantRec /\ new.cur = m + 1 /\ new.fp = old.fp /\ new.user = old.user /\ new.retired = ret
    <3>1. old = [client |-> old.client, user |-> old.user, fp |-> old.fp, cur |-> old.cur,
                 retired |-> old.retired, rotated |-> old.rotated, created |-> old.created,
                 expires |-> old.expires]
          /\ old.client \in Clients /\ old.user \in Users /\ old.fp \in Nat /\ old.created \in Nat
      BY <1>1 DEF GrantRec
    <3>2. new = [client |-> old.client, user |-> old.user, fp |-> old.fp, cur |-> m + 1,
                 retired |-> ret, rotated |-> t, created |-> old.created, expires |-> exp]
      BY <2>4, <3>1
    <3>3. m + 1 \in Nat
      OBVIOUS
    <3> QED BY <2>2, <2>3, <3>1, <3>2, <3>3 DEF GrantRec
  <2> QED BY <2>5 DEF ret
<1>4. Range(new.retired) \subseteq Range(old.retired) \cup {old.cur} /\ Len(new.retired) <= Keep
  BY <1>2, <1>3, DrainRange
<1> HIDE DEF new, old
<1>5. /\ IsMap(grants, Grants, GrantRec) /\ DOMAIN grants = DOMAIN d.grants /\ grants[g] = new
      /\ \A h \in DOMAIN d.grants \ {g} : grants[h] = d.grants[h]
  BY <1>1, <1>3, WithIsMap DEF With
<1>6. Minted(grants, m + 1)
  <2> SUFFICES ASSUME NEW h \in DOMAIN d.grants
               PROVE  /\ grants[h].cur \in 1 .. m + 1 /\ Range(grants[h].retired) \subseteq 1 .. m + 1
                      /\ Len(grants[h].retired) <= Keep
    BY <1>5 DEF Minted
  <2>1. /\ d.grants[h].cur \in 1 .. m /\ Range(d.grants[h].retired) \subseteq 1 .. m
        /\ Len(d.grants[h].retired) <= Keep
    BY DEF Good, Minted
  <2>2. old.cur \in 1 .. m /\ Range(old.retired) \subseteq 1 .. m
    BY DEF Good, Minted, old
  <2>3. 1 .. m \subseteq 1 .. m + 1 /\ m + 1 \in 1 .. m + 1
    OBVIOUS
  <2> QED BY <2>1, <2>2, <2>3, <1>3, <1>4, <1>5
<1>7. TokensApart(grants)
  <2>1. m + 1 \notin 1 .. m
    OBVIOUS
  <2>2. \A h \in DOMAIN d.grants :
          d.grants[h].cur \in 1 .. m /\ Range(d.grants[h].retired) \subseteq 1 .. m
    BY DEF Good, Minted
  <2>3. TokensApart(d.grants)
    BY DEF Good
  <2> SUFFICES ASSUME NEW h \in DOMAIN d.grants, NEW k \in DOMAIN d.grants
               PROVE  /\ grants[h].cur = grants[k].cur => h = k
                      /\ Range(grants[h].retired) \cap Range(grants[k].retired) # {} => h = k
                      /\ grants[h].cur \notin Range(grants[k].retired)
    BY <1>5 DEF TokensApart
  <2>4. CASE h = g /\ k = g
    <3>1. Range(new.retired) \subseteq 1 .. m
      BY <2>2, <1>4 DEF old
    <3> QED BY <3>1, <2>1, <2>4, <1>3, <1>5
  <2>5. CASE h = g /\ k # g
    <3>1. grants[h] = new /\ grants[k] = d.grants[k]
      BY <1>5, <2>5
    <3>2. /\ Range(old.retired) \cap Range(d.grants[k].retired) = {}
          /\ old.cur \notin Range(d.grants[k].retired)
      BY <2>3, <2>5 DEF TokensApart, old
    <3>3. Range(new.retired) \cap Range(d.grants[k].retired) = {}
      BY <3>2, <1>4
    <3>4. new.cur # d.grants[k].cur /\ new.cur \notin Range(d.grants[k].retired)
      BY <2>1, <2>2, <1>3
    <3> QED BY <3>1, <3>3, <3>4
  <2>6. CASE h # g /\ k = g
    <3>1. grants[h] = d.grants[h] /\ grants[k] = new
      BY <1>5, <2>6
    <3>2. /\ Range(old.retired) \cap Range(d.grants[h].retired) = {}
          /\ old.cur \notin Range(d.grants[h].retired)
          /\ d.grants[h].cur \notin Range(old.retired)
          /\ d.grants[h].cur # old.cur
      BY <2>3, <2>6 DEF TokensApart, old
    <3>3. /\ Range(new.retired) \cap Range(d.grants[h].retired) = {}
          /\ d.grants[h].cur \notin Range(new.retired)
      BY <3>2, <1>4
    <3>4. new.cur # d.grants[h].cur
      BY <2>1, <2>2, <1>3
    <3> QED BY <3>1, <3>3, <3>4
  <2>7. CASE h # g /\ k # g
    BY <2>3, <2>7, <1>5 DEF TokensApart
  <2> QED BY <2>4, <2>5, <2>6, <2>7
<1>8. r = [d EXCEPT !.grants = grants, !.refreshIndex = RefreshIndex(grants),
                    !.retiredIndex = RetiredIndex(grants), !.access = acc]
  BY DEF Rotation, IssueAccess, new, old, Good, IsInner
<1> HIDE DEF r, grants, acc
<1>9. r = [clients |-> d.clients, grants |-> grants, refreshIndex |-> RefreshIndex(grants),
           retiredIndex |-> RetiredIndex(grants), codes |-> d.codes, usedCodes |-> d.usedCodes,
           access |-> acc, pending |-> d.pending]
  BY <1>8 DEF Good, IsInner
<1>10. RefreshIndex(grants) \subseteq Nat \X Grants /\ RetiredIndex(grants) \subseteq Nat \X Grants
  <2>1. \A h \in DOMAIN grants : h \in Grants /\ grants[h].cur \in Nat /\ Range(grants[h].retired) \subseteq Nat
    <3>1. \A h \in DOMAIN grants : grants[h].cur \in 1 .. m + 1 /\ Range(grants[h].retired) \subseteq 1 .. m + 1
      BY <1>6 DEF Minted
    <3>2. 1 .. m + 1 \subseteq Nat
      OBVIOUS
    <3> QED BY <1>5, <3>1, <3>2 DEF IsMap
  <2> QED BY <2>1 DEF RefreshIndex, RetiredIndex
<1>11. acc \subseteq [grant : Grants, fp : Nat, user : Users, expires : Nat]
  BY <1>1, <1>2, <1>3, TimesAssumption DEF Good, IsInner, acc
<1>12. \A a \in acc : a.grant \in DOMAIN grants /\ a.fp = grants[a.grant].fp
  <2> SUFFICES ASSUME NEW a \in acc PROVE a.grant \in DOMAIN grants /\ a.fp = grants[a.grant].fp
    OBVIOUS
  <2>1. CASE a \in d.access
    BY <2>1, <1>3, <1>5 DEF Good, Indexed, old
  <2>2. CASE a \notin d.access
    BY <2>2, <1>5 DEF acc
  <2> QED BY <2>1, <2>2
<1>13. IsInner(r)
  BY <1>5, <1>9, <1>10, <1>11 DEF Good, IsInner
<1>14. Good(r, m + 1)
  BY <1>6, <1>7, <1>9, <1>12, <1>13 DEF Good, Indexed
<1> QED BY <1>3, <1>5, <1>9, <1>14 DEF r

(* The draft of an exchange: a grant of a new name under a new token.      *)
Opened(d, g, grant, used, t) ==
  [IssueAccess(d, g, grant, t) EXCEPT !.refreshIndex = @ \cup {<<grant.cur, g>>},
                                      !.usedCodes = @ \cup {used},
                                      !.grants = With(@, g, grant)]

LEMMA OpenedGood ==
  ASSUME NEW m \in Nat, NEW d, Good(d, m), NEW g \in Grants, g \notin DOMAIN d.grants,
         NEW grant \in GrantRec, grant.cur = m + 1, grant.retired = << >>, NEW t \in Nat,
         NEW used \in [code : Auths, grant : Grants, until : Nat]
  PROVE  Good(Opened(d, g, grant, used, t), m + 1)
<1> DEFINE r == Opened(d, g, grant, used, t)
           grants == With(d.grants, g, grant)
           acc == d.access \cup {[grant |-> g, fp |-> grant.fp, user |-> grant.user,
                                  expires |-> t + AccessTtl]}
           idx == d.refreshIndex \cup {<<grant.cur, g>>}
           usedC == d.usedCodes \cup {used}
<1>1. r = [d EXCEPT !.access = acc, !.refreshIndex = idx, !.usedCodes = usedC, !.grants = grants]
  BY DEF Opened, IssueAccess, Good, IsInner
<1> HIDE DEF r, grants, acc, idx, usedC
<1>2. r = [clients |-> d.clients, grants |-> grants, refreshIndex |-> idx,
           retiredIndex |-> d.retiredIndex, codes |-> d.codes, usedCodes |-> usedC,
           access |-> acc, pending |-> d.pending]
  BY <1>1 DEF Good, IsInner
<1>3. /\ IsMap(grants, Grants, GrantRec) /\ DOMAIN grants = DOMAIN d.grants \cup {g}
      /\ grants[g] = grant
      /\ \A h \in DOMAIN d.grants : grants[h] = d.grants[h]
  <2>1. IsMap(d.grants, Grants, GrantRec)
    BY DEF Good, IsInner
  <2>2. /\ IsMap(With(d.grants, g, grant), Grants, GrantRec)
        /\ DOMAIN With(d.grants, g, grant) = DOMAIN d.grants \cup {g}
        /\ With(d.grants, g, grant)[g] = grant
        /\ \A h \in DOMAIN d.grants \ {g} : With(d.grants, g, grant)[h] = d.grants[h]
    BY <2>1 DEF With, IsMap
  <2> QED BY <2>2 DEF grants
<1>4. Range(grant.retired) = {} /\ grant.fp \in Nat /\ grant.user \in Users /\ grant.cur \in Nat
  BY DEF Range, GrantRec
<1>5. Minted(grants, m + 1)
  <2>1. 1 .. m \subseteq 1 .. m + 1 /\ m + 1 \in 1 .. m + 1
    OBVIOUS
  <2>2. Len(grant.retired) <= Keep
    BY BoundsAssumption
  <2> QED BY <2>1, <2>2, <1>3, <1>4 DEF Good, Minted
<1>6. TokensApart(grants)
  <2>1. m + 1 \notin 1 .. m
    OBVIOUS
  <2>2. \A h \in DOMAIN d.grants :
          d.grants[h].cur \in 1 .. m /\ Range(d.grants[h].retired) \subseteq 1 .. m
    BY DEF Good, Minted
  <2> SUFFICES ASSUME NEW h \in DOMAIN grants, NEW k \in DOMAIN grants
               PROVE  /\ grants[h].cur = grants[k].cur => h = k
                      /\ Range(grants[h].retired) \cap Range(grants[k].retired) # {} => h = k
                      /\ grants[h].cur \notin Range(grants[k].retired)
    BY DEF TokensApart
  <2>3. CASE h = g \/ k = g
    BY <2>1, <2>2, <2>3, <1>3, <1>4
  <2>4. CASE h # g /\ k # g
    BY <2>4, <1>3 DEF TokensApart, Good
  <2> QED BY <2>3, <2>4
<1>7. idx = RefreshIndex(grants)
  BY <1>3 DEF idx, RefreshIndex, Good, Indexed
<1>8. d.retiredIndex = RetiredIndex(grants)
  <2>1. Range(grants[g].retired) = {}
        /\ \A h \in DOMAIN d.grants : Range(grants[h].retired) = Range(d.grants[h].retired)
    BY <1>3, <1>4
  <2>2. RetiredIndex(grants) = RetiredIndex(d.grants)
    <3>1. ASSUME NEW e \in RetiredIndex(grants) PROVE e \in RetiredIndex(d.grants)
      <4>1. PICK h \in DOMAIN grants : e \in {<<x, h>> : x \in Range(grants[h].retired)}
        BY DEF RetiredIndex
      <4>2. h \in DOMAIN d.grants /\ Range(grants[h].retired) = Range(d.grants[h].retired)
        BY <4>1, <2>1, <1>3
      <4>3. e \in {<<x, h>> : x \in Range(d.grants[h].retired)}
        BY <4>1, <4>2
      <4> QED BY <4>2, <4>3 DEF RetiredIndex
    <3>2. ASSUME NEW e \in RetiredIndex(d.grants) PROVE e \in RetiredIndex(grants)
      <4>1. PICK h \in DOMAIN d.grants : e \in {<<x, h>> : x \in Range(d.grants[h].retired)}
        BY DEF RetiredIndex
      <4>2. h \in DOMAIN grants /\ Range(grants[h].retired) = Range(d.grants[h].retired)
        BY <1>3, <2>1
      <4>3. e \in {<<x, h>> : x \in Range(grants[h].retired)}
        BY <4>1, <4>2
      <4> QED BY <4>2, <4>3 DEF RetiredIndex
    <3> QED BY <3>1, <3>2
  <2> QED BY <2>2 DEF Good, Indexed
<1>9. acc \subseteq [grant : Grants, fp : Nat, user : Users, expires : Nat]
  BY <1>4, TimesAssumption DEF acc, Good, IsInner
<1>10. \A a \in acc : a.grant \in DOMAIN grants /\ a.fp = grants[a.grant].fp
  <2> SUFFICES ASSUME NEW a \in acc PROVE a.grant \in DOMAIN grants /\ a.fp = grants[a.grant].fp
    OBVIOUS
  <2>1. CASE a \in d.access
    BY <2>1, <1>3 DEF Good, Indexed
  <2>2. CASE a \notin d.access
    BY <2>2, <1>3 DEF acc
  <2> QED BY <2>1, <2>2
<1>11. idx \subseteq Nat \X Grants /\ usedC \subseteq [code : Auths, grant : Grants, until : Nat]
  BY <1>4 DEF idx, usedC, Good, IsInner
<1>12. IsInner(r)
  BY <1>2, <1>3, <1>9, <1>11 DEF Good, IsInner
<1>13. Good(r, m + 1)
  BY <1>2, <1>5, <1>6, <1>7, <1>8, <1>10, <1>12 DEF Good, Indexed
<1> QED BY <1>13 DEF r

(* load: the indexes are built anew, everything that is not in the file is *)
(* gone.                                                                   *)
LEMMA LoadFields ==
  ASSUME NEW f
  PROVE  Load(f) =
           [clients |-> f.clients, grants |-> f.grants, refreshIndex |-> RefreshIndex(f.grants),
            retiredIndex |-> RetiredIndex(f.grants), codes |-> Empty, usedCodes |-> {},
            access |-> {}, pending |-> Empty]
<1>1. EmptyInner = [clients |-> Empty, grants |-> Empty, refreshIndex |-> {}, retiredIndex |-> {},
                    codes |-> Empty, usedCodes |-> {}, access |-> {}, pending |-> Empty]
  BY DEF EmptyInner
<1> DEFINE r == Load(f)
           x == RefreshIndex(f.grants)
           y == RetiredIndex(f.grants)
<1>2. r = [EmptyInner EXCEPT !.clients = f.clients, !.grants = f.grants, !.refreshIndex = x,
                             !.retiredIndex = y]
  BY DEF Load
<1> HIDE DEF x, y, r
<1>3. r = [clients |-> f.clients, grants |-> f.grants, refreshIndex |-> x, retiredIndex |-> y,
           codes |-> Empty, usedCodes |-> {}, access |-> {}, pending |-> Empty]
  BY <1>1, <1>2
<1> QED BY <1>3 DEF r, x, y

LEMMA LoadGood ==
  ASSUME NEW m, NEW f, GoodFile(f, m), NEW t, NEW u
  PROVE  Good(Load(f), m) /\ Backed(Load(f), f, t, u)
<1> DEFINE r == Load(f)
<1>1. r = [clients |-> f.clients, grants |-> f.grants, refreshIndex |-> RefreshIndex(f.grants),
           retiredIndex |-> RetiredIndex(f.grants), codes |-> Empty, usedCodes |-> {},
           access |-> {}, pending |-> Empty]
  BY LoadFields
<1> HIDE DEF r
<1>2. /\ RefreshIndex(f.grants) \subseteq Nat \X Grants
      /\ RetiredIndex(f.grants) \subseteq Nat \X Grants
  <2>1. \A h \in DOMAIN f.grants : /\ h \in Grants /\ f.grants[h].cur \in Nat
                                   /\ Range(f.grants[h].retired) \subseteq Nat
    <3>1. \A h \in DOMAIN f.grants : f.grants[h].cur \in 1 .. m /\ Range(f.grants[h].retired) \subseteq 1 .. m
      BY DEF GoodFile, Minted
    <3>2. 1 .. m \subseteq Nat
      OBVIOUS
    <3> QED BY <3>1, <3>2 DEF GoodFile, IsFile, IsMap
  <2> QED BY <2>1 DEF RefreshIndex, RetiredIndex
<1>3. IsInner(r)
  BY <1>1, <1>2, EmptyIsMap DEF IsInner, GoodFile, IsFile
<1>4. Good(r, m)
  BY <1>1, <1>3 DEF Good, Indexed, GoodFile
<1>5. Backed(r, f, t, u)
  BY <1>1 DEF Backed, Agrees
<1> QED BY <1>4, <1>5 DEF r

(* An empty file, and the memory it loads as.                              *)
LEMMA EmptyFileGood ==
  ASSUME NEW m
  PROVE  GoodFile([clients |-> Empty, grants |-> Empty], m) /\ Good(EmptyInner, m)
<1> DEFINE f == [clients |-> Empty, grants |-> Empty]
<1>1. f.clients = Empty /\ f.grants = Empty /\ DOMAIN f.grants = {}
      /\ f = [clients |-> f.clients, grants |-> f.grants]
  BY EmptyIsMap
<1> HIDE DEF f
<1>2. GoodFile(f, m)
  BY <1>1, EmptyIsMap DEF GoodFile, IsFile, TokensApart, Minted
<1>3. RefreshIndex(Empty) = {} /\ RetiredIndex(Empty) = {}
  BY EmptyIsMap DEF RefreshIndex, RetiredIndex
<1>4. Load(f) = [clients |-> Empty, grants |-> Empty, refreshIndex |-> {}, retiredIndex |-> {},
                 codes |-> Empty, usedCodes |-> {}, access |-> {}, pending |-> Empty]
  BY <1>1, <1>3, LoadFields
<1>5. Good(Load(f), m)
  BY <1>2, LoadGood
<1> QED BY <1>2, <1>4, <1>5 DEF EmptyInner, f

-----------------------------------------------------------------------------
(* The shapes of a step: memory alone, with the clients, codes or pending  *)
(* approvals it holds changed; a commit of such a change.  In both the     *)
(* file keeps of the grants a part, and that as it was.                    *)

Fields(d, cs, ks, ps, as) ==
  [d EXCEPT !.clients = cs, !.codes = ks, !.pending = ps, !.access = as]

LEMMA FieldsGood ==
  ASSUME NEW m, NEW d, Good(d, m), NEW cs, NEW ks, NEW ps, NEW as \in SUBSET d.access,
         IsMap(cs, Clients, ClientRec),
         IsMap(ks, Auths, CodeRec),
         IsMap(ps, Auths, PendingRec)
  PROVE  /\ Good(Fields(d, cs, ks, ps, as), m)
         /\ Fields(d, cs, ks, ps, as).clients = cs
         /\ Fields(d, cs, ks, ps, as).grants = d.grants
<1> DEFINE e == Fields(d, cs, ks, ps, as)
<1>1. e = [clients |-> cs, grants |-> d.grants, refreshIndex |-> d.refreshIndex,
           retiredIndex |-> d.retiredIndex, codes |-> ks, usedCodes |-> d.usedCodes,
           access |-> as, pending |-> ps]
  <2>1. e = [d EXCEPT !.clients = cs, !.codes = ks, !.pending = ps, !.access = as]
    BY DEF Fields
  <2> HIDE DEF e
  <2> QED BY <2>1 DEF Good, IsInner
<1> HIDE DEF e
<1>2. as \subseteq [grant : Grants, fp : Nat, user : Users, expires : Nat]
  BY DEF Good, IsInner
<1>3. IsInner(e)
  <2>1. /\ IsMap(d.grants, Grants, GrantRec)
        /\ d.refreshIndex \subseteq Nat \X Grants
        /\ d.retiredIndex \subseteq Nat \X Grants
        /\ d.usedCodes \subseteq [code : Auths, grant : Grants, until : Nat]
    BY DEF Good, IsInner
  <2> QED BY <1>1, <1>2, <2>1 DEF IsInner
<1>4. Good(e, m)
  BY <1>1, <1>3 DEF Good, Indexed
<1> QED BY <1>1, <1>4 DEF e

(* One field at a time.                                                    *)
LEMMA PendingGood ==
  ASSUME NEW m, NEW d, Good(d, m), NEW ps, IsMap(ps, Auths, PendingRec)
  PROVE  LET e == [d EXCEPT !.pending = ps]
         IN Good(e, m) /\ e.clients = d.clients /\ e.grants = d.grants
<1> DEFINE e == [d EXCEPT !.pending = ps]
<1>1. e = Fields(d, d.clients, d.codes, ps, d.access)
  BY DEF Fields, Good, IsInner
<1> HIDE DEF e
<1>2. IsMap(d.clients, Clients, ClientRec)
      /\ IsMap(d.codes, Auths, CodeRec)
  BY DEF Good, IsInner
<1>3. Good(Fields(d, d.clients, d.codes, ps, d.access), m)
      /\ Fields(d, d.clients, d.codes, ps, d.access).clients = d.clients
      /\ Fields(d, d.clients, d.codes, ps, d.access).grants = d.grants
  BY <1>2, FieldsGood
<1> QED BY <1>1, <1>3 DEF e

LEMMA CodesGood ==
  ASSUME NEW m, NEW d, Good(d, m), NEW ks,
         IsMap(ks, Auths, CodeRec)
  PROVE  LET e == [d EXCEPT !.codes = ks]
         IN Good(e, m) /\ e.clients = d.clients /\ e.grants = d.grants
<1> DEFINE e == [d EXCEPT !.codes = ks]
<1>1. e = Fields(d, d.clients, ks, d.pending, d.access)
  BY DEF Fields, Good, IsInner
<1> HIDE DEF e
<1>2. IsMap(d.clients, Clients, ClientRec)
      /\ IsMap(d.pending, Auths, PendingRec)
  BY DEF Good, IsInner
<1>3. Good(Fields(d, d.clients, ks, d.pending, d.access), m)
      /\ Fields(d, d.clients, ks, d.pending, d.access).clients = d.clients
      /\ Fields(d, d.clients, ks, d.pending, d.access).grants = d.grants
  BY <1>2, FieldsGood
<1> QED BY <1>1, <1>3 DEF e

LEMMA ClientsGood ==
  ASSUME NEW m, NEW d, Good(d, m), NEW cs, IsMap(cs, Clients, ClientRec)
  PROVE  LET e == [d EXCEPT !.clients = cs]
         IN Good(e, m) /\ e.clients = cs /\ e.grants = d.grants
<1> DEFINE e == [d EXCEPT !.clients = cs]
<1>1. e = Fields(d, cs, d.codes, d.pending, d.access)
  BY DEF Fields, Good, IsInner
<1> HIDE DEF e
<1>2. IsMap(d.codes, Auths, CodeRec)
      /\ IsMap(d.pending, Auths, PendingRec)
  BY DEF Good, IsInner
<1>3. Good(Fields(d, cs, d.codes, d.pending, d.access), m)
      /\ Fields(d, cs, d.codes, d.pending, d.access).clients = cs
      /\ Fields(d, cs, d.codes, d.pending, d.access).grants = d.grants
  BY <1>2, FieldsGood
<1> QED BY <1>1, <1>3 DEF e

LEMMA AccessGood ==
  ASSUME NEW m, NEW d, Good(d, m), NEW as \in SUBSET d.access
  PROVE  LET e == [d EXCEPT !.access = as]
         IN Good(e, m) /\ e.clients = d.clients /\ e.grants = d.grants
<1> DEFINE e == [d EXCEPT !.access = as]
<1>1. /\ e = [clients |-> d.clients, grants |-> d.grants, refreshIndex |-> d.refreshIndex,
              retiredIndex |-> d.retiredIndex, codes |-> d.codes, usedCodes |-> d.usedCodes,
              access |-> as, pending |-> d.pending]
      /\ as \subseteq [grant : Grants, fp : Nat, user : Users, expires : Nat]
  <2>1. as \subseteq [grant : Grants, fp : Nat, user : Users, expires : Nat]
    BY DEF Good, IsInner
  <2>2. e = [d EXCEPT !.access = as]
    OBVIOUS
  <2> HIDE DEF e
  <2>3. e = [clients |-> d.clients, grants |-> d.grants, refreshIndex |-> d.refreshIndex,
             retiredIndex |-> d.retiredIndex, codes |-> d.codes, usedCodes |-> d.usedCodes,
             access |-> as, pending |-> d.pending]
    BY <2>2 DEF Good, IsInner
  <2> QED BY <2>1, <2>3
<1> HIDE DEF e
<1>2. IsInner(e)
  BY <1>1 DEF Good, IsInner
<1>3. Good(e, m)
  BY <1>1, <1>2 DEF Good, Indexed
<1> QED BY <1>1, <1>3 DEF e

(* What every step but an exchange and a rotation does to the file.        *)
Shrinks == Agrees(disk'.grants, disk.grants)

(* A step in memory only, to a store with the same clients and grants as   *)
(* one that is backed.                                                     *)
LEMMA InMemory ==
  ASSUME NEW d, Backed(d, disk, now, unread), GoodFile(disk, minted), Good(mem', minted),
         mem'.clients = d.clients, mem'.grants = d.grants,
         UNCHANGED <<disk, unread, now, minted>>
  PROVE  StoreInv' /\ Shrinks
  BY DEF StoreInv, Backed, Shrinks, Agrees

LEMMA CommitShrinks ==
  ASSUME NEW live, NEW draft, NEW ok \in BOOLEAN, Commit(live, draft, ok),
         Backed(live, disk, now, unread), Agrees(draft.grants, live.grants)
  PROVE  Shrinks
<1>1. CASE ok
  <2>1. disk'.grants = draft.grants
    BY <1>1 DEF Commit, Snapshot
  <2> QED BY <2>1 DEF Backed, Agrees, Shrinks
<1>2. CASE ~ok
  BY <1>2 DEF Commit, Shrinks, Agrees
<1> QED BY <1>1, <1>2

LEMMA RevokedShrinks ==
  ASSUME StoreInv, now \in Nat, NEW S, NEW ok \in BOOLEAN,
         \/ Commit(mem, RemoveGrants(mem, S), ok)
         \/ Commit(Pruned, RemoveGrants(Pruned, S), ok)
  PROVE  Shrinks
<1>1. ASSUME NEW d, Good(d, minted)
      PROVE  Agrees(RemoveGrants(d, S).grants, d.grants)
  <2>1. RemoveGrants(d, S).grants = Without(d.grants, S)
    BY <1>1, RemoveFields DEF Good
  <2>2. Agrees(Without(d.grants, S), d.grants)
    BY WithoutFacts
  <2> QED BY <2>1, <2>2
<1>2. Good(mem, minted) /\ Backed(mem, disk, now, unread)
  BY DEF StoreInv
<1>3. Good(Pruned, minted) /\ Backed(Pruned, disk, now, unread)
  BY PrunedGood
<1>4. CASE Commit(mem, RemoveGrants(mem, S), ok)
  BY <1>1, <1>2, <1>4, CommitShrinks
<1>5. CASE Commit(Pruned, RemoveGrants(Pruned, S), ok)
  BY <1>1, <1>3, <1>5, CommitShrinks
<1> QED BY <1>4, <1>5

-----------------------------------------------------------------------------
(* The steps of the specification.                                         *)

LEMMA RequestShape ==
  ASSUME NEW r \in Requests
  PROVE  /\ r.phase = "consent" => r.auth \in Auths /\ r.user \in Users
         /\ r.phase = "approved" => r.auth \in Auths /\ r.user \in Users /\ r.client \in Clients
         /\ r.phase \in {"exchange", "create"} =>
              /\ r.auth \in Auths /\ r.client \in Clients /\ r.user \in Users
              /\ r.at \in Nat /\ r.seen \in Nat
              /\ r = [phase |-> r.phase, auth |-> r.auth, client |-> r.client, user |-> r.user,
                      at |-> r.at, seen |-> r.seen]
         /\ r.phase \in {"refresh", "rotate"} =>
              /\ r.grant \in Grants /\ r.cur \in Nat /\ r.fp \in Nat /\ r.user \in Users
              /\ r.at \in Nat /\ r.seen \in Nat
              /\ r = [phase |-> r.phase, grant |-> r.grant, cur |-> r.cur, fp |-> r.fp,
                      user |-> r.user, at |-> r.at, seen |-> r.seen]
         /\ r.phase \in {"use", "decide"} =>
              /\ r.grant \in Grants /\ r.fp \in Nat /\ r.user \in Users /\ r.seen \in Nat
              /\ r = [phase |-> r.phase, grant |-> r.grant, fp |-> r.fp, user |-> r.user,
                      seen |-> r.seen]
<1>1. CASE r = Idle
  BY <1>1 DEF Idle
<1>2. CASE r \in [phase : {"consent"}, auth : Auths, user : Users]
  BY <1>2
<1>3. CASE r \in [phase : {"approved"}, auth : Auths, user : Users, client : Clients]
  BY <1>3
<1>4. CASE r \in [phase : {"exchange", "create"}, auth : Auths, client : Clients, user : Users,
                  at : Nat, seen : Nat]
  BY <1>4
<1>5. CASE r \in [phase : {"refresh", "rotate"}, grant : Grants, cur : Nat, fp : Nat, user : Users,
                  at : Nat, seen : Nat]
  BY <1>5
<1>6. CASE r \in [phase : {"use", "decide"}, grant : Grants, fp : Nat, user : Users, seen : Nat]
  BY <1>6
<1> QED BY <1>1, <1>2, <1>3, <1>4, <1>5, <1>6 DEF Requests

(* The invariant: the types, the store, and every grant in the file is     *)
(* one that was opened.                                                    *)
Named == DOMAIN disk.grants \subseteq DOMAIN origin /\ DOMAIN origin \subseteq issued

IInv == TypeOK /\ StoreInv /\ Named

LEMMA StoreFacts ==
  ASSUME IInv
  PROVE  /\ Good(mem, minted) /\ GoodFile(disk, minted) /\ Backed(mem, disk, now, unread)
         /\ Good(Pruned, minted) /\ Backed(Pruned, disk, now, unread)
         /\ now \in Nat /\ minted \in Nat
         /\ DOMAIN Pruned.grants \subseteq DOMAIN mem.grants
         /\ DOMAIN mem.grants \subseteq DOMAIN disk.grants
<1>1. StoreInv /\ now \in Nat /\ minted \in Nat
  BY DEF IInv, TypeOK
<1>2. Good(Pruned, minted) /\ Backed(Pruned, disk, now, unread) /\ Prunes(Pruned, mem, now)
  BY <1>1, PrunedGood
<1>3. DOMAIN Pruned.grants \subseteq DOMAIN mem.grants
  <2>1. Pruned.grants = Without(mem.grants, Lapsed(mem, now))
    BY <1>2 DEF Prunes
  <2> QED BY <2>1 DEF Without, Restrict
<1>4. DOMAIN mem.grants \subseteq DOMAIN disk.grants
  BY <1>1 DEF StoreInv, Backed, Agrees
<1> QED BY <1>1, <1>2, <1>3, <1>4 DEF StoreInv

LEMMA ConsentSteps ==
  ASSUME IInv, NEW q \in Reqs, NEW ok \in BOOLEAN, ConsentStep(q, ok)
  PROVE  StoreInv' /\ Shrinks
<1>1. /\ Good(Pruned, minted) /\ Backed(Pruned, disk, now, unread) /\ GoodFile(disk, minted)
      /\ now \in Nat /\ minted \in Nat
      /\ req[q] \in Requests
  BY StoreFacts DEF IInv, TypeOK
<1>2. ASSUME NEW a \in Auths, NEW u \in Users, ConsentPosted(q, a, u) PROVE StoreInv' /\ Shrinks
  <2>1. mem' = Pruned /\ UNCHANGED <<disk, unread, now, minted>>
    BY <1>2 DEF ConsentPosted
  <2> QED BY <1>1, <2>1, InMemory
<1>3. CASE ConsentTaken(q)
  <2> DEFINE ps == Without(Pruned.pending, {req[q].auth})
  <2>1. mem' = [Pruned EXCEPT !.pending = ps] /\ UNCHANGED <<disk, unread, now, minted>>
    BY <1>3 DEF ConsentTaken
  <2>2. IsMap(ps, Auths, PendingRec)
    <3>1. IsMap(Pruned.pending, Auths, PendingRec)
      BY <1>1 DEF Good, IsInner
    <3> QED BY <3>1, WithoutIsMap
  <2> HIDE DEF ps
  <2>3. Good(mem', minted) /\ mem'.clients = Pruned.clients /\ mem'.grants = Pruned.grants
    BY <1>1, <2>1, <2>2, PendingGood
  <2> QED BY <1>1, <2>1, <2>3, InMemory
<1>4. CASE IssueCode(q, ok)
  <2> DEFINE r == req[q]
             code == [client |-> r.client, user |-> r.user, expires |-> now + CodeTtl]
             cs == IF r.client \in DOMAIN Pruned.clients
                   THEN [Pruned.clients EXCEPT ![r.client].approved = TRUE] ELSE Pruned.clients
             ks == With(Pruned.codes, r.auth, code)
             draft == [Pruned EXCEPT !.clients = cs, !.codes = ks]
  <2>1. Commit(Pruned, draft, ok) /\ UNCHANGED <<now, minted>>
    BY <1>4 DEF IssueCode
  <2>2. r.auth \in Auths /\ code \in CodeRec
    BY <1>1, <1>4, RequestShape, TimesAssumption DEF IssueCode, CodeRec
  <2>3. /\ IsMap(Pruned.clients, Clients, ClientRec) /\ IsMap(Pruned.codes, Auths, CodeRec)
        /\ IsMap(Pruned.pending, Auths, PendingRec)
    BY <1>1 DEF Good, IsInner
  <2>4. IsMap(ks, Auths, CodeRec)
    BY <2>2, <2>3, WithIsMap
  <2>5. IsMap(cs, Clients, ClientRec)
    BY <2>3 DEF IsMap, ClientRec
  <2> HIDE DEF cs, ks
  <2>6. draft = Fields(Pruned, cs, ks, Pruned.pending, Pruned.access)
    BY <1>1 DEF Fields, Good, IsInner
  <2> HIDE DEF draft
  <2>7. Good(draft, minted) /\ draft.grants = Pruned.grants
    BY <1>1, <2>3, <2>4, <2>5, <2>6, FieldsGood
  <2>8. StoreInv'
    BY <1>1, <2>1, <2>7, Committed
  <2>9. Agrees(draft.grants, Pruned.grants)
    BY <2>7 DEF Agrees
  <2> QED BY <1>1, <2>1, <2>8, <2>9, CommitShrinks
<1> QED BY <1>2, <1>3, <1>4 DEF ConsentStep

LEMMA TokenSteps ==
  ASSUME IInv, NEW q \in Reqs, NEW ok \in BOOLEAN,
         \/ \E a \in Auths, c \in Clients : ExchangeLookup(q, a, c)
         \/ \E tok \in 1 .. minted, c \in Clients : RefreshLookup(q, tok, c)
         \/ RefreshStale(q, ok)
         \/ \E seen \in 0 .. MaxFp : Authority(q, seen)
         \/ Refuse(q)
  PROVE  StoreInv' /\ Shrinks
<1>1. /\ Good(mem, minted) /\ Backed(mem, disk, now, unread)
      /\ Good(Pruned, minted) /\ Backed(Pruned, disk, now, unread) /\ GoodFile(disk, minted)
      /\ now \in Nat /\ minted \in Nat /\ StoreInv
  BY StoreFacts DEF IInv, TypeOK
<1>2. ASSUME NEW a \in Auths, NEW c \in Clients, ExchangeLookup(q, a, c) PROVE StoreInv' /\ Shrinks
  <2> DEFINE ks == Without(Pruned.codes, {a})
  <2>1. mem' = [Pruned EXCEPT !.codes = ks] /\ UNCHANGED <<disk, unread, now, minted>>
    BY <1>2 DEF ExchangeLookup
  <2>2. IsMap(ks, Auths, CodeRec)
    <3>1. IsMap(Pruned.codes, Auths, CodeRec)
      BY <1>1 DEF Good, IsInner
    <3> QED BY <3>1, WithoutIsMap
  <2> HIDE DEF ks
  <2>3. Good(mem', minted) /\ mem'.clients = Pruned.clients /\ mem'.grants = Pruned.grants
    BY <1>1, <2>1, <2>2, CodesGood
  <2> QED BY <1>1, <2>1, <2>3, InMemory
<1>3. ASSUME NEW tok \in 1 .. minted, NEW c \in Clients, RefreshLookup(q, tok, c)
      PROVE  StoreInv' /\ Shrinks
  <2>1. mem' = Pruned /\ UNCHANGED <<disk, unread, now, minted>>
    BY <1>3 DEF RefreshLookup
  <2> QED BY <1>1, <2>1, InMemory
<1>4. CASE RefreshStale(q, ok)
  <2>1. Commit(mem, RemoveGrants(mem, {req[q].grant}), ok) /\ UNCHANGED <<now, minted>>
    BY <1>4 DEF RefreshStale
  <2> QED BY <1>1, <2>1, Revoked, RevokedShrinks
<1>5. ASSUME NEW seen \in 0 .. MaxFp, Authority(q, seen) PROVE StoreInv' /\ Shrinks
  <2>1. UNCHANGED <<mem, disk, unread, now, minted>>
    BY <1>5 DEF Authority
  <2> QED BY <1>1, <2>1, InMemory
<1>6. CASE Refuse(q)
  <2>1. UNCHANGED <<mem, disk, unread, now, minted>>
    BY <1>6 DEF Refuse
  <2> QED BY <1>1, <2>1, InMemory
<1> QED BY <1>2, <1>3, <1>4, <1>5, <1>6

LEMMA UseSteps ==
  ASSUME IInv, NEW q \in Reqs, NEW ok \in BOOLEAN, UseStep(q, ok)
  PROVE  StoreInv' /\ Shrinks
<1>1. /\ Good(mem, minted) /\ Backed(mem, disk, now, unread) /\ GoodFile(disk, minted)
      /\ now \in Nat /\ minted \in Nat /\ StoreInv
  BY StoreFacts DEF IInv, TypeOK
<1>2. ASSUME NEW a \in mem.access, UseLookup(q, a) PROVE StoreInv' /\ Shrinks
  <2>1. UNCHANGED <<disk, unread, now, minted>>
    BY <1>2 DEF UseLookup
  <2>2. CASE UNCHANGED mem
    BY <1>1, <2>1, <2>2, InMemory
  <2>3. CASE mem' = [mem EXCEPT !.access = @ \ {a}]
    <3> DEFINE as == mem.access \ {a}
    <3>1. as \in SUBSET mem.access /\ mem' = [mem EXCEPT !.access = as]
      BY <2>3
    <3> HIDE DEF as
    <3>2. Good(mem', minted) /\ mem'.clients = mem.clients /\ mem'.grants = mem.grants
      BY <1>1, <3>1, AccessGood
    <3> QED BY <1>1, <2>1, <3>2, InMemory
  <2> QED BY <1>2, <2>2, <2>3 DEF UseLookup
<1>3. CASE UseServed(q)
  <2>1. UNCHANGED <<mem, disk, unread, now, minted>>
    BY <1>3 DEF UseServed
  <2> QED BY <1>1, <2>1, InMemory
<1>4. CASE UseStale(q, ok)
  <2>1. UNCHANGED <<now, minted>>
    BY <1>4 DEF UseStale
  <2>2. CASE Commit(mem, RemoveGrants(mem, {req[q].grant}), ok)
    BY <1>1, <2>1, <2>2, Revoked, RevokedShrinks
  <2>3. CASE UNCHANGED <<mem, disk, unread>>
    BY <1>1, <2>1, <2>3, InMemory
  <2> QED BY <1>4, <2>2, <2>3 DEF UseStale
<1> QED BY <1>2, <1>3, <1>4 DEF UseStep

(* Tick: what is out of date stays so.                                     *)
LEMMA LaterBacked ==
  ASSUME NEW d, NEW file, NEW t \in Nat, NEW u, IsFile(file), Backed(d, file, t, u)
  PROVE  Backed(d, file, t + 1, u)
<1>1. \A g \in DOMAIN file.grants : file.grants[g].expires \in Nat
  BY DEF IsFile, IsMap, GrantRec
<1>2. \A c \in DOMAIN file.clients : file.clients[c].created + ClientTtl \in Nat
  BY TimesAssumption DEF IsFile, IsMap, ClientRec
<1> QED BY <1>1, <1>2 DEF Backed

LEMMA WorldSteps ==
  ASSUME IInv, World
  PROVE  StoreInv' /\ Shrinks
<1>1. /\ Good(mem, minted) /\ Backed(mem, disk, now, unread) /\ GoodFile(disk, minted)
      /\ now \in Nat /\ minted \in Nat /\ StoreInv
  BY StoreFacts DEF IInv, TypeOK
<1>2. ASSUME NEW u \in Users, NEW fp \in 0 .. MaxFp, ChangeAccount(u, fp) PROVE StoreInv' /\ Shrinks
  <2>1. UNCHANGED <<mem, disk, unread, now, minted>>
    BY <1>2 DEF ChangeAccount
  <2> QED BY <1>1, <2>1, InMemory
<1>3. ASSUME NEW load \in {"read", "corrupt", "unread"}, Restart(load) PROVE StoreInv' /\ Shrinks
  <2>1. UNCHANGED <<now, minted>>
    BY <1>3 DEF Restart
  <2>2. GoodFile(disk', minted) /\ Shrinks
    <3>1. CASE disk' = disk
      BY <1>1, <3>1 DEF Shrinks, Agrees
    <3>2. CASE disk' = [clients |-> Empty, grants |-> Empty]
      <4>1. DOMAIN disk'.grants = {}
        BY <3>2, EmptyIsMap
      <4> QED BY <3>2, <4>1, EmptyFileGood DEF Shrinks, Agrees
    <3> QED BY <1>3, <3>1, <3>2 DEF Restart
  <2>3. CASE load # "unread"
    <3>1. Good(Load(disk'), minted) /\ Backed(Load(disk'), disk', now, unread')
      BY <2>2, LoadGood
    <3>2. mem' = Load(disk')
      BY <1>3, <2>3 DEF Restart
    <3> QED BY <2>1, <2>2, <3>1, <3>2 DEF StoreInv
  <2>4. CASE load = "unread"
    <3>1. mem' = EmptyInner /\ unread' = TRUE
      BY <1>3, <2>4 DEF Restart
    <3>2. Good(mem', minted)
      BY <3>1, EmptyFileGood
    <3>3. Backed(mem', disk', now, TRUE)
      <4>1. mem'.clients = Empty /\ mem'.grants = Empty
        BY <3>1 DEF EmptyInner
      <4> QED BY <4>1, EmptyIsMap DEF Backed, Agrees
    <3> QED BY <2>1, <2>2, <3>1, <3>2, <3>3 DEF StoreInv
  <2> QED BY <2>3, <2>4
<1>4. CASE Tick
  <2>1. now' = now + 1 /\ UNCHANGED <<mem, disk, unread, minted>>
    BY <1>4 DEF Tick
  <2>2. Backed(mem, disk, now + 1, unread)
    BY <1>1, LaterBacked DEF GoodFile
  <2> QED BY <1>1, <2>1, <2>2 DEF StoreInv, Shrinks, Agrees
<1> QED BY <1>2, <1>3, <1>4 DEF World

LEMMA StoreSteps ==
  ASSUME IInv, NEW ok \in BOOLEAN, StoreStep(ok)
  PROVE  StoreInv' /\ Shrinks
<1>1. /\ Good(mem, minted) /\ Backed(mem, disk, now, unread)
      /\ Good(Pruned, minted) /\ Backed(Pruned, disk, now, unread) /\ GoodFile(disk, minted)
      /\ now \in Nat /\ minted \in Nat /\ StoreInv
  BY StoreFacts DEF IInv, TypeOK
<1>2. ASSUME NEW c \in Clients, RegisterClient(c, ok) PROVE StoreInv' /\ Shrinks
  <2> DEFINE client == [approved |-> FALSE, created |-> now]
  <2>1. PICK S : Commit(Pruned, [Pruned EXCEPT !.clients = With(Without(@, S), c, client)], ok)
    <3>1. CASE Commit(Pruned, [Pruned EXCEPT !.clients = With(@, c, client)], ok)
      <4>1. Pruned.clients = Without(Pruned.clients, {})
        BY <1>1 DEF Good, IsInner, IsMap, Without, Restrict
      <4> QED BY <3>1, <4>1
    <3>2. CASE \E v \in Evictable(Pruned) :
                 Commit(Pruned, [Pruned EXCEPT !.clients = With(Without(@, {v}), c, client)], ok)
      BY <3>2
    <3> QED BY <1>2, <3>1, <3>2 DEF RegisterClient
  <2> DEFINE cs == With(Without(Pruned.clients, S), c, client)
             draft == [Pruned EXCEPT !.clients = cs]
  <2>2. Commit(Pruned, draft, ok) /\ UNCHANGED <<now, minted>>
    BY <2>1, <1>2 DEF RegisterClient
  <2>3. IsMap(cs, Clients, ClientRec)
    <3>1. IsMap(Pruned.clients, Clients, ClientRec) /\ client \in ClientRec
      BY <1>1 DEF Good, IsInner, ClientRec
    <3>2. IsMap(Without(Pruned.clients, S), Clients, ClientRec)
      BY <3>1, WithoutIsMap
    <3> HIDE DEF client
    <3> QED BY <3>1, <3>2, WithIsMap
  <2> HIDE DEF cs
  <2>4. Good(draft, minted) /\ draft.grants = Pruned.grants
    BY <1>1, <2>3, ClientsGood
  <2> HIDE DEF draft
  <2>5. StoreInv'
    BY <1>1, <2>2, <2>4, Committed
  <2>6. Agrees(draft.grants, Pruned.grants)
    BY <2>4 DEF Agrees
  <2> QED BY <1>1, <2>2, <2>5, <2>6, CommitShrinks
<1>3. ASSUME NEW c \in Clients, DeleteClient(c, ok) PROVE StoreInv' /\ Shrinks
  <2> DEFINE cs == Without(mem.clients, {c})
             S == {g \in DOMAIN mem.grants : mem.grants[g].client = c}
             e == [mem EXCEPT !.clients = cs]
             draft == RemoveGrants(e, S)
  <2>1. Commit(mem, draft, ok) /\ UNCHANGED <<now, minted>>
    BY <1>3 DEF DeleteClient
  <2>2. IsMap(cs, Clients, ClientRec)
    <3>1. IsMap(mem.clients, Clients, ClientRec)
      BY <1>1 DEF Good, IsInner
    <3> QED BY <3>1, WithoutIsMap
  <2> HIDE DEF cs
  <2>3. Good(e, minted) /\ e.grants = mem.grants
    BY <1>1, <2>2, ClientsGood
  <2> HIDE DEF e, S
  <2>4. Good(draft, minted)
    BY <2>3, RemoveGood
  <2>5. draft.grants = Without(mem.grants, S)
    BY <2>3, RemoveFields DEF Good
  <2> HIDE DEF draft
  <2>6. Agrees(draft.grants, mem.grants)
    BY <2>5 DEF Without, Restrict, Agrees
  <2>7. StoreInv'
    BY <1>1, <2>1, <2>4, Committed
  <2> QED BY <1>1, <2>1, <2>6, <2>7, CommitShrinks
<1>4. ASSUME NEW a \in Auths, NEW c \in Clients, BeginPending(a, c) PROVE StoreInv' /\ Shrinks
  <2> DEFINE rec == [client |-> c, created |-> now]
             ps == With(Pruned.pending, a, rec)
  <2>1. mem' = [Pruned EXCEPT !.pending = ps] /\ UNCHANGED <<disk, unread, now, minted>>
    BY <1>4 DEF BeginPending
  <2>2. IsMap(ps, Auths, PendingRec)
    <3>1. IsMap(Pruned.pending, Auths, PendingRec) /\ rec \in PendingRec
      BY <1>1 DEF Good, IsInner, PendingRec
    <3> HIDE DEF rec
    <3> QED BY <3>1, WithIsMap
  <2> HIDE DEF ps
  <2>3. Good(mem', minted) /\ mem'.clients = Pruned.clients /\ mem'.grants = Pruned.grants
    BY <1>1, <2>1, <2>2, PendingGood
  <2> QED BY <1>1, <2>1, <2>3, InMemory
<1>5. ASSUME NEW a \in Auths, ConsentDenied(a) PROVE StoreInv' /\ Shrinks
  <2> DEFINE ps == Without(Pruned.pending, {a})
  <2>1. mem' = [Pruned EXCEPT !.pending = ps] /\ UNCHANGED <<disk, unread, now, minted>>
    BY <1>5 DEF ConsentDenied
  <2>2. IsMap(ps, Auths, PendingRec)
    <3>1. IsMap(Pruned.pending, Auths, PendingRec)
      BY <1>1 DEF Good, IsInner
    <3> QED BY <3>1, WithoutIsMap
  <2> HIDE DEF ps
  <2>3. Good(mem', minted) /\ mem'.clients = Pruned.clients /\ mem'.grants = Pruned.grants
    BY <1>1, <2>1, <2>2, PendingGood
  <2> QED BY <1>1, <2>1, <2>3, InMemory
<1>6. ASSUME NEW a \in Auths, ExchangeReplay(a, ok) PROVE StoreInv' /\ Shrinks
  <2>1. PICK S : Commit(Pruned, RemoveGrants(Pruned, S), ok)
    BY <1>6 DEF ExchangeReplay
  <2>2. UNCHANGED <<now, minted>>
    BY <1>6 DEF ExchangeReplay
  <2> QED BY <1>1, <2>1, <2>2, Revoked, RevokedShrinks
<1>7. ASSUME NEW tok \in 1 .. minted, RefreshReplay(tok, ok) PROVE StoreInv' /\ Shrinks
  <2>1. PICK S : Commit(Pruned, RemoveGrants(Pruned, S), ok)
    BY <1>7 DEF RefreshReplay
  <2>2. UNCHANGED <<now, minted>>
    BY <1>7 DEF RefreshReplay
  <2> QED BY <1>1, <2>1, <2>2, Revoked, RevokedShrinks
<1>8. ASSUME NEW g \in Grants, RevokeToken(g, ok) \/ RevokeGrant(g, ok) PROVE StoreInv' /\ Shrinks
  <2>1. Commit(mem, RemoveGrants(mem, {g}), ok) /\ UNCHANGED <<now, minted>>
    BY <1>8 DEF RevokeToken, RevokeGrant
  <2> QED BY <1>1, <2>1, Revoked, RevokedShrinks
<1>9. CASE RevokeAll(ok)
  <2>1. Commit(mem, RemoveGrants(mem, DOMAIN mem.grants), ok) /\ UNCHANGED <<now, minted>>
    BY <1>9 DEF RevokeAll
  <2> QED BY <1>1, <2>1, Revoked, RevokedShrinks
<1>10. ASSUME NEW u \in Users, RevokeUser(u, ok) PROVE StoreInv' /\ Shrinks
  <2> DEFINE S == {g \in DOMAIN mem.grants : mem.grants[g].user = u}
  <2>1. UNCHANGED <<now, minted>>
    BY <1>10 DEF RevokeUser
  <2>2. UNCHANGED <<mem, disk, unread>> \/ Commit(mem, RemoveGrants(mem, S), ok)
    BY <1>10 DEF RevokeUser
  <2> HIDE DEF S
  <2>3. CASE UNCHANGED <<mem, disk, unread>>
    BY <1>1, <2>1, <2>3, InMemory
  <2>4. CASE Commit(mem, RemoveGrants(mem, S), ok)
    BY <1>1, <2>1, <2>4, Revoked, RevokedShrinks
  <2> QED BY <2>2, <2>3, <2>4
<1>11. CASE List
  <2>1. mem' = Pruned /\ UNCHANGED <<disk, unread, now, minted>>
    BY <1>11 DEF List
  <2> QED BY <1>1, <2>1, InMemory
<1> QED BY <1>2, <1>3, <1>4, <1>5, <1>6, <1>7, <1>8, <1>9, <1>10, <1>11 DEF StoreStep

(* What the two other steps do to the file.                                *)
Others(g) ==
  \A h \in DOMAIN disk'.grants \ {g} :
    h \in DOMAIN disk.grants /\ disk'.grants[h] = disk.grants[h]

Opens(g) ==
  /\ g \in Grants /\ g \notin issued
  /\ g \in DOMAIN disk'.grants /\ disk'.grants[g].cur = minted + 1 /\ Others(g)
  /\ DOMAIN origin' = DOMAIN origin \cup {g} /\ issued' = issued \cup {g}

Renews(g) ==
  /\ g \in DOMAIN disk.grants
  /\ g \in DOMAIN disk'.grants /\ disk'.grants[g].cur = minted + 1 /\ Others(g)
  /\ UNCHANGED <<origin, issued>>

LEMMA CreateStep ==
  ASSUME IInv, NEW q \in Reqs, NEW ok \in BOOLEAN, NEW g \in Grants, ExchangeCreate(q, g, ok)
  PROVE  StoreInv' /\ (Opens(g) \/ (Shrinks /\ UNCHANGED <<origin, issued>>))
<1>1. /\ Good(mem, minted) /\ Backed(mem, disk, now, unread) /\ GoodFile(disk, minted)
      /\ now \in Nat /\ minted \in Nat /\ DOMAIN mem.grants \subseteq DOMAIN disk.grants
      /\ req[q] \in Requests /\ IsMap(origin, Grants, Auths)
      /\ DOMAIN disk.grants \subseteq DOMAIN origin /\ DOMAIN origin \subseteq issued
  BY StoreFacts DEF IInv, TypeOK, Named
<1> DEFINE r == req[q]
           grant == [client |-> r.client, user |-> r.user, fp |-> r.seen, cur |-> minted + 1,
                     retired |-> << >>, rotated |-> r.at, created |-> r.at,
                     expires |-> r.at + RefreshTtl]
           used == [code |-> r.auth, grant |-> g, until |-> r.at + UsedMemory]
           draft == Opened(mem, g, grant, used, r.at)
<1>2. /\ Commit(mem, draft, ok)
      /\ origin' = IF ok THEN With(origin, g, r.auth) ELSE origin
      /\ minted' = IF ok THEN minted + 1 ELSE minted
      /\ issued' = IF ok THEN issued \cup {g} ELSE issued
      /\ g \notin issued
      /\ now' = now
  BY DEF ExchangeCreate, Opened, Fresh
<1>3. r.auth \in Auths /\ r.client \in Clients /\ r.user \in Users /\ r.at \in Nat /\ r.seen \in Nat
  BY <1>1, RequestShape DEF ExchangeCreate
<1>4. /\ grant \in GrantRec /\ grant.cur = minted + 1 /\ grant.retired = << >>
      /\ used \in [code : Auths, grant : Grants, until : Nat]
  BY <1>1, <1>3, TimesAssumption DEF GrantRec
<1>5. g \notin DOMAIN mem.grants
  BY <1>1, <1>2
<1> HIDE DEF grant, used, r
<1>6. Good(draft, minted + 1)
  BY <1>1, <1>3, <1>4, <1>5, OpenedGood
<1>7. draft.grants = With(mem.grants, g, grant)
  BY <1>1 DEF Opened, IssueAccess, Good, IsInner
<1> HIDE DEF draft
<1>8. CASE ok
  <2>1. Good(mem, minted') /\ Good(draft, minted') /\ GoodFile(disk, minted')
    <3>1. minted' = minted + 1 /\ minted + 1 \in Nat /\ minted + 1 >= minted
      BY <1>1, <1>2, <1>8
    <3> QED BY <1>1, <1>6, <3>1, MoreMinted
  <2>2. StoreInv'
    BY <1>1, <1>2, <2>1, Committed
  <2>3. disk'.grants = With(mem.grants, g, grant)
    BY <1>2, <1>7, <1>8 DEF Commit, Snapshot
  <2>4. /\ g \in DOMAIN disk'.grants /\ disk'.grants[g] = grant
        /\ \A h \in DOMAIN disk'.grants \ {g} :
             h \in DOMAIN mem.grants /\ disk'.grants[h] = mem.grants[h]
    BY <2>3 DEF With
  <2>5. Others(g)
    BY <1>1, <2>4 DEF Others, Backed, Agrees
  <2>6. DOMAIN origin' = DOMAIN origin \cup {g} /\ issued' = issued \cup {g}
    BY <1>2, <1>8 DEF With
  <2> QED BY <1>2, <1>4, <2>2, <2>4, <2>5, <2>6 DEF Opens
<1>9. CASE ~ok
  <2>1. UNCHANGED <<mem, disk, unread, origin, minted, issued, now>>
    BY <1>2, <1>9 DEF Commit
  <2> QED BY <1>1, <2>1, InMemory
<1> QED BY <1>8, <1>9

LEMMA RotateStep ==
  ASSUME IInv, NEW q \in Reqs, NEW ok \in BOOLEAN, RefreshRotate(q, ok)
  PROVE  StoreInv' /\ (Renews(req[q].grant) \/ (Shrinks /\ UNCHANGED <<origin, issued>>))
<1>1. /\ Good(mem, minted) /\ Backed(mem, disk, now, unread) /\ GoodFile(disk, minted)
      /\ now \in Nat /\ minted \in Nat /\ DOMAIN mem.grants \subseteq DOMAIN disk.grants
      /\ req[q] \in Requests
  BY StoreFacts DEF IInv, TypeOK
<1> DEFINE r == req[q]
           g == r.grant
           draft == Rotation(mem, g, minted + 1, r.at)
<1>2. /\ Commit(mem, draft, ok) /\ g \in DOMAIN mem.grants
      /\ minted' = IF ok THEN minted + 1 ELSE minted
      /\ UNCHANGED <<origin, issued, now>>
  BY DEF RefreshRotate
<1>3. r.at \in Nat
  BY <1>1, RequestShape DEF RefreshRotate
<1>4. /\ Good(draft, minted + 1)
      /\ DOMAIN draft.grants = DOMAIN mem.grants
      /\ draft.grants[g].cur = minted + 1
      /\ \A h \in DOMAIN mem.grants \ {g} : draft.grants[h] = mem.grants[h]
  <2>1. Good(mem, minted) /\ minted \in Nat /\ g \in DOMAIN mem.grants /\ r.at \in Nat
    BY <1>1, <1>2, <1>3
  <2> HIDE DEF g, r
  <2> QED BY <2>1, RotationGood, SMTT(40)
<1> HIDE DEF draft, g
<1>5. CASE ok
  <2>1. Good(mem, minted') /\ Good(draft, minted') /\ GoodFile(disk, minted')
    <3>1. minted' = minted + 1 /\ minted + 1 \in Nat /\ minted + 1 >= minted
      BY <1>1, <1>2, <1>5
    <3> QED BY <1>1, <1>4, <3>1, MoreMinted
  <2>2. StoreInv'
    BY <1>1, <1>2, <2>1, Committed
  <2>3. disk'.grants = draft.grants
    BY <1>2, <1>5 DEF Commit, Snapshot
  <2>4. Others(g)
    BY <1>1, <1>4, <2>3 DEF Others, Backed, Agrees
  <2>5. Renews(g)
    BY <1>1, <1>2, <1>4, <2>3, <2>4 DEF Renews
  <2> QED BY <2>2, <2>5 DEF g
<1>6. CASE ~ok
  <2>1. UNCHANGED <<mem, disk, unread, origin, minted, issued, now>>
    BY <1>2, <1>6 DEF Commit
  <2> QED BY <1>1, <2>1, InMemory
<1> QED BY <1>5, <1>6

(* Every step keeps the store in good order, and changes the file in one   *)
(* of three ways.                                                          *)
LEMMA FileSteps ==
  ASSUME IInv, [Next]_vars
  PROVE  /\ StoreInv'
         /\ \/ Shrinks /\ origin' = origin /\ issued \subseteq issued'
            \/ \E g \in Grants : Opens(g)
            \/ \E g \in Grants : Renews(g)
<1>1. \A g \in DOMAIN disk.grants : g \in Grants
  BY DEF IInv, TypeOK, IsFile, IsMap
<1>2. ASSUME NEW q \in Reqs, NEW ok \in BOOLEAN, ConsentStep(q, ok)
      PROVE  StoreInv' /\ Shrinks /\ origin' = origin /\ issued \subseteq issued'
  <2>1. UNCHANGED <<origin, issued>>
    BY <1>2 DEF ConsentStep, ConsentPosted, ConsentTaken, IssueCode
  <2> QED BY <1>2, <2>1, ConsentSteps
<1>3. ASSUME NEW q \in Reqs, NEW ok \in BOOLEAN, UseStep(q, ok)
      PROVE  StoreInv' /\ Shrinks /\ origin' = origin /\ issued \subseteq issued'
  <2>1. UNCHANGED <<origin, issued>>
    BY <1>3 DEF UseStep, UseLookup, UseServed, UseStale
  <2> QED BY <1>3, <2>1, UseSteps
<1>4. ASSUME NEW q \in Reqs, NEW ok \in BOOLEAN, NEW g \in Grants, ExchangeCreate(q, g, ok)
      PROVE  StoreInv' /\ ((Shrinks /\ origin' = origin /\ issued \subseteq issued') \/ Opens(g))
  BY <1>4, CreateStep
<1>5. ASSUME NEW q \in Reqs, NEW ok \in BOOLEAN, RefreshRotate(q, ok)
      PROVE  /\ StoreInv'
             /\ \/ Shrinks /\ origin' = origin /\ issued \subseteq issued'
                \/ \E g \in Grants : Renews(g)
  BY <1>1, <1>5, RotateStep DEF Renews
<1>6. ASSUME NEW q \in Reqs, NEW ok \in BOOLEAN,
             \/ \E a \in Auths, c \in Clients : ExchangeLookup(q, a, c)
             \/ \E tok \in 1 .. minted, c \in Clients : RefreshLookup(q, tok, c)
             \/ RefreshStale(q, ok)
             \/ \E seen \in 0 .. MaxFp : Authority(q, seen)
             \/ Refuse(q)
      PROVE  StoreInv' /\ Shrinks /\ origin' = origin /\ issued \subseteq issued'
  <2>1. UNCHANGED <<origin, issued>>
    BY <1>6 DEF ExchangeLookup, RefreshLookup, RefreshStale, Authority, Refuse
  <2> QED BY <1>6, <2>1, TokenSteps
<1>7. ASSUME NEW ok \in BOOLEAN, StoreStep(ok)
      PROVE  StoreInv' /\ Shrinks /\ origin' = origin /\ issued \subseteq issued'
  <2>1. origin' = origin /\ issued \subseteq issued'
    BY <1>7 DEF StoreStep, RegisterClient, DeleteClient, BeginPending, ConsentDenied, ExchangeReplay,
                RefreshReplay, RevokeToken, RevokeGrant, RevokeAll, RevokeUser, List
  <2> QED BY <1>7, <2>1, StoreSteps
<1>8. CASE World
  <2>1. UNCHANGED <<origin, issued>>
    BY <1>8 DEF World, ChangeAccount, Restart, Tick
  <2> QED BY <1>8, <2>1, WorldSteps
<1>9. CASE UNCHANGED vars
  <2>1. UNCHANGED <<mem, disk, unread, now, minted, origin, issued>>
    BY <1>9 DEF vars
  <2>2. /\ Good(mem, minted) /\ Backed(mem, disk, now, unread) /\ GoodFile(disk, minted)
    BY DEF IInv, StoreInv
  <2> QED BY <2>1, <2>2, InMemory
<1>10. ASSUME NEW q \in Reqs, NEW ok \in BOOLEAN, TokenStep(q, ok)
       PROVE  /\ StoreInv'
              /\ \/ Shrinks /\ origin' = origin /\ issued \subseteq issued'
                 \/ \E g \in Grants : Opens(g)
                 \/ \E g \in Grants : Renews(g)
  <2>1. CASE \E g \in Grants : ExchangeCreate(q, g, ok)
    BY <2>1, <1>4
  <2>2. CASE RefreshRotate(q, ok)
    BY <2>2, <1>5
  <2>3. CASE \/ \E a \in Auths, c \in Clients : ExchangeLookup(q, a, c)
             \/ \E tok \in 1 .. minted, c \in Clients : RefreshLookup(q, tok, c)
             \/ RefreshStale(q, ok)
             \/ \E seen \in 0 .. MaxFp : Authority(q, seen)
             \/ Refuse(q)
    BY <2>3, <1>6
  <2> QED BY <1>10, <2>1, <2>2, <2>3 DEF TokenStep
<1>11. CASE \E q \in Reqs, ok \in BOOLEAN : ConsentStep(q, ok) \/ TokenStep(q, ok) \/ UseStep(q, ok)
  BY <1>2, <1>3, <1>10, <1>11
<1>12. CASE \E ok \in BOOLEAN : StoreStep(ok)
  BY <1>7, <1>12
<1> QED BY <1>8, <1>9, <1>11, <1>12 DEF Next

-----------------------------------------------------------------------------
(* The variables that are not the store.                                   *)

Outside ==
  /\ req \in [Reqs -> Requests]
  /\ account \in [Users -> Nat]
  /\ cutOff \subseteq Users
  /\ now \in Nat
  /\ minted \in Nat
  /\ issued \subseteq Clients \cup Auths \cup Grants
  /\ IsMap(origin, Grants, Auths)

LEMMA IdleRequest == Idle \in Requests
  BY DEF Requests

LEMMA ConsentTypes ==
  ASSUME IInv, NEW q \in Reqs, NEW ok \in BOOLEAN, ConsentStep(q, ok)
  PROVE  Outside'
<1>1. Outside /\ Good(Pruned, minted) /\ req[q] \in Requests
  BY StoreFacts DEF IInv, TypeOK, Outside
<1>2. UNCHANGED <<account, cutOff, now, minted, issued, origin>>
  BY DEF ConsentStep, ConsentPosted, ConsentTaken, IssueCode
<1>3. req' \in [Reqs -> Requests]
  <2>1. ASSUME NEW a \in Auths, NEW u \in Users, ConsentPosted(q, a, u)
        PROVE  req' \in [Reqs -> Requests]
    <3>1. [phase |-> "consent", auth |-> a, user |-> u] \in Requests
      BY DEF Requests
    <3> QED BY <1>1, <2>1, <3>1 DEF ConsentPosted, Outside
  <2>2. CASE ConsentTaken(q)
    <3> DEFINE a == req[q].auth
               r == [phase |-> "approved", auth |-> a, user |-> req[q].user,
                     client |-> Pruned.pending[a].client]
    <3>1. ASSUME a \in DOMAIN Pruned.pending PROVE r \in Requests
      <4>1. a \in Auths /\ req[q].user \in Users
        BY <1>1, <2>2, RequestShape DEF ConsentTaken
      <4>2. Pruned.pending[a].client \in Clients
        BY <1>1, <3>1 DEF Good, IsInner, IsMap, PendingRec
      <4> QED BY <4>1, <4>2 DEF Requests
    <3>2. req' = [req EXCEPT ![q] = IF a \in DOMAIN Pruned.pending THEN r ELSE Idle]
      BY <2>2 DEF ConsentTaken
    <3> HIDE DEF r, a
    <3> QED BY <1>1, <3>1, <3>2, IdleRequest DEF Outside
  <2>3. CASE IssueCode(q, ok)
    BY <1>1, <2>3, IdleRequest DEF IssueCode, Outside
  <2> QED BY <2>1, <2>2, <2>3 DEF ConsentStep
<1> QED BY <1>1, <1>2, <1>3 DEF Outside

LEMMA TokenTypes ==
  ASSUME IInv, NEW q \in Reqs, NEW ok \in BOOLEAN, TokenStep(q, ok)
  PROVE  Outside'
<1>1. Outside /\ Good(Pruned, minted) /\ req[q] \in Requests
  BY StoreFacts DEF IInv, TypeOK, Outside
<1>2. ASSUME NEW a \in Auths, NEW c \in Clients, ExchangeLookup(q, a, c) PROVE Outside'
  <2> DEFINE r == [phase |-> "exchange", auth |-> a, client |-> c,
                   user |-> Pruned.codes[a].user, at |-> now, seen |-> 0]
  <2>1. r \in Requests
    <3>1. Pruned.codes[a].user \in Users
      BY <1>1, <1>2 DEF ExchangeLookup, Good, IsInner, IsMap, CodeRec
    <3> QED BY <1>1, <3>1 DEF Requests, Outside
  <2>2. req' = [req EXCEPT ![q] = IF Pruned.codes[a].client = c THEN r ELSE Idle]
    BY <1>2 DEF ExchangeLookup
  <2>3. UNCHANGED <<account, cutOff, now, minted, issued, origin>>
    BY <1>2 DEF ExchangeLookup
  <2> HIDE DEF r
  <2> QED BY <1>1, <2>1, <2>2, <2>3, IdleRequest DEF Outside
<1>3. ASSUME NEW g \in Grants, ExchangeCreate(q, g, ok) PROVE Outside'
  <2>1. /\ req' = [req EXCEPT ![q] = Idle]
        /\ origin' = IF ok THEN With(origin, g, req[q].auth) ELSE origin
        /\ minted' = IF ok THEN minted + 1 ELSE minted
        /\ issued' = IF ok THEN issued \cup {g} ELSE issued
        /\ UNCHANGED <<account, cutOff, now>>
    BY <1>3 DEF ExchangeCreate
  <2>2. req[q].auth \in Auths
    BY <1>1, <1>3, RequestShape DEF ExchangeCreate
  <2>3. IsMap(With(origin, g, req[q].auth), Grants, Auths)
    BY <1>1, <2>2, WithIsMap DEF Outside
  <2> QED BY <1>1, <2>1, <2>3, IdleRequest DEF Outside
<1>4. ASSUME NEW tok \in 1 .. minted, NEW c \in Clients, RefreshLookup(q, tok, c) PROVE Outside'
  <2>1. PICK g \in DOMAIN Pruned.grants :
          req' = [req EXCEPT ![q] =
                    IF Pruned.grants[g].client = c
                    THEN [phase |-> "refresh", grant |-> g, cur |-> Pruned.grants[g].cur,
                          fp |-> Pruned.grants[g].fp, user |-> Pruned.grants[g].user,
                          at |-> now, seen |-> 0]
                    ELSE Idle]
    BY <1>4 DEF RefreshLookup
  <2> DEFINE r == [phase |-> "refresh", grant |-> g, cur |-> Pruned.grants[g].cur,
                   fp |-> Pruned.grants[g].fp, user |-> Pruned.grants[g].user,
                   at |-> now, seen |-> 0]
  <2>2. r \in Requests
    <3>1. g \in Grants /\ Pruned.grants[g] \in GrantRec
      BY <1>1 DEF Good, IsInner, IsMap
    <3>2. /\ Pruned.grants[g].cur \in Nat /\ Pruned.grants[g].fp \in Nat
          /\ Pruned.grants[g].user \in Users
      BY <3>1 DEF GrantRec
    <3> QED BY <1>1, <3>1, <3>2 DEF Requests, Outside
  <2>3. UNCHANGED <<account, cutOff, now, minted, issued, origin>>
    BY <1>4 DEF RefreshLookup
  <2>4. req' = [req EXCEPT ![q] = IF Pruned.grants[g].client = c THEN r ELSE Idle]
    BY <2>1
  <2> HIDE DEF r
  <2> QED BY <1>1, <2>2, <2>3, <2>4, IdleRequest DEF Outside
<1>5. CASE RefreshRotate(q, ok) \/ RefreshStale(q, ok)
  <2>1. /\ req' = [req EXCEPT ![q] = Idle]
        /\ minted' \in {minted, minted + 1}
        /\ UNCHANGED <<account, cutOff, now, issued, origin>>
    BY <1>5 DEF RefreshRotate, RefreshStale
  <2> QED BY <1>1, <2>1, IdleRequest DEF Outside
<1>6. ASSUME NEW seen \in 0 .. MaxFp, Authority(q, seen) PROVE Outside'
  <2> DEFINE r == [req[q] EXCEPT !.phase = Awaits[@], !.seen = seen]
  <2>1. r \in Requests
    <3>1. /\ req[q].phase \in {"exchange", "refresh", "use"}
          /\ Awaits["exchange"] = "create" /\ Awaits["refresh"] = "rotate" /\ Awaits["use"] = "decide"
      BY <1>6 DEF Authority, Awaits
    <3>2. req[q].user \in Users
      BY <1>1, <3>1, RequestShape
    <3>3. seen \in Nat
      BY <1>1, <1>6, <3>2 DEF Authority, Outside
    <3>4. CASE req[q].phase = "exchange"
      <4> DEFINE x == req[q]
      <4>1. /\ x.auth \in Auths /\ x.client \in Clients /\ x.user \in Users /\ x.at \in Nat
            /\ x = [phase |-> "exchange", auth |-> x.auth, client |-> x.client, user |-> x.user,
                    at |-> x.at, seen |-> x.seen]
        BY <1>1, <3>4, RequestShape
      <4>2. r = [x EXCEPT !.phase = "create", !.seen = seen]
        <5>1. Awaits[x.phase] = "create"
          BY <3>1, <3>4
        <5> QED BY <5>1
      <4> HIDE DEF r, x
      <4>3. r = [phase |-> "create", auth |-> x.auth, client |-> x.client, user |-> x.user,
                 at |-> x.at, seen |-> seen]
        BY <4>1, <4>2
      <4> QED BY <3>3, <4>1, <4>3 DEF Requests
    <3>5. CASE req[q].phase = "refresh"
      <4> DEFINE x == req[q]
      <4>1. /\ x.grant \in Grants /\ x.cur \in Nat /\ x.fp \in Nat /\ x.user \in Users /\ x.at \in Nat
            /\ x = [phase |-> "refresh", grant |-> x.grant, cur |-> x.cur, fp |-> x.fp,
                    user |-> x.user, at |-> x.at, seen |-> x.seen]
        BY <1>1, <3>5, RequestShape
      <4>2. r = [x EXCEPT !.phase = "rotate", !.seen = seen]
        <5>1. Awaits[x.phase] = "rotate"
          BY <3>1, <3>5
        <5> QED BY <5>1
      <4> HIDE DEF r, x
      <4>3. r = [phase |-> "rotate", grant |-> x.grant, cur |-> x.cur, fp |-> x.fp,
                 user |-> x.user, at |-> x.at, seen |-> seen]
        BY <4>1, <4>2
      <4> QED BY <3>3, <4>1, <4>3 DEF Requests
    <3>6. CASE req[q].phase = "use"
      <4> DEFINE x == req[q]
      <4>1. /\ x.grant \in Grants /\ x.fp \in Nat /\ x.user \in Users
            /\ x = [phase |-> "use", grant |-> x.grant, fp |-> x.fp, user |-> x.user, seen |-> x.seen]
        BY <1>1, <3>6, RequestShape
      <4>2. r = [x EXCEPT !.phase = "decide", !.seen = seen]
        <5>1. Awaits[x.phase] = "decide"
          BY <3>1, <3>6
        <5> QED BY <5>1
      <4> HIDE DEF r, x
      <4>3. r = [phase |-> "decide", grant |-> x.grant, fp |-> x.fp, user |-> x.user, seen |-> seen]
        BY <4>1, <4>2
      <4> QED BY <3>3, <4>1, <4>3 DEF Requests
    <3> QED BY <3>1, <3>4, <3>5, <3>6
  <2>2. req' = [req EXCEPT ![q] = IF seen = 0 THEN Idle ELSE r]
    BY <1>6 DEF Authority
  <2>3. UNCHANGED <<account, cutOff, now, minted, issued, origin>>
    BY <1>6 DEF Authority
  <2> HIDE DEF r
  <2> QED BY <1>1, <2>1, <2>2, <2>3, IdleRequest DEF Outside
<1>7. CASE Refuse(q)
  BY <1>1, <1>7, IdleRequest DEF Refuse, Outside
<1> QED BY <1>2, <1>3, <1>4, <1>5, <1>6, <1>7 DEF TokenStep

LEMMA UseTypes ==
  ASSUME IInv, NEW q \in Reqs, NEW ok \in BOOLEAN, UseStep(q, ok)
  PROVE  Outside'
<1>1. Outside /\ Good(mem, minted)
  BY StoreFacts DEF IInv, TypeOK, Outside
<1>2. UNCHANGED <<account, cutOff, now, minted, issued, origin>>
  BY DEF UseStep, UseLookup, UseServed, UseStale
<1>3. ASSUME NEW a \in mem.access, UseLookup(q, a) PROVE req' \in [Reqs -> Requests]
  <2>1. [phase |-> "use", grant |-> a.grant, fp |-> a.fp, user |-> a.user, seen |-> 0] \in Requests
    <3>1. a.grant \in Grants /\ a.fp \in Nat /\ a.user \in Users
      BY <1>1 DEF Good, IsInner
    <3> QED BY <3>1 DEF Requests
  <2> QED BY <1>1, <1>3, <2>1 DEF UseLookup, Outside
<1>4. CASE UseServed(q) \/ UseStale(q, ok)
  BY <1>1, <1>4, IdleRequest DEF UseServed, UseStale, Outside
<1>5. req' \in [Reqs -> Requests]
  BY <1>3, <1>4, <1>1 DEF UseStep, Outside
<1> QED BY <1>1, <1>2, <1>5 DEF Outside

LEMMA OtherTypes ==
  ASSUME IInv, NEW ok \in BOOLEAN, StoreStep(ok) \/ World \/ UNCHANGED vars
  PROVE  Outside'
<1>1. Outside
  BY DEF IInv, TypeOK, Outside
<1>2. CASE StoreStep(ok)
  <2>1. /\ UNCHANGED <<req, account, now, minted, origin>>
        /\ cutOff' \subseteq cutOff
        /\ issued' \subseteq issued \cup Clients \cup Auths
    BY <1>2 DEF StoreStep, RegisterClient, DeleteClient, BeginPending, ConsentDenied, ExchangeReplay,
                RefreshReplay, RevokeToken, RevokeGrant, RevokeAll, RevokeUser, List
  <2> QED BY <1>1, <2>1 DEF Outside
<1>3. CASE World
  <2>1. ASSUME NEW u \in Users, NEW fp \in 0 .. MaxFp, ChangeAccount(u, fp) PROVE Outside'
    <3>1. fp \in Nat
      BY <1>1, <2>1 DEF ChangeAccount, Outside
    <3> QED BY <1>1, <2>1, <3>1 DEF ChangeAccount, Outside
  <2>2. ASSUME NEW load \in {"read", "corrupt", "unread"}, Restart(load) PROVE Outside'
    BY <1>1, <2>2, IdleRequest DEF Restart, Outside
  <2>3. CASE Tick
    BY <1>1, <2>3 DEF Tick, Outside
  <2> QED BY <1>3, <2>1, <2>2, <2>3 DEF World
<1>4. CASE UNCHANGED vars
  BY <1>1, <1>4 DEF vars, Outside
<1> QED BY <1>2, <1>3, <1>4

LEMMA UnreadType ==
  ASSUME IInv, [Next]_vars
  PROVE  unread' \in BOOLEAN
<1>1. unread \in BOOLEAN
  BY DEF IInv, TypeOK
<1>2. ASSUME NEW live, NEW draft, NEW ok \in BOOLEAN, Commit(live, draft, ok)
      PROVE  unread' \in {FALSE, unread}
  BY <1>2 DEF Commit
<1>3. ASSUME NEW q \in Reqs, NEW ok \in BOOLEAN, ConsentStep(q, ok) \/ UseStep(q, ok)
      PROVE  unread' \in {FALSE, unread}
  BY <1>2, <1>3 DEF ConsentStep, ConsentPosted, ConsentTaken, IssueCode,
                    UseStep, UseLookup, UseServed, UseStale
<1>4. ASSUME NEW q \in Reqs, NEW ok \in BOOLEAN, TokenStep(q, ok)
      PROVE  unread' \in {FALSE, unread}
  BY <1>2, <1>4 DEF TokenStep, ExchangeLookup, ExchangeCreate, RefreshLookup, RefreshRotate,
                    RefreshStale, Authority, Refuse
<1>5. ASSUME NEW ok \in BOOLEAN, StoreStep(ok)
      PROVE  unread' \in {FALSE, unread}
  BY <1>2, <1>5 DEF StoreStep, RegisterClient, DeleteClient, BeginPending, ConsentDenied,
                    ExchangeReplay, RefreshReplay, RevokeToken, RevokeGrant, RevokeAll, RevokeUser, List
<1>6. CASE World
  BY <1>1, <1>6 DEF World, ChangeAccount, Restart, Tick
<1>7. CASE UNCHANGED vars
  BY <1>1, <1>7 DEF vars
<1> QED BY <1>1, <1>3, <1>4, <1>5, <1>6, <1>7 DEF Next

LEMMA InitInvariant == Init => IInv
<1> SUFFICES ASSUME Init PROVE IInv
  OBVIOUS
<1>1. mem = EmptyInner /\ disk = [clients |-> Empty, grants |-> Empty]
  BY DEF Init
<1>2. disk.clients = Empty /\ disk.grants = Empty /\ DOMAIN disk.grants = {}
      /\ disk = [clients |-> disk.clients, grants |-> disk.grants]
  BY <1>1, EmptyIsMap
<1>3. GoodFile(disk, minted) /\ Good(mem, minted)
  BY <1>1, EmptyFileGood
<1>4. mem.clients = Empty /\ mem.grants = Empty
  BY <1>1 DEF EmptyInner
<1>5. StoreInv
  BY <1>2, <1>3, <1>4, EmptyIsMap DEF StoreInv, Backed, Agrees
<1>6. Outside
  BY IdleRequest, EmptyIsMap DEF Init, Outside
<1>7. Named
  BY <1>2, EmptyIsMap DEF Init, Named
<1>8. \A g \in DOMAIN mem.grants : Len(mem.grants[g].retired) <= Keep
  BY <1>3 DEF Good, Minted
<1>9. unread \in BOOLEAN
  BY DEF Init
<1> QED BY <1>5, <1>6, <1>7, <1>8, <1>9 DEF IInv, TypeOK, StoreInv, Good, GoodFile, Outside

LEMMA StepInvariant == IInv /\ [Next]_vars => IInv'
<1> SUFFICES ASSUME IInv, [Next]_vars PROVE IInv'
  OBVIOUS
<1>1. StoreInv'
  BY FileSteps
<1>2. Outside'
  <2>1. CASE \E q \in Reqs, ok \in BOOLEAN : ConsentStep(q, ok) \/ TokenStep(q, ok) \/ UseStep(q, ok)
    BY <2>1, ConsentTypes, TokenTypes, UseTypes
  <2>2. CASE (\E ok \in BOOLEAN : StoreStep(ok)) \/ World \/ UNCHANGED vars
    BY <2>2, OtherTypes
  <2> QED BY <2>1, <2>2 DEF Next
<1>3. Named'
  <2>1. CASE Shrinks /\ origin' = origin /\ issued \subseteq issued'
    BY <2>1 DEF IInv, Named, Shrinks, Agrees
  <2>2. CASE \E g \in Grants : Opens(g)
    BY <2>2 DEF IInv, Named, Opens, Others
  <2>3. CASE \E g \in Grants : Renews(g)
    BY <2>3 DEF IInv, Named, Renews, Others
  <2> QED BY <2>1, <2>2, <2>3, FileSteps
<1>4. (\A g \in DOMAIN mem.grants : Len(mem.grants[g].retired) <= Keep)'
  BY <1>1 DEF StoreInv, Good, Minted
<1>5. (unread \in BOOLEAN)'
  BY UnreadType
<1> QED BY <1>1, <1>2, <1>3, <1>4, <1>5 DEF IInv, TypeOK, StoreInv, Good, GoodFile, Outside

LEMMA Invariant == Spec => []IInv
  BY InitInvariant, StepInvariant, PTL DEF Spec

-----------------------------------------------------------------------------
(* The state of the token store keeps its types, for every number of       *)
(* clients, users, grants and requests served at once.                     *)
THEOREM TypeCorrect == Spec => []TypeOK
<1>1. IInv => TypeOK
  BY DEF IInv
<1> QED BY <1>1, Invariant, PTL

(* The two token indexes and the access tokens agree with the grants after *)
(* every sequence of rotations, revocations, expiries, failed writes and   *)
(* restarts (remove_grant, rebuild_indexes, exchange_code of mcp/oauth.rs).*)
THEOREM IndexesCorrect == Spec => []IndexesAgree
<1>1. IInv => IndexesAgree
  BY DEF IInv, StoreInv, Good, IndexesAgree
<1> QED BY <1>1, Invariant, PTL

(* Memory and file never differ in anything a restart could bring back or  *)
(* lose but what has expired (commit, prune and load of mcp/oauth.rs),     *)
(* except from a load that could not read the file (516) to the next       *)
(* write: there only the grants of memory are known to be in the file.     *)
THEOREM RestartCorrect == Spec => []RestartIsInvisible
<1>1. IInv => RestartIsInvisible
  BY DEF IInv, StoreInv, RestartIsInvisible
<1> QED BY <1>1, Invariant, PTL

-----------------------------------------------------------------------------
(* One grant per approval.  An approval is in one place at a time: it is   *)
(* pending, held by one request that took it, minted as a code, or spent   *)
(* on a grant; and none of these names is drawn again.                     *)

HeldIn(r) == IF r.phase \in {"approved", "exchange", "create"} THEN {r.auth} ELSE {}

Apart(pending, codes, r, spent, names) ==
  LET opened == {spent[g] : g \in DOMAIN spent}
  IN /\ pending \cup codes \cup opened \subseteq names
     /\ \A q \in Reqs : HeldIn(r[q]) \subseteq names
     /\ pending \cap codes = {}
     /\ opened \cap (pending \cup codes) = {}
     /\ \A q \in Reqs : HeldIn(r[q]) \cap (pending \cup codes \cup opened) = {}
     /\ \A p, q \in Reqs : p # q => HeldIn(r[p]) \cap HeldIn(r[q]) = {}
     /\ \A g, h \in DOMAIN spent : spent[g] = spent[h] => g = h

ApprovalInv == Apart(DOMAIN mem.pending, DOMAIN mem.codes, req, origin, issued)

(* Nothing new: approvals and codes lapse, requests end.                   *)
LEMMA ApartLess ==
  ASSUME NEW P, NEW K, NEW r, NEW o, NEW i, Apart(P, K, r, o, i),
         NEW P2, NEW K2, NEW r2, NEW i2, P2 \subseteq P, K2 \subseteq K, i \subseteq i2,
         \A q \in Reqs : HeldIn(r2[q]) \subseteq HeldIn(r[q])
  PROVE  Apart(P2, K2, r2, o, i2)
  BY DEF Apart

(* A new approval request.                                                 *)
LEMMA ApartBegins ==
  ASSUME NEW P, NEW K, NEW r, NEW o, NEW i, Apart(P, K, r, o, i),
         NEW a, a \notin i, NEW P2, P2 \subseteq P \cup {a}, NEW K2, K2 \subseteq K
  PROVE  Apart(P2, K2, r, o, i \cup {a})
  BY DEF Apart

(* The request that holds an approval makes it a code.                     *)
LEMMA ApartIssues ==
  ASSUME NEW P, NEW K, NEW r, NEW o, NEW i, Apart(P, K, r, o, i),
         NEW q \in Reqs, NEW P2, P2 \subseteq P, NEW K2, K2 \subseteq K \cup HeldIn(r[q]),
         NEW r2, HeldIn(r2[q]) = {}, \A p \in Reqs \ {q} : r2[p] = r[p]
  PROVE  Apart(P2, K2, r2, o, i)
  BY DEF Apart

(* The request that holds an approval spends it on a grant.                *)
LEMMA ApartOpens ==
  ASSUME NEW P, NEW K, NEW r, NEW o, NEW i, Apart(P, K, r, o, i),
         NEW q \in Reqs, NEW a, HeldIn(r[q]) = {a}, NEW g, g \notin DOMAIN o,
         NEW r2, HeldIn(r2[q]) = {}, \A p \in Reqs \ {q} : r2[p] = r[p], NEW i2, i \subseteq i2
  PROVE  Apart(P, K, r2, With(o, g, a), i2)
<1> DEFINE o2 == With(o, g, a)
<1>1. DOMAIN o2 = DOMAIN o \cup {g} /\ o2[g] = a /\ \A h \in DOMAIN o : o2[h] = o[h]
  BY DEF With
<1> SUFFICES Apart(P, K, r2, o2, i2)
  OBVIOUS
<1> HIDE DEF o2
<1>2. {o2[h] : h \in DOMAIN o2} = {o[h] : h \in DOMAIN o} \cup {a}
  BY <1>1
<1>3. a \notin {o[h] : h \in DOMAIN o} /\ a \notin P \cup K /\ a \in i
  BY DEF Apart
<1>4. \A h, k \in DOMAIN o2 : o2[h] = o2[k] => h = k
  BY <1>1, <1>3 DEF Apart
<1> QED BY <1>2, <1>3, <1>4 DEF Apart

-----------------------------------------------------------------------------
(* The steps, as far as approvals go.                                      *)

Less(e, d) == DOMAIN e.pending \subseteq DOMAIN d.pending /\ DOMAIN e.codes \subseteq DOMAIN d.codes

LEMMA LessPruned ==
  ASSUME IInv
  PROVE  Less(Pruned, mem) /\ IsInner(Pruned) /\ IsInner(mem)
<1>1. Prunes(Pruned, mem, now) /\ IsInner(mem)
  BY PrunedGood DEF IInv, TypeOK
<1> QED BY <1>1 DEF Prunes, Agrees, Less

LEMMA LessRemoved ==
  ASSUME NEW d, IsInner(d), NEW S
  PROVE  Less(RemoveGrants(d, S), d)
  BY RemoveFields DEF Less

LEMMA LessClients ==
  ASSUME NEW d, IsInner(d), NEW cs
  PROVE  [d EXCEPT !.clients = cs].pending = d.pending /\ [d EXCEPT !.clients = cs].codes = d.codes
  BY DEF IsInner

LEMMA LessCommitted ==
  ASSUME NEW live, NEW draft, NEW ok \in BOOLEAN, Commit(live, draft, ok), Less(live, mem),
         Less(draft, mem)
  PROVE  Less(mem', mem)
  BY DEF Commit

LEMMA LessRevoked ==
  ASSUME IInv, NEW S, NEW ok \in BOOLEAN,
         \/ Commit(mem, RemoveGrants(mem, S), ok)
         \/ Commit(Pruned, RemoveGrants(Pruned, S), ok)
  PROVE  Less(mem', mem)
<1>1. Less(Pruned, mem) /\ IsInner(Pruned) /\ IsInner(mem)
  BY LessPruned
<1>2. Less(mem, mem) /\ Less(RemoveGrants(mem, S), mem)
  BY <1>1, LessRemoved DEF Less
<1>3. Less(RemoveGrants(Pruned, S), mem)
  <2>1. Less(RemoveGrants(Pruned, S), Pruned)
    BY <1>1, LessRemoved
  <2> QED BY <1>1, <2>1 DEF Less
<1> QED BY <1>1, <1>2, <1>3, LessCommitted

(* Of a step that takes, issues, spends or begins nothing.                 *)
LEMMA ApprovalDrops ==
  ASSUME IInv, ApprovalInv, Less(mem', mem), \A q \in Reqs : HeldIn(req'[q]) \subseteq HeldIn(req[q]),
         origin' = origin, issued \subseteq issued'
  PROVE  ApprovalInv'
<1>1. Apart(DOMAIN mem.pending, DOMAIN mem.codes, req, origin, issued)
  BY DEF ApprovalInv
<1>2. DOMAIN mem'.pending \subseteq DOMAIN mem.pending /\ DOMAIN mem'.codes \subseteq DOMAIN mem.codes
  BY DEF Less
<1>3. Apart(DOMAIN mem'.pending, DOMAIN mem'.codes, req', origin, issued')
  BY <1>1, <1>2, ApartLess
<1> QED BY <1>3 DEF ApprovalInv

LEMMA HeldEnds ==
  ASSUME IInv, NEW q \in Reqs, NEW r, req' = [req EXCEPT ![q] = r], HeldIn(r) \subseteq HeldIn(req[q])
  PROVE  \A p \in Reqs : HeldIn(req'[p]) \subseteq HeldIn(req[p])
  BY DEF IInv, TypeOK

LEMMA IdleHolds == HeldIn(Idle) = {}
  BY DEF HeldIn, Idle

LEMMA ApprovalConsent ==
  ASSUME IInv, ApprovalInv, NEW q \in Reqs, NEW ok \in BOOLEAN, ConsentStep(q, ok)
  PROVE  ApprovalInv'
<1>0. Less(Pruned, mem) /\ IsInner(Pruned) /\ req \in [Reqs -> Requests]
  BY LessPruned DEF IInv, TypeOK
<1>1. ASSUME NEW a \in Auths, NEW u \in Users, ConsentPosted(q, a, u)
      PROVE  ApprovalInv'
  <2> DEFINE r == [phase |-> "consent", auth |-> a, user |-> u]
  <2>1. mem' = Pruned /\ req' = [req EXCEPT ![q] = r] /\ UNCHANGED <<origin, issued>>
    BY <1>1 DEF ConsentPosted
  <2>2. HeldIn(r) = {}
    BY DEF HeldIn
  <2> HIDE DEF r
  <2>3. \A p \in Reqs : HeldIn(req'[p]) \subseteq HeldIn(req[p])
    BY <2>1, <2>2, HeldEnds
  <2>4. Less(mem', mem) /\ issued \subseteq issued'
    BY <1>0, <2>1
  <2> QED BY <2>1, <2>3, <2>4, ApprovalDrops
<1>2. CASE ConsentTaken(q)
  <2> DEFINE a == req[q].auth
             x == [phase |-> "approved", auth |-> a, user |-> req[q].user,
                   client |-> Pruned.pending[a].client]
             ps == Without(Pruned.pending, {a})
             r == IF a \in DOMAIN Pruned.pending THEN x ELSE Idle
  <2>1. /\ mem' = [Pruned EXCEPT !.pending = ps]
        /\ req' = [req EXCEPT ![q] = r]
        /\ UNCHANGED <<origin, issued>>
    BY <1>2 DEF ConsentTaken
  <2>2. DOMAIN ps = DOMAIN Pruned.pending \ {a}
    BY WithoutFacts
  <2>3. HeldIn(x) = {a}
    BY DEF HeldIn
  <2> HIDE DEF ps, x
  <2>4. mem'.pending = ps /\ mem'.codes = Pruned.codes
    BY <1>0, <2>1 DEF IsInner
  <2>5. CASE a \in DOMAIN Pruned.pending
    <3>1. req'[q] = x /\ \A p \in Reqs \ {q} : req'[p] = req[p]
      BY <1>0, <2>1, <2>5
    <3>2. Apart(DOMAIN mem.pending, DOMAIN mem.codes, req, origin, issued)
      BY DEF ApprovalInv
    <3>3. a \in DOMAIN mem.pending /\ a \notin DOMAIN mem.codes
      BY <1>0, <2>5, <3>2 DEF Less, Apart
    <3>4. DOMAIN mem'.pending \subseteq DOMAIN mem.pending \ {a}
          /\ DOMAIN mem'.codes \subseteq DOMAIN mem.codes \ {a}
      BY <1>0, <2>2, <2>4, <3>3 DEF Less
    <3>5. a \in DOMAIN mem.pending \cup DOMAIN mem.codes /\ HeldIn(req'[q]) \subseteq {a}
      BY <2>3, <3>1, <3>3
    <3> HIDE DEF a
    <3>6. Apart(DOMAIN mem'.pending, DOMAIN mem'.codes, req', origin, issued)
      BY <3>1, <3>2, <3>4, <3>5 DEF Apart
    <3> QED BY <2>1, <3>6 DEF ApprovalInv
  <2>6. CASE a \notin DOMAIN Pruned.pending
    <3>1. \A p \in Reqs : HeldIn(req'[p]) \subseteq HeldIn(req[p])
      BY <2>1, <2>6, IdleHolds, HeldEnds
    <3>2. Less(mem', mem) /\ issued \subseteq issued'
      BY <1>0, <2>1, <2>2, <2>4 DEF Less
    <3> QED BY <2>1, <3>1, <3>2, ApprovalDrops
  <2> QED BY <2>5, <2>6
<1>3. CASE IssueCode(q, ok)
  <2> DEFINE x == req[q]
             code == [client |-> x.client, user |-> x.user, expires |-> now + CodeTtl]
             cs == IF x.client \in DOMAIN Pruned.clients
                   THEN [Pruned.clients EXCEPT ![x.client].approved = TRUE] ELSE Pruned.clients
             ks == With(Pruned.codes, x.auth, code)
             draft == [Pruned EXCEPT !.clients = cs, !.codes = ks]
  <2>1. /\ Commit(Pruned, draft, ok) /\ x.phase = "approved"
        /\ req' = [req EXCEPT ![q] = Idle]
        /\ UNCHANGED <<origin, issued>>
    BY <1>3 DEF IssueCode
  <2>2. DOMAIN ks = DOMAIN Pruned.codes \cup {x.auth} /\ HeldIn(x) = {x.auth}
    BY <2>1 DEF With, HeldIn
  <2> HIDE DEF cs, ks
  <2>3. draft.pending = Pruned.pending /\ draft.codes = ks
    BY <1>0 DEF IsInner
  <2> HIDE DEF draft
  <2>4. /\ DOMAIN mem'.pending \subseteq DOMAIN mem.pending
        /\ DOMAIN mem'.codes \subseteq DOMAIN mem.codes \cup HeldIn(req[q])
    BY <1>0, <2>1, <2>2, <2>3 DEF Commit, Less
  <2>5. HeldIn(req'[q]) = {} /\ \A p \in Reqs \ {q} : req'[p] = req[p]
    BY <1>0, <2>1, IdleHolds
  <2>6. Apart(DOMAIN mem'.pending, DOMAIN mem'.codes, req', origin, issued)
    BY <2>4, <2>5, ApartIssues DEF ApprovalInv
  <2> QED BY <2>1, <2>6 DEF ApprovalInv
<1> QED BY <1>1, <1>2, <1>3 DEF ConsentStep

LEMMA ApprovalToken ==
  ASSUME IInv, ApprovalInv, NEW q \in Reqs, NEW ok \in BOOLEAN, TokenStep(q, ok)
  PROVE  ApprovalInv'
<1>0. Less(Pruned, mem) /\ IsInner(Pruned) /\ IsInner(mem) /\ req \in [Reqs -> Requests]
  BY LessPruned DEF IInv, TypeOK
<1>1. Less(mem, mem)
  BY DEF Less
<1>2. ASSUME NEW a \in Auths, NEW c \in Clients, ExchangeLookup(q, a, c)
      PROVE  ApprovalInv'
  <2> DEFINE x == [phase |-> "exchange", auth |-> a, client |-> c, user |-> Pruned.codes[a].user,
                   at |-> now, seen |-> 0]
             ks == Without(Pruned.codes, {a})
             r == IF Pruned.codes[a].client = c THEN x ELSE Idle
  <2>1. /\ mem' = [Pruned EXCEPT !.codes = ks]
        /\ req' = [req EXCEPT ![q] = r]
        /\ a \in DOMAIN Pruned.codes
        /\ UNCHANGED <<origin, issued>>
    BY <1>2 DEF ExchangeLookup
  <2>2. DOMAIN ks = DOMAIN Pruned.codes \ {a}
    BY WithoutFacts
  <2>3. HeldIn(x) = {a}
    BY DEF HeldIn
  <2> HIDE DEF ks, x
  <2>4. mem'.codes = ks /\ mem'.pending = Pruned.pending
    BY <1>0, <2>1 DEF IsInner
  <2>5. Apart(DOMAIN mem.pending, DOMAIN mem.codes, req, origin, issued)
    BY DEF ApprovalInv
  <2>6. a \in DOMAIN mem.codes /\ a \notin DOMAIN mem.pending
    BY <1>0, <2>1, <2>5 DEF Less, Apart
  <2>7. DOMAIN mem'.pending \subseteq DOMAIN mem.pending \ {a}
        /\ DOMAIN mem'.codes \subseteq DOMAIN mem.codes \ {a}
    BY <1>0, <2>2, <2>4, <2>6 DEF Less
  <2>8. HeldIn(r) \subseteq {a}
    BY <2>3, IdleHolds
  <2> HIDE DEF r
  <2>9. HeldIn(req'[q]) \subseteq {a} /\ \A p \in Reqs \ {q} : req'[p] = req[p]
    BY <1>0, <2>1, <2>8
  <2>10. Apart(DOMAIN mem'.pending, DOMAIN mem'.codes, req', origin, issued)
    BY <2>5, <2>6, <2>7, <2>9 DEF Apart
  <2> QED BY <2>1, <2>10 DEF ApprovalInv
<1>3. ASSUME NEW g \in Grants, ExchangeCreate(q, g, ok)
      PROVE  ApprovalInv'
  <2> DEFINE x == req[q]
             grant == [client |-> x.client, user |-> x.user, fp |-> x.seen, cur |-> minted + 1,
                       retired |-> << >>, rotated |-> x.at, created |-> x.at,
                       expires |-> x.at + RefreshTtl]
             used == [code |-> x.auth, grant |-> g, until |-> x.at + UsedMemory]
             draft == Opened(mem, g, grant, used, x.at)
  <2>1. /\ x.phase = "create" /\ g \notin issued
        /\ Commit(mem, draft, ok)
        /\ origin' = IF ok THEN With(origin, g, x.auth) ELSE origin
        /\ req' = [req EXCEPT ![q] = Idle]
        /\ issued' = IF ok THEN issued \cup {g} ELSE issued
    BY <1>3 DEF ExchangeCreate, Fresh, Opened
  <2>2. draft.pending = mem.pending /\ draft.codes = mem.codes
    <3> HIDE DEF grant, used
    <3>1. [mem EXCEPT !.access = mem.access \cup {[grant |-> g, fp |-> grant.fp, user |-> grant.user,
                                                    expires |-> x.at + AccessTtl]}]
            = IssueAccess(mem, g, grant, x.at)
      BY DEF IssueAccess
    <3> QED BY <1>0 DEF Opened, IssueAccess, IsInner
  <2> HIDE DEF draft
  <2>3. mem'.pending = mem.pending /\ mem'.codes = mem.codes
    BY <2>1, <2>2 DEF Commit
  <2>4. HeldIn(req'[q]) = {} /\ \A p \in Reqs \ {q} : req'[p] = req[p]
    BY <1>0, <2>1, IdleHolds
  <2>5. CASE ok
    <3>1. HeldIn(req[q]) = {x.auth}
      BY <2>1 DEF HeldIn
    <3>2. g \notin DOMAIN origin /\ issued \subseteq issued' /\ origin' = With(origin, g, x.auth)
      BY <2>1, <2>5 DEF IInv, Named
    <3>3. Apart(DOMAIN mem.pending, DOMAIN mem.codes, req', With(origin, g, x.auth), issued')
      <4>1. Apart(DOMAIN mem.pending, DOMAIN mem.codes, req, origin, issued)
        BY DEF ApprovalInv
      <4> QED BY <2>4, <3>1, <3>2, <4>1, ApartOpens
    <3> QED BY <2>3, <3>2, <3>3 DEF ApprovalInv
  <2>6. CASE ~ok
    <3>1. \A p \in Reqs : HeldIn(req'[p]) \subseteq HeldIn(req[p])
      BY <2>1, IdleHolds, HeldEnds
    <3>2. Less(mem', mem) /\ origin' = origin /\ issued \subseteq issued'
      BY <2>1, <2>3, <2>6 DEF Less
    <3> QED BY <3>1, <3>2, ApprovalDrops
  <2> QED BY <2>5, <2>6
<1>4. ASSUME NEW tok \in 1 .. minted, NEW c \in Clients, RefreshLookup(q, tok, c)
      PROVE  ApprovalInv'
  <2>1. PICK g \in DOMAIN Pruned.grants :
          req' = [req EXCEPT ![q] =
                    IF Pruned.grants[g].client = c
                    THEN [phase |-> "refresh", grant |-> g, cur |-> Pruned.grants[g].cur,
                          fp |-> Pruned.grants[g].fp, user |-> Pruned.grants[g].user,
                          at |-> now, seen |-> 0]
                    ELSE Idle]
    BY <1>4 DEF RefreshLookup
  <2> DEFINE x == [phase |-> "refresh", grant |-> g, cur |-> Pruned.grants[g].cur,
                   fp |-> Pruned.grants[g].fp, user |-> Pruned.grants[g].user,
                   at |-> now, seen |-> 0]
             r == IF Pruned.grants[g].client = c THEN x ELSE Idle
  <2>2. req' = [req EXCEPT ![q] = r]
    BY <2>1
  <2>3. HeldIn(x) = {}
    BY DEF HeldIn
  <2> HIDE DEF x
  <2>4. HeldIn(r) = {}
    BY <2>3, IdleHolds
  <2> HIDE DEF r
  <2>5. \A p \in Reqs : HeldIn(req'[p]) \subseteq HeldIn(req[p])
    BY <2>2, <2>4, HeldEnds
  <2>6. Less(mem', mem) /\ origin' = origin /\ issued \subseteq issued'
    BY <1>0, <1>4 DEF RefreshLookup
  <2> QED BY <2>5, <2>6, ApprovalDrops
<1>5. CASE RefreshRotate(q, ok)
  <2> DEFINE x == req[q]
             draft == Rotation(mem, x.grant, minted + 1, x.at)
  <2>1. Commit(mem, draft, ok) /\ req' = [req EXCEPT ![q] = Idle] /\ UNCHANGED <<origin, issued>>
    BY <1>5 DEF RefreshRotate
  <2>2. draft.pending = mem.pending /\ draft.codes = mem.codes
    <3> DEFINE old == mem.grants[x.grant]
               new == [old EXCEPT !.retired = Drain(Append(@, old.cur)), !.cur = minted + 1,
                                  !.rotated = x.at,
                                  !.expires = IF x.at + RefreshTtl < old.created + GrantMax
                                              THEN x.at + RefreshTtl ELSE old.created + GrantMax]
               grants == With(mem.grants, x.grant, new)
    <3>1. draft = IssueAccess([mem EXCEPT !.grants = grants, !.refreshIndex = RefreshIndex(grants),
                                          !.retiredIndex = RetiredIndex(grants)],
                              x.grant, new, x.at)
      BY DEF Rotation
    <3> HIDE DEF draft, grants, new
    <3> QED BY <1>0, <3>1 DEF IssueAccess, IsInner
  <2> HIDE DEF draft
  <2>3. Less(mem', mem) /\ issued \subseteq issued'
    BY <2>1, <2>2 DEF Commit, Less
  <2>4. \A p \in Reqs : HeldIn(req'[p]) \subseteq HeldIn(req[p])
    BY <2>1, IdleHolds, HeldEnds
  <2> QED BY <2>1, <2>3, <2>4, ApprovalDrops
<1>6. CASE RefreshStale(q, ok)
  <2>1. /\ Commit(mem, RemoveGrants(mem, {req[q].grant}), ok) /\ req' = [req EXCEPT ![q] = Idle]
        /\ origin' = origin /\ issued \subseteq issued'
    BY <1>6 DEF RefreshStale
  <2>2. Less(mem', mem)
    BY <2>1, LessRevoked
  <2>3. \A p \in Reqs : HeldIn(req'[p]) \subseteq HeldIn(req[p])
    BY <2>1, IdleHolds, HeldEnds
  <2> QED BY <2>1, <2>2, <2>3, ApprovalDrops
<1>7. ASSUME NEW seen \in 0 .. MaxFp, Authority(q, seen)
      PROVE  ApprovalInv'
  <2> DEFINE r == IF seen = 0 THEN Idle ELSE [req[q] EXCEPT !.phase = Awaits[@], !.seen = seen]
  <2>1. /\ req' = [req EXCEPT ![q] = r] /\ req[q].phase \in {"exchange", "refresh", "use"}
        /\ UNCHANGED <<mem, origin, issued>>
    BY <1>7 DEF Authority, Awaits
  <2>2. HeldIn(r) \subseteq HeldIn(req[q])
    <3>1. CASE seen = 0
      BY <3>1, IdleHolds
    <3>2. CASE seen # 0 /\ req[q].phase = "exchange"
      <4>1. /\ req[q] = [phase |-> req[q].phase, auth |-> req[q].auth, client |-> req[q].client,
                         user |-> req[q].user, at |-> req[q].at, seen |-> req[q].seen]
        BY <1>0, <3>2, RequestShape
      <4>2. r.auth = req[q].auth
        BY <3>2, <4>1
      <4> HIDE DEF r
      <4> QED BY <3>2, <4>2 DEF HeldIn
    <3>3. CASE seen # 0 /\ req[q].phase # "exchange"
      <4>1. Awaits[req[q].phase] \in {"rotate", "decide"}
        BY <2>1, <3>3 DEF Awaits
      <4>2. r.phase \in {"rotate", "decide"}
        BY <1>0, <2>1, <3>3, <4>1, RequestShape
      <4> HIDE DEF r
      <4> QED BY <4>2 DEF HeldIn
    <3> QED BY <3>1, <3>2, <3>3
  <2> HIDE DEF r
  <2>3. \A p \in Reqs : HeldIn(req'[p]) \subseteq HeldIn(req[p])
    BY <2>1, <2>2, HeldEnds
  <2> QED BY <1>1, <2>1, <2>3, ApprovalDrops
<1>8. CASE Refuse(q)
  <2>1. req' = [req EXCEPT ![q] = Idle] /\ UNCHANGED <<mem, origin, issued>>
    BY <1>8 DEF Refuse
  <2>2. \A p \in Reqs : HeldIn(req'[p]) \subseteq HeldIn(req[p])
    BY <2>1, IdleHolds, HeldEnds
  <2> QED BY <1>1, <2>1, <2>2, ApprovalDrops
<1> QED BY <1>2, <1>3, <1>4, <1>5, <1>6, <1>7, <1>8 DEF TokenStep

LEMMA ApprovalUse ==
  ASSUME IInv, ApprovalInv, NEW q \in Reqs, NEW ok \in BOOLEAN, UseStep(q, ok)
  PROVE  ApprovalInv'
<1>0. IsInner(mem) /\ Less(mem, mem)
  BY DEF IInv, TypeOK, Less
<1>1. origin' = origin /\ issued \subseteq issued'
  BY DEF UseStep, UseLookup, UseServed, UseStale
<1>2. ASSUME NEW a \in mem.access, UseLookup(q, a)
      PROVE  Less(mem', mem) /\ \A p \in Reqs : HeldIn(req'[p]) \subseteq HeldIn(req[p])
  <2>1. CASE a.expires <= now
    <3>1. mem' = [mem EXCEPT !.access = @ \ {a}] /\ req' = req
      BY <1>2, <2>1 DEF UseLookup
    <3> QED BY <1>0, <3>1 DEF IsInner, Less
  <2>2. CASE ~(a.expires <= now)
    <3> DEFINE r == [phase |-> "use", grant |-> a.grant, fp |-> a.fp, user |-> a.user, seen |-> 0]
    <3>1. mem' = mem /\ req' = [req EXCEPT ![q] = r]
      BY <1>2, <2>2 DEF UseLookup
    <3>2. HeldIn(r) = {}
      BY DEF HeldIn
    <3> HIDE DEF r
    <3> QED BY <1>0, <3>1, <3>2, HeldEnds
  <2> QED BY <2>1, <2>2
<1>3. CASE UseServed(q) \/ UseStale(q, ok)
  <2>1. req' = [req EXCEPT ![q] = Idle]
    BY <1>3 DEF UseServed, UseStale
  <2>2. mem' = mem \/ Commit(mem, RemoveGrants(mem, {req[q].grant}), ok)
    BY <1>3 DEF UseServed, UseStale
  <2>3. Less(mem', mem)
    BY <1>0, <2>2, LessRevoked
  <2>4. \A p \in Reqs : HeldIn(req'[p]) \subseteq HeldIn(req[p])
    BY <2>1, IdleHolds, HeldEnds
  <2> QED BY <1>1, <2>3, <2>4, ApprovalDrops
<1> QED BY <1>1, <1>2, <1>3, ApprovalDrops DEF UseStep

LEMMA ApprovalStore ==
  ASSUME IInv, ApprovalInv, NEW ok \in BOOLEAN, StoreStep(ok)
  PROVE  ApprovalInv'
<1>0. Less(Pruned, mem) /\ IsInner(Pruned) /\ IsInner(mem) /\ Less(mem, mem)
  BY LessPruned DEF Less
<1>1. UNCHANGED <<req, origin>> /\ issued \subseteq issued'
  BY DEF StoreStep, RegisterClient, DeleteClient, BeginPending, ConsentDenied, ExchangeReplay,
         RefreshReplay, RevokeToken, RevokeGrant, RevokeAll, RevokeUser, List
<1>2. ASSUME Less(mem', mem) PROVE ApprovalInv'
  BY <1>1, <1>2, ApprovalDrops
<1>3. ASSUME NEW c \in Clients, RegisterClient(c, ok) PROVE ApprovalInv'
  <2>1. PICK cs : Commit(Pruned, [Pruned EXCEPT !.clients = cs], ok)
    BY <1>3 DEF RegisterClient
  <2>2. Less([Pruned EXCEPT !.clients = cs], mem)
    BY <1>0, LessClients DEF Less
  <2> QED BY <1>0, <1>2, <2>1, <2>2, LessCommitted
<1>4. ASSUME NEW c \in Clients, DeleteClient(c, ok) PROVE ApprovalInv'
  <2> DEFINE cs == Without(mem.clients, {c})
             d == [mem EXCEPT !.clients = cs]
             S == {g \in DOMAIN mem.grants : mem.grants[g].client = c}
  <2>1. Commit(mem, RemoveGrants(d, S), ok)
    BY <1>4 DEF DeleteClient
  <2>2. IsInner(d)
    <3>1. IsMap(cs, Clients, ClientRec)
      BY <1>0, WithoutIsMap DEF IsInner
    <3> HIDE DEF cs
    <3>2. d = [clients |-> cs, grants |-> mem.grants, refreshIndex |-> mem.refreshIndex,
               retiredIndex |-> mem.retiredIndex, codes |-> mem.codes, usedCodes |-> mem.usedCodes,
               access |-> mem.access, pending |-> mem.pending]
      BY <1>0 DEF IsInner
    <3> HIDE DEF d
    <3> QED BY <1>0, <3>1, <3>2 DEF IsInner
  <2>3. d.pending = mem.pending /\ d.codes = mem.codes
    BY <1>0, LessClients
  <2> HIDE DEF d, S
  <2>4. Less(RemoveGrants(d, S), d)
    BY <2>2, LessRemoved
  <2>5. Less(RemoveGrants(d, S), mem)
    BY <2>3, <2>4 DEF Less
  <2> QED BY <1>0, <1>2, <2>1, <2>5, LessCommitted
<1>5. ASSUME NEW a \in Auths, NEW c \in Clients, BeginPending(a, c) PROVE ApprovalInv'
  <2> DEFINE ps == With(Pruned.pending, a, [client |-> c, created |-> now])
  <2>1. mem' = [Pruned EXCEPT !.pending = ps] /\ a \notin issued /\ issued' = issued \cup {a}
    BY <1>5 DEF BeginPending, Fresh
  <2>2. DOMAIN ps = DOMAIN Pruned.pending \cup {a}
    BY DEF With
  <2> HIDE DEF ps
  <2>3. mem'.pending = ps /\ mem'.codes = Pruned.codes
    BY <1>0, <2>1 DEF IsInner
  <2>4. /\ DOMAIN mem'.pending \subseteq DOMAIN mem.pending \cup {a}
        /\ DOMAIN mem'.codes \subseteq DOMAIN mem.codes
    BY <1>0, <2>2, <2>3 DEF Less
  <2>5. Apart(DOMAIN mem'.pending, DOMAIN mem'.codes, req, origin, issued \cup {a})
    BY <2>1, <2>4, ApartBegins DEF ApprovalInv
  <2> QED BY <1>1, <2>1, <2>5 DEF ApprovalInv
<1>6. ASSUME NEW a \in Auths, ConsentDenied(a) PROVE ApprovalInv'
  <2> DEFINE ps == Without(Pruned.pending, {a})
  <2>1. mem' = [Pruned EXCEPT !.pending = ps]
    BY <1>6 DEF ConsentDenied
  <2>2. DOMAIN ps = DOMAIN Pruned.pending \ {a}
    BY WithoutFacts
  <2> HIDE DEF ps
  <2>3. mem'.pending = ps /\ mem'.codes = Pruned.codes
    BY <1>0, <2>1 DEF IsInner
  <2> QED BY <1>0, <1>2, <2>2, <2>3 DEF Less
<1>7. ASSUME \/ \E a \in Auths : ExchangeReplay(a, ok)
             \/ \E tok \in 1 .. minted : RefreshReplay(tok, ok)
             \/ \E g \in Grants : RevokeToken(g, ok) \/ RevokeGrant(g, ok)
             \/ RevokeAll(ok)
      PROVE  ApprovalInv'
  <2>1. \E S : \/ Commit(mem, RemoveGrants(mem, S), ok)
               \/ Commit(Pruned, RemoveGrants(Pruned, S), ok)
    BY <1>7 DEF ExchangeReplay, RefreshReplay, RevokeToken, RevokeGrant, RevokeAll
  <2> QED BY <1>2, <2>1, LessRevoked
<1>8. ASSUME NEW u \in Users, RevokeUser(u, ok) PROVE ApprovalInv'
  <2>1. mem' = mem \/ \E S : Commit(mem, RemoveGrants(mem, S), ok)
    BY <1>8 DEF RevokeUser
  <2> QED BY <1>0, <1>2, <2>1, LessRevoked
<1>9. CASE List
  BY <1>0, <1>2, <1>9 DEF List
<1> QED BY <1>3, <1>4, <1>5, <1>6, <1>7, <1>8, <1>9 DEF StoreStep

LEMMA ApprovalWorld ==
  ASSUME IInv, ApprovalInv, World \/ UNCHANGED vars
  PROVE  ApprovalInv'
<1>1. origin' = origin /\ issued \subseteq issued'
  BY DEF World, ChangeAccount, Restart, Tick, vars
<1>2. CASE UNCHANGED <<mem, req>>
  <2>1. Less(mem', mem) /\ \A q \in Reqs : HeldIn(req'[q]) \subseteq HeldIn(req[q])
    BY <1>2 DEF Less
  <2> QED BY <1>1, <2>1, ApprovalDrops
<1>3. ASSUME NEW load \in {"read", "corrupt", "unread"}, Restart(load) PROVE ApprovalInv'
  <2>1. mem' \in {Load(disk'), EmptyInner} /\ req' = [q \in Reqs |-> Idle]
    BY <1>3 DEF Restart
  <2>2. mem'.pending = Empty /\ mem'.codes = Empty
    BY <2>1, LoadFields DEF EmptyInner
  <2>3. Less(mem', mem)
    BY <2>2, EmptyIsMap DEF Less
  <2>4. \A q \in Reqs : HeldIn(req'[q]) \subseteq HeldIn(req[q])
    BY <2>1, IdleHolds
  <2> QED BY <1>1, <2>3, <2>4, ApprovalDrops
<1> QED BY <1>2, <1>3 DEF World, ChangeAccount, Tick, vars

LEMMA ApprovalInvariant == Spec => []ApprovalInv
<1>1. Init => ApprovalInv
  <2> SUFFICES ASSUME Init PROVE ApprovalInv
    OBVIOUS
  <2>1. DOMAIN mem.pending = {} /\ DOMAIN mem.codes = {} /\ DOMAIN origin = {}
    BY EmptyIsMap DEF Init, EmptyInner
  <2>2. \A q \in Reqs : HeldIn(req[q]) = {}
    BY IdleHolds DEF Init
  <2> QED BY <2>1, <2>2 DEF ApprovalInv, Apart
<1>2. IInv /\ ApprovalInv /\ [Next]_vars => ApprovalInv'
  <2> SUFFICES ASSUME IInv, ApprovalInv, [Next]_vars PROVE ApprovalInv'
    OBVIOUS
  <2>1. CASE \E q \in Reqs, ok \in BOOLEAN : ConsentStep(q, ok) \/ TokenStep(q, ok) \/ UseStep(q, ok)
    BY <2>1, ApprovalConsent, ApprovalToken, ApprovalUse
  <2>2. CASE (\E ok \in BOOLEAN : StoreStep(ok)) \/ World \/ UNCHANGED vars
    BY <2>2, ApprovalStore, ApprovalWorld
  <2> QED BY <2>1, <2>2 DEF Next
<1> QED BY <1>1, <1>2, Invariant, PTL DEF Spec

(* One approval opens at most one grant: take_pending and exchange_code    *)
(* consume what they act on under the lock, so neither a form posted twice *)
(* nor a code presented by two requests, a failed write or a restart lets  *)
(* a second grant be opened for it (mcp/oauth.rs, mcp/http.rs).            *)
THEOREM OneGrantCorrect == Spec => []OneGrantPerApproval
<1>1. ApprovalInv => OneGrantPerApproval
  BY DEF ApprovalInv, Apart, OneGrantPerApproval
<1> QED BY <1>1, ApprovalInvariant, PTL

-----------------------------------------------------------------------------
(* The refinement.                                                         *)

(* What a step does to the requests admitted on a grant.                   *)
LEMMA AdmittedSteps ==
  ASSUME IInv, [Next]_vars
  PROVE  \/ \A q \in Reqs : AdmittedOf(q)' \in {AdmittedOf(q), NoGrant}
         \/ \E q \in Reqs, g \in DOMAIN disk.grants :
              /\ AdmittedOf(q) = NoGrant
              /\ AdmittedOf(q)' = g
              /\ \A p \in Reqs \ {q} : AdmittedOf(p)' = AdmittedOf(p)
              /\ UNCHANGED <<disk, origin>>
<1>1. req \in [Reqs -> Requests]
  BY DEF IInv, TypeOK
<1>2. ASSUME NEW q \in Reqs, req' = [req EXCEPT ![q] = Idle]
      PROVE  \A p \in Reqs : AdmittedOf(p)' \in {AdmittedOf(p), NoGrant}
  BY <1>1, <1>2 DEF AdmittedOf, Idle
<1>3. ASSUME UNCHANGED req
      PROVE  \A p \in Reqs : AdmittedOf(p)' \in {AdmittedOf(p), NoGrant}
  BY <1>3 DEF AdmittedOf
<1>4. ASSUME NEW q \in Reqs, NEW r, req' = [req EXCEPT ![q] = r],
             r.phase \notin {"use", "decide"}
      PROVE  \A p \in Reqs : AdmittedOf(p)' \in {AdmittedOf(p), NoGrant}
  BY <1>1, <1>4 DEF AdmittedOf
<1>5. ASSUME NEW q \in Reqs, NEW ok \in BOOLEAN, ConsentStep(q, ok)
      PROVE  \A p \in Reqs : AdmittedOf(p)' \in {AdmittedOf(p), NoGrant}
  <2>1. \E r : req' = [req EXCEPT ![q] = r] /\ r.phase \notin {"use", "decide"}
    BY <1>5 DEF ConsentStep, ConsentPosted, ConsentTaken, IssueCode, Idle
  <2> QED BY <2>1, <1>4
<1>6. ASSUME NEW q \in Reqs, NEW ok \in BOOLEAN, TokenStep(q, ok)
      PROVE  \A p \in Reqs : AdmittedOf(p)' \in {AdmittedOf(p), NoGrant}
  <2>1. CASE \E a \in Auths, c \in Clients : ExchangeLookup(q, a, c)
    <3>1. PICK a \in Auths, c \in Clients : ExchangeLookup(q, a, c)
      BY <2>1
    <3> DEFINE x == [phase |-> "exchange", auth |-> a, client |-> c, user |-> Pruned.codes[a].user,
                     at |-> now, seen |-> 0]
               r == IF Pruned.codes[a].client = c THEN x ELSE Idle
    <3>2. req' = [req EXCEPT ![q] = r]
      BY <3>1 DEF ExchangeLookup
    <3>3. x.phase = "exchange" /\ Idle.phase = "idle"
      BY DEF Idle
    <3> HIDE DEF x
    <3>4. r.phase \notin {"use", "decide"}
      BY <3>3
    <3> HIDE DEF r
    <3> QED BY <3>2, <3>4, <1>4
  <2>2. CASE \E tok \in 1 .. minted, c \in Clients : RefreshLookup(q, tok, c)
    <3>1. PICK tok \in 1 .. minted, c \in Clients : RefreshLookup(q, tok, c)
      BY <2>2
    <3>2. PICK g \in DOMAIN Pruned.grants :
            req' = [req EXCEPT ![q] =
                      IF Pruned.grants[g].client = c
                      THEN [phase |-> "refresh", grant |-> g, cur |-> Pruned.grants[g].cur,
                            fp |-> Pruned.grants[g].fp, user |-> Pruned.grants[g].user,
                            at |-> now, seen |-> 0]
                      ELSE Idle]
      BY <3>1 DEF RefreshLookup
    <3> DEFINE x == [phase |-> "refresh", grant |-> g, cur |-> Pruned.grants[g].cur,
                     fp |-> Pruned.grants[g].fp, user |-> Pruned.grants[g].user,
                     at |-> now, seen |-> 0]
               r == IF Pruned.grants[g].client = c THEN x ELSE Idle
    <3>3. req' = [req EXCEPT ![q] = r]
      BY <3>2
    <3>4. x.phase = "refresh" /\ Idle.phase = "idle"
      BY DEF Idle
    <3> HIDE DEF x
    <3>5. r.phase \notin {"use", "decide"}
      BY <3>4
    <3> HIDE DEF r
    <3> QED BY <3>3, <3>5, <1>4
  <2>3. CASE \E seen \in 0 .. MaxFp : Authority(q, seen)
    <3>1. PICK seen \in 0 .. MaxFp : Authority(q, seen)
      BY <2>3
    <3> DEFINE r == [req[q] EXCEPT !.phase = Awaits[@], !.seen = seen]
    <3>2. CASE seen = 0
      BY <3>1, <3>2, <1>2 DEF Authority
    <3>3. CASE seen # 0
      <4>1. req' = [req EXCEPT ![q] = r] /\ req[q].phase \in {"exchange", "refresh", "use"}
        BY <3>1, <3>3 DEF Authority, Awaits
      <4>2. CASE req[q].phase = "use"
        <5>1. Awaits[req[q].phase] = "decide"
          BY <4>2 DEF Awaits
        <5>2. r.phase = "decide" /\ r.grant = req[q].grant
          BY <1>1, <4>2, <5>1, RequestShape
        <5> HIDE DEF r
        <5> QED BY <1>1, <4>1, <4>2, <5>2 DEF AdmittedOf
      <4>3. CASE req[q].phase # "use"
        <5>1. Awaits[req[q].phase] \in {"create", "rotate"}
          BY <4>1, <4>3 DEF Awaits
        <5>2. r.phase \in {"create", "rotate"}
          BY <1>1, <4>1, <4>3, <5>1, RequestShape
        <5> HIDE DEF r
        <5> QED BY <4>1, <5>2, <1>4
      <4> QED BY <4>2, <4>3
    <3> QED BY <3>2, <3>3
  <2>4. CASE \/ \E g \in Grants : ExchangeCreate(q, g, ok)
             \/ RefreshRotate(q, ok) \/ RefreshStale(q, ok) \/ Refuse(q)
    <3>1. req' = [req EXCEPT ![q] = Idle]
      BY <2>4 DEF ExchangeCreate, RefreshRotate, RefreshStale, Refuse
    <3> QED BY <3>1, <1>2
  <2> QED BY <1>6, <2>1, <2>2, <2>3, <2>4 DEF TokenStep
<1>7. ASSUME NEW q \in Reqs, NEW a \in mem.access, UseLookup(q, a)
      PROVE  \/ \A p \in Reqs : AdmittedOf(p)' \in {AdmittedOf(p), NoGrant}
             \/ \E g \in DOMAIN disk.grants :
                  /\ AdmittedOf(q) = NoGrant
                  /\ AdmittedOf(q)' = g
                  /\ \A p \in Reqs \ {q} : AdmittedOf(p)' = AdmittedOf(p)
                  /\ UNCHANGED <<disk, origin>>
  <2>1. CASE a.expires <= now
    BY <1>3, <1>7, <2>1 DEF UseLookup
  <2>2. CASE ~(a.expires <= now)
    <3> DEFINE r == [phase |-> "use", grant |-> a.grant, fp |-> a.fp, user |-> a.user, seen |-> 0]
    <3>1. req[q] = Idle /\ a.grant \in DOMAIN mem.grants /\ req' = [req EXCEPT ![q] = r]
          /\ UNCHANGED <<disk, origin>>
      BY <1>7, <2>2 DEF UseLookup
    <3>2. a.grant \in DOMAIN disk.grants
      BY <3>1, StoreFacts
    <3>3. r.phase = "use" /\ r.grant = a.grant
      OBVIOUS
    <3> HIDE DEF r
    <3>4. AdmittedOf(q) = NoGrant /\ AdmittedOf(q)' = a.grant
      BY <1>1, <3>1, <3>3 DEF AdmittedOf, Idle
    <3>5. \A p \in Reqs \ {q} : AdmittedOf(p)' = AdmittedOf(p)
      BY <1>1, <3>1 DEF AdmittedOf
    <3> QED BY <3>1, <3>2, <3>4, <3>5
  <2> QED BY <2>1, <2>2
<1>8. ASSUME NEW q \in Reqs, NEW ok \in BOOLEAN, UseServed(q) \/ UseStale(q, ok)
      PROVE  \A p \in Reqs : AdmittedOf(p)' \in {AdmittedOf(p), NoGrant}
  BY <1>2, <1>8 DEF UseServed, UseStale
<1>9. ASSUME NEW ok \in BOOLEAN, StoreStep(ok)
      PROVE  \A p \in Reqs : AdmittedOf(p)' \in {AdmittedOf(p), NoGrant}
  <2>1. UNCHANGED req
    BY <1>9 DEF StoreStep, RegisterClient, DeleteClient, BeginPending, ConsentDenied, ExchangeReplay,
                RefreshReplay, RevokeToken, RevokeGrant, RevokeAll, RevokeUser, List
  <2> QED BY <2>1, <1>3
<1>10. CASE World
  <2>1. CASE UNCHANGED req
    BY <2>1, <1>3
  <2>2. CASE req' = [q \in Reqs |-> Idle]
    BY <2>2 DEF AdmittedOf, Idle
  <2> QED BY <1>10, <2>1, <2>2 DEF World, ChangeAccount, Restart, Tick
<1>11. CASE UNCHANGED vars
  BY <1>11, <1>3 DEF vars
<1>12. CASE \E q \in Reqs, ok \in BOOLEAN : ConsentStep(q, ok) \/ TokenStep(q, ok) \/ UseStep(q, ok)
  BY <1>5, <1>6, <1>7, <1>8, <1>12 DEF UseStep
<1>13. CASE \E ok \in BOOLEAN : StoreStep(ok)
  BY <1>9, <1>13
<1> QED BY <1>10, <1>11, <1>12, <1>13 DEF Next

(* What a step does to one grant of the ledger.                            *)
LEMMA GrantSteps ==
  ASSUME IInv, [Next]_vars, NEW g \in Grants
  PROVE  \/ StateOf(g)' = StateOf(g) /\ TokenOf(g)' = TokenOf(g)
         \/ StateOf(g) = "none" /\ StateOf(g)' = "live" /\ TokenOf(g)' > TokenOf(g)
         \/ StateOf(g) = "live" /\ StateOf(g)' = "live" /\ TokenOf(g)' > TokenOf(g)
         \/ StateOf(g) = "live" /\ StateOf(g)' = "ended" /\ TokenOf(g)' = 0
<1>1. DOMAIN disk.grants \subseteq DOMAIN origin /\ DOMAIN origin \subseteq issued /\ minted \in Nat
  BY DEF IInv, Named, TypeOK
<1>2. \A h \in DOMAIN disk.grants : disk.grants[h].cur \in 1 .. minted
  BY DEF IInv, StoreInv, GoodFile, Minted
<1>3. CASE Shrinks /\ origin' = origin
  BY <1>1, <1>3 DEF Shrinks, Agrees, StateOf, TokenOf
<1>4. ASSUME NEW h \in Grants, Opens(h)
      PROVE  \/ StateOf(g)' = StateOf(g) /\ TokenOf(g)' = TokenOf(g)
             \/ StateOf(g) = "none" /\ StateOf(g)' = "live" /\ TokenOf(g)' > TokenOf(g)
             \/ StateOf(g) = "live" /\ StateOf(g)' = "ended" /\ TokenOf(g)' = 0
  <2>1. CASE g = h
    BY <1>1, <1>4, <2>1 DEF Opens, StateOf, TokenOf
  <2>2. CASE g # h
    BY <1>1, <1>4, <2>2 DEF Opens, Others, StateOf, TokenOf
  <2> QED BY <2>1, <2>2
<1>5. ASSUME NEW h \in Grants, Renews(h)
      PROVE  \/ StateOf(g)' = StateOf(g) /\ TokenOf(g)' = TokenOf(g)
             \/ StateOf(g) = "live" /\ StateOf(g)' = "live" /\ TokenOf(g)' > TokenOf(g)
             \/ StateOf(g) = "live" /\ StateOf(g)' = "ended" /\ TokenOf(g)' = 0
  <2>1. CASE g = h
    <3>1. disk.grants[g].cur \in 1 .. minted /\ disk'.grants[g].cur = minted + 1
      BY <1>2, <1>5, <2>1 DEF Renews
    <3>2. disk'.grants[g].cur > disk.grants[g].cur
      BY <1>1, <3>1
    <3> QED BY <1>5, <2>1, <3>2 DEF Renews, StateOf, TokenOf
  <2>2. CASE g # h
    BY <1>1, <1>5, <2>2 DEF Renews, Others, StateOf, TokenOf
  <2> QED BY <2>1, <2>2
<1> QED BY <1>3, <1>4, <1>5, FileSteps

LEMMA LedgerInit == Init => Ledger!Init
<1> SUFFICES ASSUME Init PROVE Ledger!Init
  OBVIOUS
<1>1. DOMAIN disk.grants = {} /\ DOMAIN origin = {} /\ req = [q \in Reqs |-> Idle]
  BY EmptyIsMap DEF Init
<1> QED BY <1>1 DEF Ledger!Init, StateOf, TokenOf, AdmittedOf, Idle

LEMMA LedgerStep == IInv /\ [Next]_vars => [Ledger!Next]_(Ledger!ledger)
<1> SUFFICES ASSUME IInv, [Next]_vars PROVE Ledger!Next
  OBVIOUS
<1>1. CASE \A q \in Reqs : AdmittedOf(q)' \in {AdmittedOf(q), NoGrant}
  <2>1. \A g \in Grants : Ledger!Same(g) \/ Ledger!Open(g) \/ Ledger!Renew(g) \/ Ledger!End(g)
    BY GrantSteps DEF Ledger!Same, Ledger!Open, Ledger!Renew, Ledger!End
  <2>2. Ledger!Update
    BY <1>1, <2>1 DEF Ledger!Update
  <2> QED BY <2>2 DEF Ledger!Next
<1>2. ASSUME NEW q \in Reqs, NEW g \in DOMAIN disk.grants,
             AdmittedOf(q) = NoGrant, AdmittedOf(q)' = g,
             \A p \in Reqs \ {q} : AdmittedOf(p)' = AdmittedOf(p),
             UNCHANGED <<disk, origin>>
      PROVE  Ledger!Next
  <2>1. g \in Grants
    BY DEF IInv, TypeOK, IsFile, IsMap
  <2>2. Ledger!Admit(q, g)
    BY <1>2, <2>1 DEF Ledger!Admit, StateOf, TokenOf
  <2> QED BY <2>1, <2>2 DEF Ledger!Next
<1> QED BY <1>1, <1>2, AdmittedSteps

(* The token store implements the ledger of grants: no failed write, no    *)
(* crash between two phases of a request and no revocation in that gap     *)
(* lets an ended grant be renewed or a request be admitted on one.         *)
THEOREM Refinement == Spec => ImplementsLedger
  BY Invariant, LedgerInit, LedgerStep, PTL DEF Spec, ImplementsLedger, Ledger!Spec
=============================================================================
