-------------------------- MODULE SslContextProofs --------------------------
(***************************************************************************)
(* Proofs about the SSL contexts that clients of fan.tcpd share, for any   *)
(* number of clients, servers, keys and contexts: the count is the number  *)
(* of users whatever the threads interleave, and without workers a context *)
(* in use is the registered one.                                           *)
(***************************************************************************)
EXTENDS SslContext, FiniteSetTheorems, TLAPS

-----------------------------------------------------------------------------
(* The inductive invariant *)

CtxType ==
  [made : BOOLEAN, freed : BOOLEAN, count : Int, key : CacheKeys \cup {"none"},
   configured : BOOLEAN]
ServerType ==
  [st : {"new", "up", "closed", "collected"}, ctx : Contexts \cup {0}, listening : BOOLEAN,
   held : {"nothing", "server", "context"}]
OpType ==
  [kind : CacheKeys \cup {"none", "clear"}, client : SslClients \cup {"none"},
   ctx : Contexts \cup {0}]

SslTypeOK ==
  /\ sctx \in [Contexts -> CtxType]
  /\ registry \in [CacheKeys -> Contexts \cup {0}]
  /\ client \in [SslClients -> [st : {"new", "up", "ended"}, ctx : Contexts \cup {0}]]
  /\ server \in [SslServers -> ServerType]
  /\ op \in [SslThreads -> OpType]
  /\ workers \in BOOLEAN

\* A context that is shared was made for a key; a server's own has none.
Keyed(x) == sctx[x].made /\ sctx[x].key \in CacheKeys

Linked ==
  /\ \A c \in SslClients : IF client[c].st = "up" THEN client[c].ctx # 0 /\ Keyed(client[c].ctx)
                                                  ELSE client[c].ctx = 0
  /\ \A s \in SslServers : server[s].ctx # 0 =>
       sctx[server[s].ctx].made /\ sctx[server[s].ctx].key = "none"
  /\ \A x \in Contexts : ~sctx[x].made => sctx[x].key = "none"
  /\ \A k \in CacheKeys : registry[k] # 0 =>
       Keyed(registry[k]) /\ ~sctx[registry[k]].freed /\ sctx[registry[k]].key = k

\* What get_or_create found on its stack, and what a release is about to clear.
UnderWay ==
  /\ op["main"].kind \in CacheKeys =>
       /\ op["main"].client \in SslClients /\ client[op["main"].client].st = "new"
       /\ op["main"].ctx # 0 =>
            /\ Keyed(op["main"].ctx) /\ ~sctx[op["main"].ctx].freed
            /\ sctx[op["main"].ctx].key = op["main"].kind
  /\ op["io"].kind \notin CacheKeys
  /\ \A t \in SslThreads : op[t].kind = "clear" => op[t].ctx # 0 /\ Keyed(op[t].ctx)

Counted == \A x \in Contexts : sctx[x].key # "none" => sctx[x].count = Cardinality(Users(x))

\* Without workers one thread does it all: the two steps are not torn apart.
Alone ==
  ~workers =>
    /\ op["io"].kind = "none"
    /\ \A x \in Contexts : Users(x) # {} => registry[sctx[x].key] = x
    /\ op["main"].kind \in CacheKeys => op["main"].ctx = registry[op["main"].kind]
    /\ op["main"].kind = "clear" =>
         Users(op["main"].ctx) = {} /\ registry[sctx[op["main"].ctx].key] = op["main"].ctx

SslInv == SslTypeOK /\ Linked /\ UnderWay /\ Counted /\ Alone

-----------------------------------------------------------------------------
(* Users *)

\* The users of a context are finitely many.
LEMMA UsersFinite ==
  ASSUME NEW x
  PROVE  IsFiniteSet(Users(x)) /\ Cardinality(Users(x)) \in Nat
<1>1. Users(x) \subseteq SslClients
  BY DEF Users
<1>2. QED
  BY <1>1, SslAssumption, FS_Subset, FS_CardinalityType

\* A client that is given a context becomes one of its users, and nothing else
\* changes.
LEMMA Joins ==
  ASSUME SslTypeOK, NEW c \in SslClients, NEW x \in Contexts, client[c].ctx = 0,
         client' = [client EXCEPT ![c] = [st |-> "up", ctx |-> x]]
  PROVE  /\ Cardinality(Users(x)') = Cardinality(Users(x)) + 1
         /\ Users(x)' # {}
         /\ \A y \in Contexts \ {x} : Users(y)' = Users(y)
<1>1. 0 \notin Contexts
  BY SslAssumption DEF Contexts
<1>2. Users(x)' = Users(x) \cup {c} /\ c \notin Users(x)
  BY <1>1 DEF Users, SslTypeOK
<1>3. ASSUME NEW y \in Contexts \ {x} PROVE Users(y)' = Users(y)
  BY <1>1 DEF Users, SslTypeOK
<1>4. QED
  BY <1>2, <1>3, UsersFinite, FS_AddElement

\* A client that gives its context back is none of them any more.
LEMMA Leaves ==
  ASSUME SslTypeOK, NEW c \in SslClients, NEW x \in Contexts, client[c].ctx = x,
         client' = [client EXCEPT ![c] = [st |-> "ended", ctx |-> 0]]
  PROVE  /\ Cardinality(Users(x)') = Cardinality(Users(x)) - 1
         /\ Users(x) # {}
         /\ \A y \in Contexts \ {x} : Users(y)' = Users(y)
<1>1. 0 \notin Contexts
  BY SslAssumption DEF Contexts
<1>2. Users(x)' = Users(x) \ {c} /\ c \in Users(x)
  BY <1>1 DEF Users, SslTypeOK
<1>3. ASSUME NEW y \in Contexts \ {x} PROVE Users(y)' = Users(y)
  BY <1>1 DEF Users, SslTypeOK
<1>4. QED
  BY <1>2, <1>3, UsersFinite, FS_RemoveElement, ZenonT(60)

-----------------------------------------------------------------------------
(* The steps *)

\* Initially there is nothing.
LEMMA SslInitInv == SslInit => SslInv
<1> SUFFICES ASSUME SslInit PROVE SslInv
  OBVIOUS
<1>1. 0 \notin Contexts
  BY SslAssumption DEF Contexts
<1>2. SslTypeOK
  BY SslAssumption
  DEF SslInit, SslTypeOK, CtxType, ServerType, OpType, NoOp
<1>3. Linked /\ UnderWay
  BY SslAssumption DEF SslInit, Linked, UnderWay, Keyed, NoOp, SslThreads
<1>4. Counted
  BY DEF SslInit, Counted
<1>5. Alone
  BY <1>1, SslAssumption DEF SslInit, Alone, Users, NoOp, SslThreads
<1>6. QED
  BY <1>2, <1>3, <1>4, <1>5 DEF SslInv

\* The look-up changes nothing but the stack.
LEMMA GetLooksUpInv ==
  ASSUME SslInv, NEW c \in SslClients, NEW k \in CacheKeys, GetLooksUp(c, k)
  PROVE  SslInv'
<1> USE DEF SslInv
<1>1. /\ op'["main"].kind = k /\ op'["main"].client = c /\ op'["main"].ctx = registry[k]
      /\ op'["io"] = op["io"]
      /\ UNCHANGED <<sctx, registry, client, server, workers>>
  BY DEF GetLooksUp, SslTypeOK, SslThreads
<1>2. SslTypeOK'
  BY DEF GetLooksUp, SslTypeOK, OpType
<1>3. Linked'
  BY <1>1 DEF Linked, Keyed
<1>4. UnderWay'
  BY <1>1, SslAssumption DEF UnderWay, Linked, Keyed, SslThreads, GetLooksUp, SslTypeOK
<1>5. Counted'
  BY <1>1 DEF Counted, Users
<1>6. Alone'
  BY <1>1, SslAssumption DEF Alone, Users
<1>7. QED
  BY <1>2, <1>3, <1>4, <1>5, <1>6

\* A context that was found gets one more user.
LEMMA RetainInv ==
  ASSUME SslInv, NEW ok \in BOOLEAN, tcpd_ssl_context_get_or_create(ok), op["main"].ctx # 0
  PROVE  SslInv'
<1> USE DEF SslInv
<1>0. /\ op["main"].kind \in CacheKeys /\ op["main"].client \in SslClients
      /\ op["main"].ctx \in Contexts
  BY DEF tcpd_ssl_context_get_or_create, SslTypeOK, UnderWay, OpType, SslThreads
<1> PICK c \in SslClients, x \in Contexts : c = op["main"].client /\ x = op["main"].ctx
  BY <1>0
<1>1. /\ client[c].ctx = 0 /\ client[c].st = "new"
      /\ Keyed(x) /\ ~sctx[x].freed /\ sctx[x].key = op["main"].kind
  BY <1>0 DEF UnderWay, Linked
<1>2. /\ client' = [client EXCEPT ![c] = [st |-> "up", ctx |-> x]]
      /\ sctx' = Retained(x, ok)
      /\ op' = [op EXCEPT !["main"] = NoOp]
      /\ UNCHANGED <<registry, server, workers>>
  BY DEF tcpd_ssl_context_get_or_create
<1>3. /\ sctx' \in [Contexts -> CtxType]
      /\ sctx'[x].count = sctx[x].count + 1
      /\ \A y \in Contexts :
           /\ sctx'[y].key = sctx[y].key /\ sctx'[y].made = sctx[y].made
           /\ sctx'[y].freed = sctx[y].freed
           /\ y # x => sctx'[y].count = sctx[y].count
  <2>1. sctx[x] \in CtxType /\ sctx[x].count + 1 \in Int
    BY DEF SslTypeOK, CtxType
  <2>2. PICK r : r = [sctx[x] EXCEPT !.count = @ + 1, !.configured = @ \/ ok]
    OBVIOUS
  <2>3. PICK b \in BOOLEAN : b = (sctx[x].configured \/ ok)
    OBVIOUS
  <2>4. r = [sctx[x] EXCEPT !.count = sctx[x].count + 1, !.configured = b]
    BY <2>2, <2>3, Zenon
  <2>5. /\ r \in CtxType
        /\ r.count = sctx[x].count + 1 /\ r.key = sctx[x].key /\ r.made = sctx[x].made
        /\ r.freed = sctx[x].freed
    BY <2>1, <2>4 DEF CtxType
  <2>6. sctx' = [sctx EXCEPT ![x] = r]
    BY <1>2, <2>2, Zenon DEF Retained
  <2>7. QED
    BY <2>5, <2>6 DEF SslTypeOK
<1>4. op'["main"].kind = "none" /\ op'["main"].ctx = 0 /\ op'["io"] = op["io"]
  BY <1>2 DEF SslTypeOK, SslThreads, NoOp
<1>5. SslTypeOK'
  <2>1. NoOp \in OpType
    BY DEF OpType, NoOp
  <2>2. QED
    BY <1>1, <1>2, <1>3, <2>1 DEF SslTypeOK
<1>6. Linked'
  <2>1. \A d \in SslClients : client'[d] = IF d = c THEN [st |-> "up", ctx |-> x] ELSE client[d]
    BY <1>2 DEF SslTypeOK
  <2>2. ASSUME NEW d \in SslClients
        PROVE  IF client'[d].st = "up" THEN client'[d].ctx # 0 /\ Keyed(client[d].ctx)'
                                       ELSE client'[d].ctx = 0
    <3>1. CASE d = c
      BY <1>1, <1>3, <2>1, <3>1, SslAssumption DEF Keyed, Contexts
    <3>2. CASE d # c
      BY <1>3, <2>1, <3>2 DEF Linked, Keyed, SslTypeOK
    <3>3. QED
      BY <3>1, <3>2
  <2>3. ASSUME NEW s \in SslServers, server'[s].ctx # 0
        PROVE  sctx'[server'[s].ctx].made /\ sctx'[server'[s].ctx].key = "none"
    BY <1>2, <1>3, <2>3 DEF Linked, SslTypeOK, ServerType
  <2>4. ASSUME NEW k \in CacheKeys, registry'[k] # 0
        PROVE  /\ Keyed(registry[k])' /\ ~sctx'[registry'[k]].freed
               /\ sctx'[registry'[k]].key = k
    BY <1>2, <1>3, <2>4 DEF Linked, Keyed, SslTypeOK
  <2>5. \A y \in Contexts : ~sctx'[y].made => sctx'[y].key = "none"
    BY <1>3 DEF Linked
  <2>6. QED
    BY <2>2, <2>3, <2>4, <2>5 DEF Linked
<1>7. UnderWay'
  BY <1>3, <1>4, SslAssumption DEF UnderWay, Keyed, SslTypeOK, OpType, SslThreads
<1>8. Counted'
  <2>1. /\ Cardinality(Users(x)') = Cardinality(Users(x)) + 1
        /\ \A y \in Contexts \ {x} : Users(y)' = Users(y)
    BY <1>1, <1>2, Joins
  <2>2. QED
    BY <1>1, <1>3, <2>1 DEF Counted
<1>9. Alone'
  <2>1. SUFFICES ASSUME ~workers, NEW y \in Contexts, Users(y)' # {}
                 PROVE  registry'[sctx'[y].key] = y
    BY <1>2, <1>4, SslAssumption DEF Alone
  <2>2. CASE y = x
    BY <1>0, <1>1, <1>2, <1>3, <2>1, <2>2 DEF Alone
  <2>3. CASE y # x
    <3>1. Users(y)' = Users(y)
      BY <1>1, <1>2, <2>3, Joins
    <3>2. QED
      BY <1>2, <1>3, <2>1, <3>1 DEF Alone
  <2>4. QED
    BY <2>2, <2>3
<1>10. QED
  BY <1>5, <1>6, <1>7, <1>8, <1>9

\* A context that is made is registered with its first user.
LEMMA CreateInv ==
  ASSUME SslInv, NEW ok \in BOOLEAN, tcpd_ssl_context_get_or_create(ok), op["main"].ctx = 0
  PROVE  SslInv'
<1> USE DEF SslInv
<1>0. op["main"].kind \in CacheKeys /\ op["main"].client \in SslClients
  BY DEF tcpd_ssl_context_get_or_create, UnderWay
<1> PICK c \in SslClients, k \in CacheKeys : c = op["main"].client /\ k = op["main"].kind
  BY <1>0
<1>1. PICK x \in Unmade :
        /\ sctx' = [sctx EXCEPT ![x] = Created(k, ok)]
        /\ client' = [client EXCEPT ![c] = [st |-> "up", ctx |-> x]]
        /\ registry' = [registry EXCEPT ![k] = x]
  BY DEF tcpd_ssl_context_get_or_create
<1>2. op' = [op EXCEPT !["main"] = NoOp] /\ UNCHANGED <<server, workers>>
  BY DEF tcpd_ssl_context_get_or_create
<1>3. x \in Contexts /\ ~sctx[x].made /\ client[c].ctx = 0 /\ x # 0
  BY <1>0, SslAssumption DEF Unmade, UnderWay, Linked, Contexts
<1>4. /\ sctx'[x].count = 1 /\ sctx'[x].key = k /\ sctx'[x].made /\ ~sctx'[x].freed
      /\ \A y \in Contexts \ {x} : sctx'[y] = sctx[y]
      /\ op'["main"].kind = "none" /\ op'["main"].ctx = 0 /\ op'["io"] = op["io"]
      /\ client'[c].st = "up" /\ client'[c].ctx = x
      /\ \A d \in SslClients \ {c} : client'[d] = client[d]
      /\ registry'[k] = x /\ \A j \in CacheKeys \ {k} : registry'[j] = registry[j]
  BY <1>1, <1>2, <1>3 DEF Created, SslTypeOK, SslThreads, NoOp
<1>5. SslTypeOK'
  <2>1. NoOp \in OpType
    BY DEF OpType, NoOp
  <2>2. Created(k, ok) \in CtxType
    BY DEF Created, CtxType
  <2>3. QED
    BY <1>1, <1>2, <1>3, <2>1, <2>2 DEF SslTypeOK
<1>6. Linked'
  <2>1. ASSUME NEW d \in SslClients
        PROVE  IF client'[d].st = "up" THEN client'[d].ctx # 0 /\ Keyed(client[d].ctx)'
                                       ELSE client'[d].ctx = 0
    <3>1. CASE d = c
      BY <1>3, <1>4, <3>1 DEF Keyed
    <3>2. CASE d # c
      BY <1>3, <1>4, <3>2 DEF Linked, Keyed, SslTypeOK
    <3>3. QED
      BY <3>1, <3>2
  <2>2. ASSUME NEW s \in SslServers, server'[s].ctx # 0
        PROVE  sctx'[server'[s].ctx].made /\ sctx'[server'[s].ctx].key = "none"
    BY <1>2, <1>3, <1>4, <2>2 DEF Linked, SslTypeOK, ServerType
  <2>3. ASSUME NEW j \in CacheKeys, registry'[j] # 0
        PROVE  /\ Keyed(registry[j])' /\ ~sctx'[registry'[j]].freed
               /\ sctx'[registry'[j]].key = j
    BY <1>3, <1>4, <2>3 DEF Linked, Keyed, SslTypeOK
  <2>4. \A y \in Contexts : ~sctx'[y].made => sctx'[y].key = "none"
    BY <1>4 DEF Linked
  <2>5. QED
    BY <2>1, <2>2, <2>3, <2>4 DEF Linked
<1>7. UnderWay'
  BY <1>3, <1>4, SslAssumption DEF UnderWay, Keyed, SslTypeOK, OpType, SslThreads
<1>8. /\ Cardinality(Users(x)') = Cardinality(Users(x)) + 1
      /\ \A y \in Contexts \ {x} : Users(y)' = Users(y)
  BY <1>1, <1>3, Joins
<1>9. Counted'
  <2>1. Users(x) = {}
    BY <1>3 DEF Users, Linked, Keyed
  <2>2. QED
    BY <1>4, <1>8, <2>1, FS_EmptySet DEF Counted
<1>10. Alone'
  <2>1. SUFFICES ASSUME ~workers, NEW y \in Contexts, Users(y)' # {}
                 PROVE  registry'[sctx'[y].key] = y
    BY <1>2, <1>4, SslAssumption DEF Alone
  <2>2. CASE y = x
    BY <1>4, <2>2
  <2>3. CASE y # x
    <3>1. Users(y) # {} /\ registry[sctx[y].key] = y /\ registry[k] = 0
      BY <1>0, <1>8, <2>1, <2>3 DEF Alone
    <3>2. sctx[y].key \in CacheKeys /\ y # 0
      BY <3>1, SslAssumption DEF Users, Linked, Keyed, Contexts
    <3>3. QED
      BY <1>4, <2>3, <3>1, <3>2
  <2>4. QED
    BY <2>2, <2>3
<1>11. QED
  BY <1>5, <1>6, <1>7, <1>9, <1>10

\* A release takes one user away; the thread that saw the last one clears.
LEMMA ReleaseCountsInv ==
  ASSUME SslInv, NEW t \in SslThreads, NEW c \in SslClients, ReleaseCounts(t, c)
  PROVE  SslInv'
<1> USE DEF SslInv
<1>0. client[c].ctx \in Contexts /\ Keyed(client[c].ctx)
  BY DEF ReleaseCounts, Linked, SslTypeOK
<1> PICK x \in Contexts : x = client[c].ctx
  BY <1>0
<1> PICK o : o = IF Last(sctx[x].count) THEN [kind |-> "clear", client |-> c, ctx |-> x] ELSE NoOp
  OBVIOUS
<1>1. /\ client' = [client EXCEPT ![c] = [st |-> "ended", ctx |-> 0]]
      /\ sctx' = [sctx EXCEPT ![x].count = @ - 1]
      /\ op' = [op EXCEPT ![t] = o]
      /\ UNCHANGED <<registry, server, workers>>
      /\ op[t] = NoOp /\ (t = "main" \/ workers)
  BY DEF ReleaseCounts
<1>2. o \in OpType /\ ((o.kind = "clear" /\ o.ctx = x /\ Last(sctx[x].count)) \/ o.kind = "none")
  BY DEF OpType, NoOp
<1>3. /\ sctx'[x].count = sctx[x].count - 1
      /\ \A y \in Contexts :
           /\ sctx'[y].key = sctx[y].key /\ sctx'[y].made = sctx[y].made
           /\ sctx'[y].freed = sctx[y].freed
           /\ y # x => sctx'[y].count = sctx[y].count
      /\ op'[t] = o /\ \A u \in SslThreads \ {t} : op'[u] = op[u]
      /\ client'[c].st = "ended" /\ client'[c].ctx = 0
      /\ \A d \in SslClients \ {c} : client'[d] = client[d]
  BY <1>1 DEF SslTypeOK, CtxType
<1>4. SslTypeOK'
  <2>1. sctx' \in [Contexts -> CtxType]
    <3>1. sctx[x] \in CtxType /\ sctx[x].count - 1 \in Int
      BY DEF SslTypeOK, CtxType
    <3>2. QED
      BY <1>1, <3>1 DEF SslTypeOK, CtxType
  <2>2. QED
    BY <1>1, <1>2, <2>1 DEF SslTypeOK
<1>5. Linked'
  <2>1. ASSUME NEW d \in SslClients
        PROVE  IF client'[d].st = "up" THEN client'[d].ctx # 0 /\ Keyed(client[d].ctx)'
                                       ELSE client'[d].ctx = 0
    BY <1>3 DEF Linked, Keyed, SslTypeOK
  <2>2. ASSUME NEW s \in SslServers, server'[s].ctx # 0
        PROVE  sctx'[server'[s].ctx].made /\ sctx'[server'[s].ctx].key = "none"
    BY <1>1, <1>3, <2>2 DEF Linked, SslTypeOK, ServerType
  <2>3. ASSUME NEW j \in CacheKeys, registry'[j] # 0
        PROVE  /\ Keyed(registry[j])' /\ ~sctx'[registry'[j]].freed
               /\ sctx'[registry'[j]].key = j
    BY <1>1, <1>3, <2>3 DEF Linked, Keyed, SslTypeOK
  <2>4. \A y \in Contexts : ~sctx'[y].made => sctx'[y].key = "none"
    BY <1>3, ZenonT(60) DEF Linked
  <2>5. QED
    BY <2>1, <2>2, <2>3, <2>4 DEF Linked
<1>6. UnderWay'
  <2>1. ASSUME NEW u \in SslThreads, op'[u].kind = "clear"
        PROVE  op'[u].ctx # 0 /\ Keyed(op[u].ctx)'
    <3>1. CASE u = t
      BY <1>0, <1>2, <1>3, <2>1, <3>1, SslAssumption DEF Keyed, Contexts
    <3>2. CASE u # t
      BY <1>3, <2>1, <3>2 DEF UnderWay, Keyed, SslTypeOK, OpType
    <3>3. QED
      BY <3>1, <3>2
  <2>2. CASE t = "main"
    <3>1. op'["main"].kind \notin CacheKeys /\ op'["io"] = op["io"]
      BY <1>2, <1>3, <2>2, SslAssumption DEF SslThreads
    <3>2. QED
      BY <2>1, <3>1 DEF UnderWay
  <2>3. CASE t = "io"
    <3>1. op'["io"].kind \notin CacheKeys /\ op'["main"] = op["main"]
      BY <1>2, <1>3, <2>3, SslAssumption DEF SslThreads
    <3>2. op["main"].kind \in CacheKeys => client'[op["main"].client].st = "new"
      BY <1>3 DEF UnderWay, ReleaseCounts
    <3>3. QED
      BY <1>3, <2>1, <3>1, <3>2 DEF UnderWay, Keyed, SslTypeOK, OpType, SslThreads
  <2>4. QED
    BY <2>2, <2>3 DEF SslThreads
<1>7. /\ Cardinality(Users(x)') = Cardinality(Users(x)) - 1 /\ Users(x) # {}
      /\ \A y \in Contexts \ {x} : Users(y)' = Users(y)
  BY <1>1, Leaves
<1>8. Counted'
  BY <1>3, <1>7 DEF Counted
<1>9. Alone'
  <2>1. SUFFICES ASSUME ~workers PROVE Alone'
    BY <1>1 DEF Alone
  <2>2. t = "main" /\ op'["io"].kind = "none"
    BY <1>1, <1>3, <2>1 DEF Alone, SslThreads
  <2>3. ASSUME NEW y \in Contexts, Users(y)' # {} PROVE registry'[sctx'[y].key] = y
    BY <1>1, <1>3, <1>7, <2>1, <2>3, ZenonT(60) DEF Alone
  <2>4. ASSUME o.kind = "clear" PROVE Users(x)' = {} /\ registry[sctx[x].key] = x
    <3>1. sctx[x].count = Cardinality(Users(x)) /\ sctx[x].count <= 1
      BY <1>0, <1>2, <2>4, SslAssumption DEF Counted, Keyed, Last
    <3>2. /\ Cardinality(Users(x)) \in Nat
          /\ IsFiniteSet(Users(x)') /\ Cardinality(Users(x)') \in Nat
      <4>1. Users(x) \subseteq SslClients /\ Users(x)' \subseteq SslClients
        BY DEF Users
      <4>2. QED
        BY <4>1, SslAssumption, FS_Subset, FS_CardinalityType
    <3>3. Cardinality(Users(x)') = 0
      BY <1>7, <3>1, <3>2
    <3>4. QED
      BY <1>7, <2>1, <3>2, <3>3, FS_EmptySet DEF Alone
  <2>5. op'["main"] = o /\ (o.kind = "clear" => o.ctx = x) /\ o.kind \notin CacheKeys
    BY <1>2, <1>3, <2>2, SslAssumption
  <2>6. o.kind = "clear" => Users(op["main"].ctx)' = {}
    BY <2>4, <2>5 DEF Users
  <2>7. o.kind = "clear" => registry'[sctx'[op'["main"].ctx].key] = op'["main"].ctx
    BY <1>1, <1>3, <2>4, <2>5, ZenonT(60)
  <2>8. QED
    BY <2>2, <2>3, <2>5, <2>6, <2>7 DEF Alone
<1>10. QED
  BY <1>4, <1>5, <1>6, <1>8, <1>9

\* The registry entry goes, whatever it holds by then; without workers it is the
\* context whose last user left.
LEMMA ReleaseClearsInv ==
  ASSUME SslInv, NEW t \in SslThreads, ReleaseClears(t)
  PROVE  SslInv'
<1> USE DEF SslInv
<1>0. op[t].ctx \in Contexts /\ Keyed(op[t].ctx)
  BY DEF ReleaseClears, UnderWay, SslTypeOK, OpType
<1> PICK x \in Contexts, k \in CacheKeys : x = op[t].ctx /\ k = sctx[x].key
  BY <1>0 DEF Keyed
<1>1. /\ registry' = [registry EXCEPT ![k] = 0]
      /\ op' = [op EXCEPT ![t] = NoOp] /\ op[t].kind = "clear"
      /\ UNCHANGED <<sctx, client, server, workers>>
  BY DEF ReleaseClears
<1>2. /\ op'[t].kind = "none" /\ \A u \in SslThreads \ {t} : op'[u] = op[u]
      /\ registry'[k] = 0 /\ \A j \in CacheKeys \ {k} : registry'[j] = registry[j]
  BY <1>1 DEF SslTypeOK, NoOp
<1>3. SslTypeOK'
  <2>1. NoOp \in OpType
    BY DEF OpType, NoOp
  <2>2. QED
    BY <1>1, <2>1 DEF SslTypeOK
<1>4. Linked'
  BY <1>1, <1>2, ZenonT(60) DEF Linked, Keyed
<1>5. UnderWay'
  BY <1>1, <1>2, SslAssumption, ZenonT(60) DEF UnderWay, Keyed, SslThreads
<1>6. Counted'
  BY <1>1 DEF Counted, Users
<1>7. Alone'
  <2>1. SUFFICES ASSUME ~workers PROVE Alone'
    BY <1>1 DEF Alone
  <2>2. t = "main" /\ Users(x) = {} /\ registry[k] = x
    BY <1>1, <2>1 DEF Alone, SslThreads
  <2>3. op'["io"].kind = "none" /\ op'["main"].kind = "none"
    BY <1>2, <2>1, <2>2 DEF Alone, SslThreads
  <2>4. ASSUME NEW y \in Contexts, Users(y)' # {} PROVE registry'[sctx'[y].key] = y
    <3>1. Users(y)' = Users(y)
      BY <1>1 DEF Users
    <3>2. sctx[y].key \in CacheKeys /\ registry[sctx[y].key] = y /\ y # x
      BY <2>1, <2>2, <2>4, <3>1, SslAssumption DEF Users, Linked, Keyed, Alone, Contexts
    <3>3. QED
      BY <1>1, <1>2, <2>2, <3>2
  <2>5. QED
    BY <2>3, <2>4, SslAssumption DEF Alone
<1>8. QED
  BY <1>3, <1>4, <1>5, <1>6, <1>7

\* A step of a server that makes no context leaves the shared ones alone.
LEMMA ServerInv ==
  ASSUME SslInv, server' \in [SslServers -> ServerType],
         \A s \in SslServers : server'[s].ctx \in {0, server[s].ctx},
         UNCHANGED <<sctx, registry, client, op, workers>>
  PROVE  SslInv'
<1> USE DEF SslInv
<1>1. SslTypeOK'
  BY DEF SslTypeOK
<1>2. Linked' /\ UnderWay'
  BY ZenonT(60) DEF Linked, UnderWay, Keyed
<1>3. Counted' /\ Alone'
  BY DEF Counted, Alone, Users
<1>4. QED
  BY <1>1, <1>2, <1>3

\* A server's own context is none of the shared ones.
LEMMA BindInv ==
  ASSUME SslInv, NEW s \in SslServers, NEW ssl \in BOOLEAN, NEW listening \in BOOLEAN,
         tcpd_bind(s, ssl, listening)
  PROVE  SslInv'
<1> USE DEF SslInv
<1>1. PICK x \in IF ssl THEN Unmade ELSE {0} :
        /\ server' = [server EXCEPT ![s] =
                        [st |-> "up", ctx |-> x, listening |-> listening,
                         held |-> IF listening THEN BoundObject(ssl) ELSE "nothing"]]
        /\ sctx' = IF ssl THEN [sctx EXCEPT ![x] = Created("none", TRUE)] ELSE sctx
  BY DEF tcpd_bind
<1>2. UNCHANGED <<registry, client, op, workers>>
  BY DEF tcpd_bind
<1>3. x \in Contexts \cup {0}
  BY <1>1 DEF Unmade
<1>4. /\ server' \in [SslServers -> ServerType]
      /\ server'[s].ctx = x /\ \A r \in SslServers \ {s} : server'[r] = server[r]
  <2>1. PICK h \in {"nothing", "server", "context"} :
          h = IF listening THEN BoundObject(ssl) ELSE "nothing"
    BY DEF BoundObject
  <2>2. server' = [server EXCEPT ![s] = [st |-> "up", ctx |-> x, listening |-> listening,
                                         held |-> h]]
    BY <1>1, <2>1
  <2>3. [st |-> "up", ctx |-> x, listening |-> listening, held |-> h] \in ServerType
    BY <1>3 DEF ServerType
  <2>4. QED
    BY <2>2, <2>3 DEF SslTypeOK
<1>5. CASE ~ssl
  BY <1>1, <1>2, <1>4, <1>5, ServerInv DEF SslTypeOK
<1>6. CASE ssl
  <2>1. x \in Contexts /\ ~sctx[x].made /\ sctx[x].key = "none" /\ x # 0
    <3>1. x \in Contexts /\ ~sctx[x].made
      BY <1>1, <1>6 DEF Unmade
    <3>2. sctx[x].key = "none"
      BY <3>1 DEF Linked
    <3>3. x # 0
      BY <3>1, SslAssumption DEF Contexts
    <3>4. QED
      BY <3>1, <3>2, <3>3
  <2>2. /\ sctx'[x].key = "none" /\ sctx'[x].made
        /\ \A y \in Contexts \ {x} : sctx'[y] = sctx[y]
        /\ sctx' \in [Contexts -> CtxType]
    <3>1. Created("none", TRUE) \in CtxType
      BY DEF Created, CtxType
    <3>2. QED
      BY <1>1, <1>6, <2>1, <3>1 DEF Created, SslTypeOK
  <2>3. SslTypeOK'
    BY <1>2, <1>4, <2>2 DEF SslTypeOK
  <2>4. Linked'
    <3>1. ASSUME NEW d \in SslClients
          PROVE  IF client'[d].st = "up" THEN client'[d].ctx # 0 /\ Keyed(client[d].ctx)'
                                         ELSE client'[d].ctx = 0
      BY <1>2, <2>1, <2>2 DEF Linked, Keyed, SslTypeOK
    <3>2. ASSUME NEW r \in SslServers, server'[r].ctx # 0
          PROVE  sctx'[server'[r].ctx].made /\ sctx'[server'[r].ctx].key = "none"
      BY <1>4, <2>1, <2>2, <3>2 DEF Linked, SslTypeOK, ServerType
    <3>3. ASSUME NEW j \in CacheKeys, registry'[j] # 0
          PROVE  /\ Keyed(registry[j])' /\ ~sctx'[registry'[j]].freed
                 /\ sctx'[registry'[j]].key = j
      BY <1>2, <2>1, <2>2, <3>3 DEF Linked, Keyed, SslTypeOK
    <3>4. \A y \in Contexts : ~sctx'[y].made => sctx'[y].key = "none"
      BY <2>2 DEF Linked
    <3>5. QED
      BY <3>1, <3>2, <3>3, <3>4 DEF Linked
  <2>5. UnderWay'
    BY <1>2, <2>1, <2>2, ZenonT(60) DEF UnderWay, Keyed, SslTypeOK, OpType, SslThreads
  <2>6. \A y \in Contexts : Users(y)' = Users(y)
    BY <1>2 DEF Users
  <2>7. Counted'
    BY <2>1, <2>2, <2>6 DEF Counted
  <2>8. Alone'
    <3>1. Users(x) = {}
      BY <2>1 DEF Users, Linked, Keyed
    <3>2. op["main"].kind \notin CacheKeys \cup {"clear"}
      BY SslAssumption DEF tcpd_bind, NoOp
    <3>3. QED
      BY <1>2, <2>2, <2>6, <3>1, <3>2 DEF Alone
  <2>9. QED
    BY <2>3, <2>4, <2>5, <2>7, <2>8
<1>7. QED
  BY <1>5, <1>6

\* The collector frees no context that a look-up or the registry holds, and takes
\* a share from none that has a key.
LEMMA CollectEffect ==
  ASSUME SslInv, collectgarbage, NEW x \in Contexts
  PROVE  /\ sctx'[x] \in CtxType
         /\ sctx'[x].made = sctx[x].made /\ sctx'[x].key = sctx[x].key
         /\ sctx[x].key # "none" => sctx'[x].count = sctx[x].count
         /\ Reachable(x) /\ ~sctx[x].freed => ~sctx'[x].freed
<1> USE DEF SslInv
<1> DEFINE lost == {s \in SslServers : server[s].st = "up" /\ server[s].held # "server"}
           dead == {y \in Contexts : sctx[y].made /\ ~sctx[y].freed /\ ~Reachable(y)}
           own == {s \in lost : server[s].ctx = x}
<1>1. sctx'[x] = [sctx[x] EXCEPT !.freed = @ \/ x \in dead, !.count = @ - Cardinality(own)]
  <2>1. sctx' = [y \in Contexts |->
                   [sctx[y] EXCEPT !.freed = @ \/ y \in dead,
                                   !.count = @ - Cardinality({s \in lost : server[s].ctx = y})]]
    BY DEF collectgarbage
  <2>2. QED
    BY <2>1, Zenon
<1>2. PICK n \in Nat : n = Cardinality(own)
  <2>1. own \subseteq SslServers
    OBVIOUS
  <2>2. QED
    BY <2>1, SslAssumption, FS_Subset, FS_CardinalityType
<1>3. sctx[x].key # "none" => n = 0
  <2>1. sctx[x].key # "none" => own = {}
    BY SslAssumption DEF Linked, Contexts
  <2>2. QED
    BY <1>2, <2>1, FS_EmptySet
<1>4. PICK b \in BOOLEAN : b = (sctx[x].freed \/ x \in dead)
  OBVIOUS
<1>5. Reachable(x) /\ ~sctx[x].freed => ~b
  BY <1>4
<1> HIDE DEF lost, dead, own
<1>6. sctx'[x] = [sctx[x] EXCEPT !.freed = b, !.count = sctx[x].count - n]
  BY <1>1, <1>2, <1>4, Zenon
<1>7. sctx[x] \in CtxType
  BY DEF SslTypeOK
<1>8. PICK m \in Int : m = sctx[x].count - n
  BY <1>7 DEF CtxType
<1>9. sctx'[x] = [sctx[x] EXCEPT !.freed = b, !.count = m]
  BY <1>6, <1>8
<1>10. sctx'[x] \in CtxType
  BY <1>7, <1>9, Zenon DEF CtxType
<1>11. /\ sctx'[x].made = sctx[x].made /\ sctx'[x].key = sctx[x].key
       /\ sctx'[x].count = m /\ sctx'[x].freed = b
  BY <1>7, <1>9 DEF CtxType
<1>12. sctx[x].key # "none" => m = sctx[x].count
  BY <1>3, <1>7, <1>8 DEF CtxType
<1>13. QED
  BY <1>5, <1>10, <1>11, <1>12

\* A cycle of the collector keeps the invariant.
LEMMA CollectInv ==
  ASSUME SslInv, collectgarbage
  PROVE  SslInv'
<1> USE DEF SslInv
<1>1. UNCHANGED <<registry, client, op, workers>>
  BY DEF collectgarbage
<1>2. \A x \in Contexts :
        /\ sctx'[x] \in CtxType
        /\ sctx'[x].made = sctx[x].made /\ sctx'[x].key = sctx[x].key
        /\ sctx[x].key # "none" => sctx'[x].count = sctx[x].count
        /\ Reachable(x) /\ ~sctx[x].freed => ~sctx'[x].freed
  BY CollectEffect
<1>3. /\ server' \in [SslServers -> ServerType]
      /\ \A s \in SslServers : server'[s].ctx \in {0, server[s].ctx}
  <2>1. ASSUME NEW s \in SslServers
        PROVE  server'[s] \in ServerType /\ server'[s].ctx \in {0, server[s].ctx}
    <3>1. server[s] \in ServerType
      BY DEF SslTypeOK
    <3>2. server'[s] = tcpd_server_gc(s, "collected") \/ server'[s] = server[s]
      BY DEF collectgarbage
    <3>3. QED
      BY <3>1, <3>2 DEF tcpd_server_gc, ServerType
  <2>2. server' = [s \in SslServers |-> server'[s]]
    BY DEF collectgarbage
  <2>3. QED
    BY <2>1, <2>2
<1>4. SslTypeOK'
  <2>1. sctx' = [x \in Contexts |-> sctx'[x]]
    BY DEF collectgarbage
  <2>2. sctx' \in [Contexts -> CtxType]
    BY <1>2, <2>1
  <2>3. QED
    BY <1>1, <1>3, <2>2 DEF SslTypeOK
<1>5. Linked'
  <2>1. ASSUME NEW d \in SslClients
        PROVE  IF client'[d].st = "up" THEN client'[d].ctx # 0 /\ Keyed(client[d].ctx)'
                                       ELSE client'[d].ctx = 0
    BY <1>1, <1>2 DEF Linked, Keyed, SslTypeOK
  <2>2. ASSUME NEW s \in SslServers, server'[s].ctx # 0
        PROVE  sctx'[server'[s].ctx].made /\ sctx'[server'[s].ctx].key = "none"
    BY <1>2, <1>3, <2>2 DEF Linked, SslTypeOK, ServerType
  <2>3. ASSUME NEW j \in CacheKeys, registry'[j] # 0
        PROVE  /\ Keyed(registry[j])' /\ ~sctx'[registry'[j]].freed
               /\ sctx'[registry'[j]].key = j
    <3>1. registry[j] \in Contexts /\ Reachable(registry[j])
      BY <1>1, <2>3 DEF SslTypeOK, Reachable
    <3>2. QED
      BY <1>1, <1>2, <2>3, <3>1 DEF Linked, Keyed
  <2>4. \A y \in Contexts : ~sctx'[y].made => sctx'[y].key = "none"
    BY <1>2 DEF Linked
  <2>5. QED
    BY <2>1, <2>2, <2>3, <2>4 DEF Linked
<1>6. UnderWay'
  <2>1. op["main"].kind \in CacheKeys /\ op["main"].ctx # 0 =>
          op["main"].ctx \in Contexts /\ Reachable(op["main"].ctx)
    BY DEF SslTypeOK, OpType, SslThreads, Reachable
  <2>2. QED
    BY <1>1, <1>2, <2>1 DEF UnderWay, Keyed, SslTypeOK, OpType
<1>7. \A y \in Contexts : Users(y)' = Users(y)
  BY <1>1 DEF Users
<1>8. Counted'
  BY <1>2, <1>7 DEF Counted
<1>9. Alone'
  <2>1. op["main"].kind = "clear" => op["main"].ctx \in Contexts
    BY DEF UnderWay, SslTypeOK, OpType, SslThreads
  <2>2. op["main"].kind = "clear" => Users(op["main"].ctx)' = Users(op["main"].ctx)
    BY <1>1 DEF Users
  <2>3. QED
    BY <1>1, <1>2, <1>7, <2>1, <2>2 DEF Alone
<1>10. QED
  BY <1>4, <1>5, <1>6, <1>8, <1>9

-----------------------------------------------------------------------------
(* Theorem *)

\* The invariant holds of every reachable state.
LEMMA SslInvariant == SslSpec => []SslInv
<1>1. ASSUME SslInv, [SslNext]_sslVars PROVE SslInv'
  <2>1. ASSUME NEW c \in SslClients, NEW k \in CacheKeys, GetLooksUp(c, k) PROVE SslInv'
    BY <1>1, <2>1, GetLooksUpInv
  <2>2. ASSUME NEW ok \in BOOLEAN, tcpd_ssl_context_get_or_create(ok) PROVE SslInv'
    BY <1>1, <2>2, RetainInv, CreateInv
  <2>3. ASSUME NEW t \in SslThreads, ReleaseClears(t) PROVE SslInv'
    BY <1>1, <2>3, ReleaseClearsInv
  <2>4. ASSUME NEW t \in SslThreads, NEW c \in SslClients, ReleaseCounts(t, c) PROVE SslInv'
    BY <1>1, <2>4, ReleaseCountsInv
  <2>5. ASSUME NEW s \in SslServers, NEW ssl \in BOOLEAN, NEW listening \in BOOLEAN,
               tcpd_bind(s, ssl, listening)
        PROVE  SslInv'
    BY <1>1, <2>5, BindInv
  <2>6. ASSUME NEW s \in SslServers, NEW listening \in BOOLEAN, tcpd_server_rebind(s, listening)
        PROVE  SslInv'
    <3>1. /\ server' \in [SslServers -> ServerType]
          /\ \A r \in SslServers : server'[r].ctx \in {0, server[r].ctx}
      BY <1>1, <2>6 DEF SslInv, SslTypeOK, ServerType, tcpd_server_rebind
    <3>2. QED
      BY <1>1, <2>6, <3>1, ServerInv DEF tcpd_server_rebind
  <2>7. ASSUME NEW s \in SslServers, tcpd_server_close(s) PROVE SslInv'
    <3>1. server[s] \in ServerType
      BY <1>1 DEF SslInv, SslTypeOK
    <3>2. PICK r : r = tcpd_server_gc(s, "closed")
      OBVIOUS
    <3>3. r \in ServerType /\ r.ctx = 0
      BY <3>1, <3>2 DEF ServerType, tcpd_server_gc
    <3>4. server' = [server EXCEPT ![s] = r]
      BY <2>7, <3>2 DEF tcpd_server_close
    <3>5. /\ server' \in [SslServers -> ServerType]
          /\ \A q \in SslServers : server'[q].ctx \in {0, server[q].ctx}
      BY <1>1, <3>3, <3>4 DEF SslInv, SslTypeOK
    <3>6. QED
      BY <1>1, <2>7, <3>5, ServerInv DEF tcpd_server_close
  <2>8. ASSUME NEW s \in SslServers, Forget(s) PROVE SslInv'
    <3>1. /\ server' \in [SslServers -> ServerType]
          /\ \A r \in SslServers : server'[r].ctx \in {0, server[r].ctx}
      BY <1>1, <2>8 DEF SslInv, SslTypeOK, ServerType, Forget
    <3>2. QED
      BY <1>1, <2>8, <3>1, ServerInv DEF Forget
  <2>9. CASE collectgarbage
    BY <1>1, <2>9, CollectInv
  <2>10. CASE UNCHANGED sslVars
    <3>1. SslTypeOK'
      BY <1>1, <2>10 DEF SslInv, sslVars, SslTypeOK
    <3>2. Linked'
      BY <1>1, <2>10 DEF SslInv, sslVars, Linked, Keyed
    <3>3. UnderWay'
      BY <1>1, <2>10 DEF SslInv, sslVars, UnderWay, Keyed
    <3>4. Counted'
      BY <1>1, <2>10 DEF SslInv, sslVars, Counted, Users
    <3>5. Alone'
      BY <1>1, <2>10 DEF SslInv, sslVars, Alone, Users
    <3>6. QED
      BY <3>1, <3>2, <3>3, <3>4, <3>5 DEF SslInv
  <2>11. QED
    BY <1>1, <2>1, <2>2, <2>3, <2>4, <2>5, <2>6, <2>7, <2>8, <2>9, <2>10 DEF SslNext
<1>2. QED
  BY <1>1, SslInitInv, PTL DEF SslSpec

\* The retain count of a shared context is the number of connections using it
\* whatever the threads interleave, and without workers a context in use is the
\* registered one and is not collected (tcpd_ssl.c get_or_create, release).
THEOREM SslContextShared == SslSpec => []SslShared
<1>1. SslInv => SslShared
  <2>1. SUFFICES ASSUME SslInv, NEW x \in Contexts, ~workers, Users(x) # {}
                 PROVE  ~sctx[x].freed /\ registry[sctx[x].key] = x
    BY DEF SslInv, SslShared, Counted
  <2>2. registry[sctx[x].key] = x
    BY <2>1 DEF SslInv, Alone
  <2>3. sctx[x].key \in CacheKeys /\ x # 0
    BY <2>1, SslAssumption DEF SslInv, Linked, Keyed, Users, Contexts
  <2>4. QED
    BY <2>1, <2>2, <2>3 DEF SslInv, Linked
<1>2. QED
  BY <1>1, SslInvariant, PTL

=============================================================================
