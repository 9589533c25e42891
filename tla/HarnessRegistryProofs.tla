------------------------ MODULE HarnessRegistryProofs -----------------------
(* One meaning per harness name, for any hosts, names, specs and requests: *)
(* the invariants and the action property of HarnessRegistry.              *)
EXTENDS HarnessRegistry, FiniteSetTheorems, SequenceTheorems, WellFoundedInduction, TLAPS

AllRequests == UNION {Menu[c] : c \in Calls}

Checking == [why : {"unserved", "collides", "pinned", "added", "memory"}, name : Names]

Locals ==
    [stored : Names \cup {None}, target : Names \cup {None}, todo : Seq(Checking),
     after : Names \cup {0}, got : Seq(SUBSET Names),
     pin : Specs \cup {Builtin, None}, known : SUBSET Names, owed : SUBSET Names]

(* The operation whose handler a call is in.                               *)
Steps(op) ==
    CASE op = "Register" -> {"Register", "Write", "WriteBuilt", "Publish"}
      [] op = "Retire"   -> {"Retire"}
      [] op = "List"     -> {"List", "Listed"}
      [] op = "Create"   -> {"Create", "Put", "Route", "Checks"}
      [] op = "Exec"     -> {"Route", "Checks"}
      [] op = "Fork"     -> {"Route", "Checks", "Metadata"}
      [] OTHER           -> {"Route", "Resolve", "Checks"}

(* A call has a request while it is in a handler of it.                    *)
CallsInv ==
    /\ req \in [Calls -> AllRequests \cup {None}]
    /\ loc \in [Calls -> Locals]
    /\ \A c \in Calls :
          IF pc[c] \in {"idle", "done"} THEN req[c] = None /\ loc[c] = NoLocals
          ELSE req[c] \in AllRequests /\ pc[c] \in Steps(req[c].op)

(* NamesMeanOneHarness, and what will be published is what the row holds.  *)
TablesInv ==
    /\ reserved \cap Registered = {}
    /\ \A h \in Hosts : page[h] \subseteq Registered
    /\ \A h \in Hosts, n \in Names :
          /\ placer[h][n] = Builtin <=> n \in Static[h]
          /\ placer[h][n] \in Specs =>
                n \notin Held[h] /\ n \in Registered /\ rows[n].spec = placer[h][n]
    /\ \A c \in Calls : pc[c] = "Publish" =>
          req[c].name \in Registered /\ rows[req[c].name].spec = req[c].spec

(* mu is held by the one registration between Prepare and its end, and a   *)
(* backend that is not kept is the one it built.                           *)
Holds(c, h) == pc[c] \in {"Write", "WriteBuilt", "Publish"} /\ req[c].h = h

Builds1(h, n) ==
    /\ mu[h] # None /\ pc[mu[h]] \in {"WriteBuilt", "Publish"} /\ req[mu[h]].name = n

BackendsInv ==
    /\ \A h \in Hosts : mu[h] # None => Holds(mu[h], h)
    /\ \A h \in Hosts, c \in Calls : Holds(c, h) => mu[h] = c
    /\ \A h \in Hosts, n \in Names :
          /\ open[h][n] = kept[h][n] + (IF Builds1(h, n) THEN 1 ELSE 0)
          /\ kept[h][n] = IF placer[h][n] \in Specs THEN 1 ELSE 0

(* The harness a session was created on is the one its row names.          *)
SessionsInv ==
    /\ \A s \in Sessions : home[s] \in Specs =>
          sess[s] \in Registered /\ rows[sess[s]].spec = home[s]
    /\ \A s \in Sessions : home[s] # None => sess[s] \in Names
    /\ \A c \in Calls : pc[c] = "Metadata" => sess[req[c].child] # None
    /\ \A c, d \in Calls : pc[c] = "Metadata" /\ pc[d] = "Metadata" /\ c # d => req[c].child # req[d].child

Left(c, why, n) == On(why, n) \in Range(loc[c].todo)

(* A call on its way to a Placer: what every check it has passed leaves    *)
(* behind, whatever the hosts do meanwhile.                                *)
RouteInv(c) ==
    LET h == req[c].h
        st == loc[c].stored
        n == loc[c].target
        resumed == req[c].op \in {"Resume", "Suspend"}
    IN
    /\ loc[c].known \subseteq Registered
    /\ pc[c] \in {"Resolve", "Checks"} =>
          /\ st \in Names
          /\ loc[c].pin \in Specs => st \in Registered /\ rows[st].spec = loc[c].pin
    /\ pc[c] = "Checks" =>
          /\ n \in Names
          /\ Left(c, "unserved", n) \/ placer[h][n] # None
          /\ Left(c, "collides", n) \/ (n \in Static[h] => n \notin loc[c].known)
          /\ n = st \/ ~resumed =>
                Left(c, "collides", st) \/ (loc[c].pin \in Specs => st \notin Static[h])
          /\ n # st => Left(c, "pinned", st) \/ (loc[c].pin \in Specs => st \in Static[h])
          /\ n # st /\ ~resumed => Left(c, "added", n) \/ n \in Static[h]
          /\ n # st /\ resumed =>
                /\ Left(c, "pinned", n) \/ n \in Static[h]
                /\ \A i \in 2..Len(loc[c].todo) : loc[c].todo[i].why # "unserved"

RoutesInv == \A c \in Calls : RouteInv(c)

IInv == TypeOK /\ CallsInv /\ TablesInv /\ BackendsInv /\ SessionsInv /\ RoutesInv

-----------------------------------------------------------------------------
(* The constants.                                                          *)
LEMMA NameFacts ==
    /\ Names \subseteq Nat /\ 0 \notin Names /\ IsFiniteSet(Names)
    /\ None \notin Specs /\ None # Builtin /\ None \notin Names /\ None # 0 /\ None \notin Calls
    /\ Builtin \notin Specs /\ None \notin Row /\ None \notin Turn
    /\ \A h \in Hosts : Static[h] \subseteq Names /\ Default \in Static[h] /\ Static[h] \subseteq Held[h]
    BY NamesAssumption

(* Every request a call may carry has the fields of its operation.         *)
LEMMA Requests == ASSUME NEW r \in AllRequests PROVE Request(r)
    BY MenuAssumption DEF AllRequests

(* A nonempty set of names has a least and a greatest element.             *)
LEMMA Extremes ==
    ASSUME NEW S \in SUBSET Names, S # {}
    PROVE  /\ Least(S) \in S /\ \A m \in S : Least(S) <= m
           /\ Greatest(S) \in S /\ \A m \in S : m <= Greatest(S)
<1> DEFINE Bare(T) == ~(\E lo, hi \in T : \A m \in T : lo <= m /\ m <= hi)
           Bad == {T \in SUBSET S : T # {} /\ Bare(T)}
<1>1. IsFiniteSet(S) /\ S \subseteq Nat
    BY NameFacts, FS_Subset
<1>2. ASSUME Bad # {} PROVE FALSE
  <2>1. IsWellFoundedOn(StrictSubsetOrdering(S), FiniteSubsetsOf(S))
      BY <1>1, FS_StrictSubsetOrderingWellFounded
  <2>2. Bad \subseteq FiniteSubsetsOf(S)
      BY <1>1, FS_Subset DEF FiniteSubsetsOf
  <2>3. PICK T \in Bad : \A U \in Bad : <<U, T>> \notin StrictSubsetOrdering(S)
      BY <1>2, <2>1, <2>2, WFMin
  <2>4. \A U \in Bad : ~(U \subseteq T /\ U # T)
      BY <2>3 DEF StrictSubsetOrdering
  <2>5. PICK x \in T : TRUE
      BY <2>3
  <2>6. T \ {x} # {}
      BY <1>1, <2>3, <2>5
  <2>7. T \ {x} \in SUBSET S /\ T \ {x} \notin Bad
      BY <2>3, <2>4, <2>5
  <2>8. ~Bare(T \ {x})
      BY <2>6, <2>7
  <2>9. PICK lo, hi \in T \ {x} : \A m \in T \ {x} : lo <= m /\ m <= hi
      BY <2>8
  <2>14. T \subseteq Nat
      BY <1>1, <2>3
  <2> HIDE DEF Bad, Bare
  <2>10. PICK l \in {lo, x} : l <= lo /\ l <= x
      BY <2>5, <2>9, <2>14
  <2>11. PICK g \in {hi, x} : hi <= g /\ x <= g
      BY <2>5, <2>9, <2>14
  <2>15. ASSUME NEW m \in T PROVE l <= m /\ m <= g
      BY <2>5, <2>9, <2>10, <2>11, <2>14
  <2>12. Bare(T)
      BY <2>3 DEF Bad
  <2> QED
      BY <2>5, <2>9, <2>10, <2>11, <2>12, <2>15 DEF Bare
<1>3. PICK lo, hi \in S : \A m \in S : lo <= m /\ m <= hi
    BY <1>2
<1> QED
    BY <1>3 DEF Least, Greatest

-----------------------------------------------------------------------------
(* Rows are never removed nor given another spec; what a host serves it    *)
(* serves as long as it runs.                                              *)
Grows == \A n \in Names : n \in Registered => rows'[n] # None /\ rows'[n].spec = rows[n].spec

Keeps(h) == \A n \in Names : placer[h][n] # None => placer'[h][n] = placer[h][n]

(* A call that does not move keeps what it has found.                      *)
LEMMA RouteStays ==
    ASSUME NEW d \in Calls, RouteInv(d), CallsInv, Grows, Keeps(req[d].h),
           pc'[d] = pc[d], req'[d] = req[d], loc'[d] = loc[d]
    PROVE  RouteInv(d)'
<1>1. loc[d] \in Locals
    BY DEF CallsInv
<1>2. loc[d].known \subseteq Names
    BY <1>1 DEF Locals
<1> QED
    BY <1>2 DEF RouteInv, Grows, Keeps, Registered, Left

(* A call that has not begun holds nothing.                                *)
LEMMA NoLocalsType == NoLocals \in Locals
  <1>1. <<>> \in Seq(Checking) /\ <<>> \in Seq(SUBSET Names)
      OBVIOUS
  <1> QED
      BY <1>1 DEF NoLocals, Locals

(* A call that returns leaves the others as they are.                      *)
LEMMA Returns ==
    ASSUME NEW c \in Calls, CallsInv, TypeOK, Return(c)
    PROVE  /\ CallsInv'
           /\ pc'[c] = "done" /\ req'[c] = None /\ loc'[c] = NoLocals
           /\ \A d \in Calls : d # c => pc'[d] = pc[d] /\ req'[d] = req[d] /\ loc'[d] = loc[d]
           /\ pc' \in [Calls -> {"idle", "Register", "Write", "WriteBuilt", "Publish", "Retire", "List",
                                 "Listed", "Create", "Put", "Route", "Resolve", "Checks",
                                       "Metadata", "done"}]
<1>1. /\ pc'[c] = "done" /\ req'[c] = None /\ loc'[c] = NoLocals
      /\ \A d \in Calls : d # c => pc'[d] = pc[d] /\ req'[d] = req[d] /\ loc'[d] = loc[d]
    BY DEF Return, CallsInv, TypeOK
<1>2. req' \in [Calls -> AllRequests \cup {None}] /\ loc' \in [Calls -> Locals]
    BY NoLocalsType DEF Return, CallsInv
<1>3. CallsInv'
    BY <1>1, <1>2 DEF CallsInv
<1> QED
    BY <1>1, <1>3 DEF Return, TypeOK

(* A call that returns owes its route nothing more.                        *)
LEMMA ReturnRoutes ==
    ASSUME NEW c \in Calls, CallsInv, TypeOK, Return(c), RoutesInv, Grows,
           \A d \in Calls : d # c => Keeps(req[d].h)
    PROVE  RoutesInv'
<1>1. ASSUME NEW d \in Calls, d # c PROVE RouteInv(d)'
    BY <1>1, Returns, RouteStays DEF RoutesInv
<1>2. RouteInv(c)'
    BY Returns DEF RouteInv, NoLocals
<1> QED
    BY <1>1, <1>2 DEF RoutesInv

(* A call that holds no mutex may fail, which changes nothing else.        *)
LEMMA Refusal ==
    ASSUME IInv, NEW c \in Calls, pc[c] \notin {"Write", "WriteBuilt", "Publish"}, Refuse(c)
    PROVE  IInv'
<1> USE DEF IInv
<1>1. UNCHANGED <<store, host>> /\ Return(c)
    BY DEF Refuse
<1>2. /\ UNCHANGED <<rows, reserved, sess, pending, home>>
      /\ UNCHANGED <<phase, placer, bad, page, after, mu, open, kept, starts>>
    BY <1>1 DEF store, host
<1>3. TypeOK'
    BY <1>1, <1>2, Returns DEF TypeOK
<1>4. CallsInv'
    BY <1>1, Returns
<1>5. TablesInv'
    BY <1>1, <1>2, Returns DEF TablesInv, Registered
<1>6. BackendsInv'
  <2>1. \A h \in Hosts : mu[h] # None => mu[h] # c /\ mu[h] \in Calls
      BY DEF BackendsInv, Holds, TypeOK
  <2>2. \A h \in Hosts : mu[h] # None => Holds(mu[h], h)'
      BY <1>1, <1>2, <2>1, Returns DEF BackendsInv, Holds
  <2>3. \A h \in Hosts, d \in Calls : Holds(d, h)' => Holds(d, h)
      BY <1>1, <1>2, Returns DEF Holds
  <2>4. \A h \in Hosts, n \in Names : Builds1(h, n)' <=> Builds1(h, n)
      BY <1>1, <1>2, <2>1, Returns DEF Builds1
  <2> QED
      BY <1>2, <2>2, <2>3, <2>4 DEF BackendsInv
<1>7. SessionsInv'
    BY <1>1, <1>2, Returns DEF SessionsInv, Registered
<1>8. RoutesInv'
    BY <1>1, <1>2, ReturnRoutes DEF Grows, Keeps, Registered
<1> QED
    BY <1>3, <1>4, <1>5, <1>6, <1>7, <1>8

-----------------------------------------------------------------------------
(* The steps of a host.                                                    *)

(* Calls do not notice that a host reserves, loads or serves.              *)
LEMMA CallsStay ==
    ASSUME IInv, UNCHANGED <<call, rows, sess, home>>, \A h \in Hosts : Keeps(h)
    PROVE  CallsInv' /\ SessionsInv' /\ RoutesInv'
<1> USE DEF IInv
<1>1. UNCHANGED <<pc, req, loc>>
    BY DEF call
<1>2. CallsInv'
    BY <1>1 DEF CallsInv
<1>3. SessionsInv'
    BY <1>1 DEF SessionsInv, Registered
<1>4. Grows
    BY DEF Grows, Registered
<1>5. ASSUME NEW d \in Calls PROVE RouteInv(d)'
  <2>1. CASE req[d] = None
    <3>1. pc[d] \in {"idle", "done"} /\ loc[d] = NoLocals
        BY <2>1, Requests DEF CallsInv, Request
    <3> QED
        BY <1>1, <3>1 DEF RouteInv, NoLocals
  <2>2. CASE req[d] # None
    <3>1. Keeps(req[d].h)
        BY <2>2, Requests DEF CallsInv, Request
    <3> QED
        BY <1>1, <1>4, <3>1, RouteStays DEF RoutesInv
  <2> QED
      BY <2>1, <2>2
<1> QED
    BY <1>2, <1>3, <1>5 DEF RoutesInv

(* A host's start, with or without registrations, keeps the invariant.     *)
LEMMA StartKeeps ==
    ASSUME IInv, NEW h \in Hosts, Start(h) \/ StartBare(h) \/ Serve(h)
    PROVE  IInv'
<1> USE DEF IInv
<1>1. /\ UNCHANGED <<rows, sess, pending, home, placer, bad, page, after, mu, open, kept, call>>
      /\ reserved' = reserved \/ (reserved' = reserved \cup Held[h] /\ Held[h] \cap Registered = {})
      /\ starts' \in 0..MaxStarts
      /\ \E p \in {"loading", "bare", "up"} : phase' = [phase EXCEPT ![h] = p]
    BY BoundsAssumption DEF Start, StartBare, Serve, ReserveHarnessNames, store, TypeOK
<1>2. Held[h] \subseteq Names
    BY NamesAssumption
<1>3. TypeOK'
    BY <1>1, <1>2 DEF TypeOK, call
<1>4. CallsInv' /\ SessionsInv' /\ RoutesInv'
    BY <1>1, CallsStay DEF Keeps
<1>5. TablesInv'
    BY <1>1 DEF TablesInv, Registered, call
<1>6. BackendsInv'
    BY <1>1 DEF BackendsInv, Holds, Builds1, call
<1> QED
    BY <1>3, <1>4, <1>5, <1>6

(* The read of a page of registrations keeps the invariant.                *)
LEMMA FetchPageKeeps ==
    ASSUME IInv, NEW h \in Hosts, FetchPage(h)
    PROVE  IInv'
<1> USE DEF IInv
<1> DEFINE recs == Smallest({n \in Registered : n > after[h]}, LoadPage)
<1>1. /\ UNCHANGED <<store, phase, placer, bad, mu, open, kept, starts, call>>
      /\ page' = [page EXCEPT ![h] = recs]
      /\ after' = [after EXCEPT ![h] = IF Cardinality(recs) < LoadPage THEN None ELSE Greatest(recs)]
    BY DEF FetchPage
<1>2. recs \subseteq Registered /\ recs \subseteq Names
    BY DEF Smallest, Registered
<1>3. Cardinality(recs) < LoadPage \/ Greatest(recs) \in Names
  <2>1. recs = {} => Cardinality(recs) = 0
      BY FS_EmptySet
  <2> HIDE DEF recs
  <2> QED
      BY <1>2, <2>1, Extremes, BoundsAssumption
<1> HIDE DEF recs
<1>4. TypeOK'
    BY <1>1, <1>2, <1>3 DEF TypeOK, call, store
<1>5. CallsInv' /\ SessionsInv' /\ RoutesInv'
    BY <1>1, CallsStay DEF Keeps, store
<1>6. TablesInv'
    BY <1>1, <1>2 DEF TablesInv, TypeOK, Registered, call, store
<1>7. BackendsInv'
    BY <1>1 DEF BackendsInv, Holds, Builds1, call
<1> QED
    BY <1>4, <1>5, <1>6, <1>7

(* The load of a registration, or its skipping, keeps the invariant.       *)
LEMMA LoadKeeps ==
    ASSUME IInv, NEW h \in Hosts, Load(h)
    PROVE  IInv'
<1> USE DEF IInv
<1> DEFINE n == Least(page[h])
<1>1. n \in page[h] /\ n \in Names /\ n \in Registered /\ rows[n].spec \in Specs
  <2>1. page[h] \in SUBSET Names /\ page[h] # {} /\ page[h] \subseteq Registered
      BY DEF Load, TypeOK, TablesInv
  <2>2. \A m \in Registered : rows[m] \in Row
      BY DEF Registered, TypeOK
  <2> QED
      BY <2>1, <2>2, Extremes DEF Row
<1> HIDE DEF n
<1>2. /\ UNCHANGED <<store, phase, after, mu, starts, call>>
      /\ page' = [page EXCEPT ![h] = @ \ {n}]
      /\ \/ bad' = [bad EXCEPT ![h] = @ \cup {n}] /\ UNCHANGED <<placer, open, kept>>
         \/ /\ n \notin Held[h] /\ placer[h][n] = None
            /\ placer' = [placer EXCEPT ![h][n] = rows[n].spec]
            /\ open' = [open EXCEPT ![h][n] = @ + 1]
            /\ kept' = [kept EXCEPT ![h][n] = @ + 1]
            /\ UNCHANGED bad
    BY DEF Load, MarkUnavailable, CanAdd, Has, n
<1>3. \A g \in Hosts : Keeps(g)
  <2>1. CASE UNCHANGED placer
      BY <2>1 DEF Keeps
  <2>2. CASE placer[h][n] = None /\ placer' = [placer EXCEPT ![h][n] = rows[n].spec]
      BY <1>1, <2>2 DEF Keeps, TypeOK
  <2> QED
      BY <1>2, <2>1, <2>2
<1>4. CallsInv' /\ SessionsInv' /\ RoutesInv'
    BY <1>2, <1>3, CallsStay DEF store
<1>5. UNCHANGED <<rows, reserved, sess, pending, home, pc, req, loc>>
    BY <1>2 DEF store, call
<1>6. CASE placer' = placer
  <2>1. UNCHANGED <<placer, open, kept>> /\ bad' \in [Hosts -> SUBSET Names]
    <3>1. placer[h][n] = None => [placer EXCEPT ![h][n] = rows[n].spec] # placer
        BY <1>1, NameFacts DEF TypeOK
    <3>2. bad' = [bad EXCEPT ![h] = @ \cup {n}] /\ UNCHANGED <<placer, open, kept>>
        BY <1>2, <1>6, <3>1
    <3> QED
        BY <1>1, <3>2 DEF TypeOK
  <2>2. TypeOK'
      BY <1>1, <1>2, <1>5, <2>1 DEF TypeOK
  <2>3. TablesInv'
      BY <1>2, <1>5, <1>6 DEF TablesInv, TypeOK, Registered
  <2>4. BackendsInv'
      BY <1>2, <1>5, <2>1 DEF BackendsInv, Holds, Builds1
  <2> QED
      BY <1>4, <2>2, <2>3, <2>4
<1>7. CASE placer' # placer
  <2>1. /\ n \notin Held[h] /\ placer[h][n] = None
        /\ placer' = [placer EXCEPT ![h][n] = rows[n].spec]
        /\ open' = [open EXCEPT ![h][n] = @ + 1]
        /\ kept' = [kept EXCEPT ![h][n] = @ + 1]
        /\ UNCHANGED bad
      BY <1>2, <1>7
  <2>2. TypeOK'
      BY <1>1, <1>2, <1>5, <2>1 DEF TypeOK
  <2>3. n \notin Static[h] /\ rows[n].spec # Builtin
      BY <1>1, <2>1, NameFacts
  <2>4. TablesInv'
      BY <1>1, <1>2, <1>5, <2>1, <2>3 DEF TablesInv, TypeOK, Registered
  <2>5. BackendsInv'
    <3>1. \A g \in Hosts, m \in Names : Builds1(g, m)' <=> Builds1(g, m)
        BY <1>2, <1>5 DEF Builds1
    <3>2. \A g \in Hosts, m \in Names :
              /\ open[g][m] \in Nat /\ kept[g][m] \in Nat
              /\ open'[g][m] = (IF g = h /\ m = n THEN open[g][m] + 1 ELSE open[g][m])
              /\ kept'[g][m] = (IF g = h /\ m = n THEN kept[g][m] + 1 ELSE kept[g][m])
              /\ placer'[g][m] = (IF g = h /\ m = n THEN rows[n].spec ELSE placer[g][m])
        BY <1>1, <2>1 DEF TypeOK
    <3>3. kept[h][n] = 0
        BY <1>1, <2>1, NameFacts DEF BackendsInv
    <3>4. \A g \in Hosts, m \in Names :
              /\ open'[g][m] = kept'[g][m] + (IF Builds1(g, m)' THEN 1 ELSE 0)
              /\ kept'[g][m] = IF placer'[g][m] \in Specs THEN 1 ELSE 0
        BY <1>1, <3>1, <3>2, <3>3 DEF BackendsInv
    <3> QED
        BY <1>2, <1>5, <3>4 DEF BackendsInv, Holds
  <2> QED
      BY <1>4, <2>2, <2>4, <2>5
<1> QED
    BY <1>6, <1>7

(* A host that is gone has no call in a handler.                           *)
LEMMA ForgetTables ==
    ASSUME IInv, NEW h \in Hosts, Forget(h), UNCHANGED store,
           open' \in [Hosts -> [Names -> Int]],
           \A n \in Names : open'[h][n] = 0,
           \A g \in Hosts : g # h => open'[g] = open[g],
           \A c \in Calls : IF c \in InFlight(h) THEN pc'[c] = "done" /\ req'[c] = None
                            ELSE pc'[c] = pc[c] /\ req'[c] = req[c],
           pc' \in [Calls -> {"idle", "Register", "Write", "WriteBuilt", "Publish", "Retire", "List",
                              "Listed", "Create", "Put", "Route", "Resolve", "Checks", "Metadata",
                                    "done"}]
    PROVE  TypeOK' /\ TablesInv' /\ BackendsInv' /\ SessionsInv'
<1> USE DEF IInv
<1>1. UNCHANGED <<rows, reserved, sess, pending, home, starts>>
    BY DEF store, Forget
<1>2. NewRegistry(h) \in [Names -> {Builtin, None}] /\ NoBackends \in [Names -> {0}]
    BY DEF NewRegistry, NoBackends
<1>3. /\ \A n \in Names : /\ placer'[h][n] = (IF n \in Static[h] THEN Builtin ELSE None)
                          /\ kept'[h][n] = 0
      /\ \A g \in Hosts : g # h => placer'[g] = placer[g] /\ kept'[g] = kept[g] /\ mu'[g] = mu[g] /\ page'[g] = page[g]
      /\ mu'[h] = None /\ page'[h] = {}
    BY DEF Forget, TypeOK, NewRegistry, NoBackends
<1>4. TypeOK'
  <2>1. open' \in [Hosts -> [Names -> Nat]]
    <3>1. ASSUME NEW g \in Hosts, NEW n \in Names PROVE open'[g][n] \in Nat
      <4>1. open[g][n] \in Nat
          BY DEF TypeOK
      <4> QED
          BY <4>1
    <3> QED
        BY <3>1
  <2>2. placer' \in [Hosts -> [Names -> Specs \cup {Builtin,
            None}]] /\ kept' \in [Hosts -> [Names -> Nat]]
      BY <1>2 DEF Forget, TypeOK
  <2> QED
      BY <1>1, <2>1, <2>2 DEF TypeOK, Forget
<1>5. TablesInv'
    BY <1>1, <1>3, NameFacts DEF TablesInv, Registered
<1>6. \A c \in Calls, g \in Hosts : Holds(c, g) => (c \in InFlight(h) <=> g = h)
    BY Requests DEF Holds, InFlight, CallsInv, Request
<1>7. \A c \in Calls, g \in Hosts : Holds(c, g)' <=> Holds(c, g) /\ g # h
    BY <1>6 DEF Holds
<1>8. \A g \in Hosts, n \in Names : Builds1(g, n)' <=> Builds1(g, n) /\ g # h
  <2>1. \A g \in Hosts : g # h /\ mu[g] # None => mu[g] \in Calls /\ mu[g] \notin InFlight(h)
      BY <1>6 DEF BackendsInv, TypeOK
  <2> QED
      BY <1>3, <2>1 DEF Builds1
<1>9. BackendsInv'
  <2>1. (\A g \in Hosts : mu[g] # None => Holds(mu[g], g))'
    <3>1. ASSUME NEW g \in Hosts, mu'[g] # None
          PROVE  pc'[mu'[g]] \in {"Write", "WriteBuilt", "Publish"} /\ req'[mu'[g]].h = g
      <4>1. g # h /\ mu'[g] = mu[g]
          BY <1>3, <3>1
      <4>2. mu[g] \in Calls /\ Holds(mu[g], g)
          BY <3>1, <4>1 DEF BackendsInv, TypeOK
      <4>3. mu[g] \notin InFlight(h)
          BY <1>6, <4>1, <4>2
      <4> QED
          BY <4>1, <4>2, <4>3 DEF Holds
    <3> QED
        BY <3>1 DEF Holds
  <2>2. \A g \in Hosts, c \in Calls : Holds(c, g)' => mu'[g] = c
      BY <1>3, <1>7 DEF BackendsInv
  <2>3. \A g \in Hosts, n \in Names :
            /\ open'[g][n] = kept'[g][n] + (IF Builds1(g, n)' THEN 1 ELSE 0)
            /\ kept'[g][n] = IF placer'[g][n] \in Specs THEN 1 ELSE 0
    <3> TAKE g \in Hosts, n \in Names
    <3>1. CASE g = h
        BY <1>3, <1>8, <3>1, NameFacts
    <3>2. CASE g # h
        BY <1>3, <1>8, <3>2 DEF BackendsInv
    <3> QED
        BY <3>1, <3>2
  <2> QED
      BY <2>1, <2>2, <2>3 DEF BackendsInv
<1>10. SessionsInv'
    BY <1>1 DEF SessionsInv, Registered
<1> QED
    BY <1>4, <1>5, <1>9, <1>10

(* The routes of the calls that die with their host are gone, and the      *)
(* others stay.                                                            *)
LEMMA ForgetRoutes ==
    ASSUME IInv, NEW h \in Hosts, Forget(h), UNCHANGED store,
           \A c \in Calls : IF c \in InFlight(h) THEN pc'[c] = "done" /\ req'[c] = None /\ loc'[c] = NoLocals
                            ELSE pc'[c] = pc[c] /\ req'[c] = req[c] /\ loc'[c] = loc[c]
    PROVE  RoutesInv'
<1> USE DEF IInv
<1>1. Grows
    BY DEF Grows, Registered, store
<1>2. ASSUME NEW c \in Calls PROVE RouteInv(c)'
  <2>1. CASE loc'[c] = NoLocals /\ pc'[c] \in {"idle", "done"}
      BY <2>1 DEF RouteInv, NoLocals
  <2>2. CASE ~(loc'[c] = NoLocals /\ pc'[c] \in {"idle", "done"})
    <3>1. c \notin InFlight(h) /\ req[c] \in AllRequests
        BY <2>2 DEF CallsInv
    <3>2. req[c].h \in Hosts /\ req[c].h # h
        BY <3>1, Requests DEF InFlight, Request
    <3>3. Keeps(req[c].h)
        BY <3>2 DEF Forget, Keeps, TypeOK
    <3> QED
        BY <1>1, <3>1, <3>3, RouteStays DEF RoutesInv
  <2> QED
      BY <2>1, <2>2
<1> QED
    BY <1>2 DEF RoutesInv

(* A host's stop keeps the invariant.                                      *)
LEMMA StopKeeps ==
    ASSUME IInv, NEW h \in Hosts, Stop(h)
    PROVE  IInv'
<1> USE DEF IInv
<1>1. Forget(h) /\ UNCHANGED <<store, call>> /\ InFlight(h) = {}
      /\ open' = [open EXCEPT ![h] = [n \in Names |-> @[n] - kept[h][n]]]
    BY DEF Stop, CloseRegistry
<1>2. UNCHANGED <<pc, req, loc>>
    BY <1>1 DEF call
<1>3. \A n \in Names : open[h][n] = kept[h][n]
  <2>1. mu[h] = None
    <3>1. ASSUME mu[h] # None PROVE mu[h] \in Calls /\ Holds(mu[h], h)
        BY <3>1 DEF BackendsInv, TypeOK
    <3>2. \A c \in Calls : Holds(c, h) => c \in InFlight(h)
        BY Requests DEF Holds, InFlight, CallsInv, Request
    <3> QED
        BY <1>1, <3>1, <3>2
  <2> QED
      BY <2>1 DEF BackendsInv, Builds1, TypeOK
<1>4. /\ open' \in [Hosts -> [Names -> Int]]
      /\ \A n \in Names : open'[h][n] = 0
      /\ \A g \in Hosts : g # h => open'[g] = open[g]
    BY <1>1, <1>3 DEF TypeOK
<1>5. TypeOK' /\ TablesInv' /\ BackendsInv' /\ SessionsInv'
    BY <1>1, <1>2, <1>4, ForgetTables DEF TypeOK
<1>6. CallsInv'
    BY <1>2 DEF CallsInv
<1>7. RoutesInv'
    BY <1>1, <1>2, ForgetRoutes
<1> QED
    BY <1>5, <1>6, <1>7

(* A host's crash, which cuts its calls off, keeps the invariant.          *)
LEMMA CrashKeeps ==
    ASSUME IInv, NEW h \in Hosts, Crash(h)
    PROVE  IInv'
<1> USE DEF IInv
<1>1. Forget(h) /\ UNCHANGED store /\ open' = [open EXCEPT ![h] = NoBackends]
    BY DEF Crash
<1>2. \A c \in Calls : IF c \in InFlight(h) THEN pc'[c] = "done" /\ req'[c] = None /\ loc'[c] = NoLocals
                       ELSE pc'[c] = pc[c] /\ req'[c] = req[c] /\ loc'[c] = loc[c]
    BY DEF Crash
<1>3. pc' \in [Calls -> {"idle", "Register", "Write", "WriteBuilt", "Publish", "Retire", "List",
                         "Listed", "Create", "Put", "Route", "Resolve", "Checks", "Metadata", "done"}]
    BY DEF Crash, TypeOK
<1>4. /\ open' \in [Hosts -> [Names -> Int]]
      /\ \A n \in Names : open'[h][n] = 0
      /\ \A g \in Hosts : g # h => open'[g] = open[g]
    BY <1>1 DEF TypeOK, NoBackends
<1>5. TypeOK' /\ TablesInv' /\ BackendsInv' /\ SessionsInv'
    BY <1>1, <1>2, <1>3, <1>4, ForgetTables
<1>6. CallsInv'
  <2>1. req' \in [Calls -> AllRequests \cup {None}] /\ loc' \in [Calls -> Locals]
      BY NoLocalsType DEF Crash, CallsInv
  <2> QED
      BY <1>2, <2>1 DEF CallsInv
<1>7. RoutesInv'
    BY <1>1, <1>2, ForgetRoutes
<1> QED
    BY <1>5, <1>6, <1>7

-----------------------------------------------------------------------------
(* The steps of a call.                                                    *)

PCs == {"idle", "Register", "Write", "WriteBuilt", "Publish", "Retire", "List", "Listed",
        "Create", "Put", "Route", "Resolve", "Checks", "Metadata", "done"}

(* A step of call c alone, which holds no mutex before nor after it.       *)
Alone(c) ==
    /\ UNCHANGED host
    /\ \A d \in Calls : d # c => pc'[d] = pc[d] /\ req'[d] = req[d] /\ loc'[d] = loc[d]
    /\ pc[c] \notin {"Write", "WriteBuilt", "Publish"} /\ pc'[c] \notin {"Write", "WriteBuilt",
          "Publish"}
    /\ pc' \in [Calls -> PCs] /\ req' \in [Calls -> AllRequests \cup {None}] /\ loc' \in [Calls -> Locals]

(* A call that leaves the tables of names and the registry lock alone      *)
(* keeps the invariant, given what it makes of the sessions and of its own *)
(* route.                                                                  *)
LEMMA AloneKeeps ==
    ASSUME IInv, NEW c \in Calls, Alone(c), Grows, reserved' = reserved,
          rows' \in [Names -> Row \cup {None}],
           \A n \in Names : rows'[n] # None => rows[n] # None,
           sess' \in [Sessions -> Names \cup {0, None}], pending' \in [Sessions -> Turn \cup {None}],
           home' \in [Sessions -> Specs \cup {Builtin, None}],
           \/ pc'[c] = "done" /\ req'[c] = None /\ loc'[c] = NoLocals
           \/ pc'[c] \notin {"idle", "done"} /\ req'[c] \in AllRequests /\ pc'[c] \in Steps(req'[c].op),
           SessionsInv', RouteInv(c)'
    PROVE  IInv'
<1> USE DEF IInv
<1>1. UNCHANGED <<phase, placer, bad, page, after, mu, open, kept, starts>>
    BY DEF Alone, host
<1>2. TypeOK'
    BY <1>1 DEF TypeOK, Alone, PCs
<1>3. CallsInv'
    BY DEF CallsInv, Alone
<1>4. TablesInv'
  <2>1. Registered' = Registered /\ \A n \in Registered : rows'[n].spec = rows[n].spec
      BY DEF Grows, Registered
  <2> QED
      BY <1>1, <2>1 DEF TablesInv, Alone
<1>5. BackendsInv'
  <2>1. \A h \in Hosts : mu[h] # None => mu[h] # c /\ mu[h] \in Calls
      BY DEF BackendsInv, Holds, TypeOK, Alone
  <2>2. (\A h \in Hosts : mu[h] # None => Holds(mu[h], h))'
      BY <1>1, <2>1 DEF BackendsInv, Holds, Alone
  <2>3. \A h \in Hosts, d \in Calls : Holds(d, h)' => Holds(d, h)
      BY DEF Holds, Alone
  <2>4. \A h \in Hosts, n \in Names : Builds1(h, n)' <=> Builds1(h, n)
      BY <1>1, <2>1 DEF Builds1, Alone
  <2> QED
      BY <1>1, <2>2, <2>3, <2>4 DEF BackendsInv
<1>6. RoutesInv'
  <2>1. ASSUME NEW d \in Calls, d # c PROVE RouteInv(d)'
    <3>1. Keeps(req[d].h)
        BY <1>1 DEF Keeps
    <3> QED
        BY <2>1, <3>1, RouteStays DEF RoutesInv, Alone
  <2> QED
      BY <2>1 DEF RoutesInv
<1> QED
    BY <1>2, <1>3, <1>4, <1>5, <1>6

(* The beginning of a call keeps the invariant.                            *)
LEMMA BeginKeeps ==
    ASSUME IInv, NEW c \in Calls, Begin(c)
    PROVE  IInv'
<1> USE DEF IInv
<1>1. PICK r \in Menu[c] :
          /\ req' = [req EXCEPT ![c] = r]
          /\ pc' = [pc EXCEPT ![c] = IF r.op \in {"Exec", "Resume", "Suspend",
                "Fork"} THEN "Route" ELSE r.op]
          /\ loc' = [loc EXCEPT ![c] = [NoLocals EXCEPT !.known = Registered,
                !.owed = IF r.op = "List" THEN Static[r.h] \cup Registered ELSE {}]]
    BY DEF Begin
<1>2. r \in AllRequests /\ Request(r)
    BY MenuAssumption DEF AllRequests
<1>3. /\ pc[c] = "idle" /\ UNCHANGED host
      /\ UNCHANGED <<rows, reserved, sess, pending, home>>
    BY DEF Begin, store
<1>4. /\ pc'[c] \in PCs \ {"idle", "done", "Write", "WriteBuilt", "Publish", "Resolve", "Checks",
            "Metadata"}
      /\ pc'[c] \in Steps(r.op) /\ req'[c] = r
    BY <1>1, <1>2 DEF TypeOK, CallsInv, Request, PCs, Steps
<1>5. loc' \in [Calls -> Locals] /\ loc'[c].known = Registered
  <2>1. Registered \subseteq Names /\ Static[r.h] \subseteq Names
      BY <1>2, NameFacts DEF Registered, Request
  <2>2. [NoLocals EXCEPT !.known = Registered,
                !.owed = IF r.op = "List" THEN Static[r.h] \cup Registered ELSE {}] \in Locals
      BY <2>1, NoLocalsType DEF Locals
  <2> QED
      BY <1>1, <2>2, NoLocalsType DEF CallsInv, Locals, NoLocals
<1>6. Alone(c)
    BY <1>1, <1>2, <1>3, <1>4, <1>5 DEF Alone, CallsInv, TypeOK, PCs
<1>7. SessionsInv'
    BY <1>3, <1>4, <1>6 DEF SessionsInv, Registered, Alone
<1>8. RouteInv(c)'
    BY <1>3, <1>4, <1>5 DEF RouteInv, Registered
<1> QED
    BY <1>2, <1>3, <1>4, <1>6, <1>7, <1>8, AloneKeeps DEF Grows, Registered, TypeOK

(* A call that changes its locals and goes to another step, no more.       *)
LEMMA GotoKeeps ==
    ASSUME IInv, NEW c \in Calls, NEW label \in Steps(req[c].op) \cap PCs, Goto(c, label),
           label \notin {"idle", "done", "Write", "WriteBuilt", "Publish", "Metadata"},
           pc[c] \notin {"idle", "done", "Write", "WriteBuilt", "Publish"},
           UNCHANGED <<store, host>>, loc' \in [Calls -> Locals],
           \A d \in Calls : d # c => loc'[d] = loc[d],
           RouteInv(c)'
    PROVE  IInv'
<1> USE DEF IInv
<1>1. /\ UNCHANGED <<rows, reserved, sess, pending, home, req>>
      /\ pc'[c] = label /\ \A d \in Calls : d # c => pc'[d] = pc[d]
    BY DEF Goto, store, TypeOK
<1>2. req[c] \in AllRequests
    BY DEF CallsInv
<1>3. Alone(c)
    BY <1>1 DEF Alone, CallsInv, TypeOK, PCs, Goto
<1>4. SessionsInv'
    BY <1>1 DEF SessionsInv, Registered
<1> QED
    BY <1>1, <1>2, <1>3, <1>4, AloneKeeps DEF Grows, Registered, TypeOK, PCs

(* A page of a listing keeps the invariant.                                *)
LEMMA ListKeeps ==
    ASSUME IInv, NEW c \in Calls, ListHarnesses(c) \/ Listed(c)
    PROVE  IInv'
<1> USE DEF IInv
<1>1. CASE Listed(c)
    BY <1>1, Refusal DEF Listed
<1>2. CASE ListHarnesses(c)
  <2> DEFINE r == req[c]
             l == loc[c]
             out == Smallest(RowsAfter(r.all, l.after) \cup {n \in Static[r.h] : n > l.after},
                   ListPage + 1)
             shown == Smallest(out, ListPage)
             label == IF Cardinality(out) > ListPage THEN "List" ELSE "Listed"
             l2 == [l EXCEPT !.after = IF shown = {} THEN @ ELSE Greatest(shown),
                             !.got = Append(@, shown),
                             !.owed = @ \cap (Static[r.h] \cup Listable(r.all))]
  <2>1. pc[c] = "List" /\ r \in AllRequests /\ r.op = "List" /\ r.h \in Hosts /\ l \in Locals
    <3>1. pc[c] = "List" /\ req[c] \in AllRequests /\ pc[c] \in Steps(req[c].op) /\ l \in Locals
        BY <1>2 DEF ListHarnesses, CallsInv
    <3> QED
        BY SMTT(30), <3>1, Requests DEF Steps, Request
  <2>2. loc' = [loc EXCEPT ![c] = l2] /\ Goto(c, label) /\ UNCHANGED <<store, host>>
      BY <1>2 DEF ListHarnesses, CallsInv, Locals
  <2>3. shown \subseteq Names
      BY <2>1, NameFacts DEF Smallest, RowsAfter, Listable, Registered
  <2>4. shown # {} => Greatest(shown) \in Names
    <3> HIDE DEF shown
    <3> QED
        BY <2>3, Extremes
  <2> HIDE DEF shown
  <2>5. l2 \in Locals /\ l2.known = l.known
    <3>1. l.got \in Seq(SUBSET Names)
        BY <2>1 DEF Locals
    <3>2. Append(l.got, shown) \in Seq(SUBSET Names)
        BY <2>3, <3>1
    <3> QED
        BY <2>1, <2>4, <3>2 DEF Locals
  <2> HIDE DEF l2
  <2>6. /\ loc' \in [Calls -> Locals] /\ loc'[c] = l2
        /\ \A d \in Calls : d # c => loc'[d] = loc[d]
      BY <2>2, <2>5 DEF CallsInv
  <2>7. label \in Steps(r.op) \cap PCs /\ label \in {"List", "Listed"}
      BY <2>1 DEF Steps, PCs
  <2>8. RouteInv(c)'
    <3>1. pc'[c] = label /\ loc[c].known \subseteq Registered /\ Registered' = Registered
        BY <2>2 DEF Goto, TypeOK, RoutesInv, RouteInv, store, Registered
    <3> QED
        BY <2>5, <2>6, <2>7, <3>1 DEF RouteInv
  <2> HIDE DEF label
  <2> QED
      BY <2>1, <2>2, <2>6, <2>7, <2>8, GotoKeeps
<1> QED
    BY <1>1, <1>2

(* The creation of a session keeps the invariant.                          *)
LEMMA CreateKeeps ==
    ASSUME IInv, NEW c \in Calls, Create(c)
    PROVE  IInv'
<1> USE DEF IInv
<1>1. pc[c] = "Create" /\ req[c] \in AllRequests /\ "Create" \in Steps(req[c].op)
    BY DEF Create, CallsInv
<1>2. req[c].op = "Create"
    BY <1>1, Requests DEF Steps, Request
<1>3. CASE Refuse(c)
    BY <1>1, <1>3, Refusal
<1>4. CASE Goto(c, "Put") /\ UNCHANGED <<store, host, loc>>
  <2>1. RouteInv(c)'
      BY <1>4 DEF Goto, TypeOK, RoutesInv, RouteInv, Registered, store
  <2>2. "Put" \in Steps(req[c].op) \cap PCs
      BY <1>2 DEF Steps, PCs
  <2> QED
      BY <1>1, <1>4, <2>1, <2>2, GotoKeeps DEF CallsInv
<1> QED
    BY <1>3, <1>4 DEF Create

(* The retirement of a registration keeps the invariant.                   *)
LEMMA RetireKeeps ==
    ASSUME IInv, NEW c \in Calls, Retire(c)
    PROVE  IInv'
<1> USE DEF IInv
<1>1. pc[c] = "Retire" /\ req[c] \in AllRequests /\ "Retire" \in Steps(req[c].op)
    BY DEF Retire, CallsInv
<1>2. req[c].op = "Retire" /\ req[c].name \in Names
    BY <1>1, Requests DEF Steps, Request
<1>3. CASE Refuse(c)
    BY <1>1, <1>3, Refusal
<1>4. CASE /\ req[c].name \in Registered
           /\ RetireRow(req[c].name)
           /\ Return(c)
           /\ UNCHANGED <<reserved, sess, pending, home, host>>
  <2> DEFINE n == req[c].name
  <2>1. /\ rows[n] \in Row
        /\ rows' = [rows EXCEPT ![n] = [rows[n] EXCEPT !.active = FALSE]]
      BY <1>2, <1>4 DEF RetireRow, Registered, TypeOK
  <2>2. [rows[n] EXCEPT !.active = FALSE] \in Row /\ [rows[n] EXCEPT !.active = FALSE].spec = rows[n].spec
      BY <2>1 DEF Row
  <2>3. /\ rows' \in [Names -> Row \cup {None}]
        /\ \A m \in Names : rows'[m] # None => rows[m] # None
        /\ Grows
    <3> DEFINE r == [rows[n] EXCEPT !.active = FALSE]
    <3>1. rows \in [Names -> Row \cup {None}] /\ n \in Names /\ rows[n] # None /\ r # None
        BY <1>2, <2>1, <2>2, NameFacts DEF TypeOK
    <3>2. r \in Row /\ r.spec = rows[n].spec /\ rows' = [rows EXCEPT ![n] = r]
        BY <2>1, <2>2
    <3> HIDE DEF r, n
    <3>3. rows' \in [Names -> Row \cup {None}]
        BY <3>1, <3>2
    <3>4. rows'[n] = r /\ \A m \in Names : m # n => rows'[m] = rows[m]
        BY <3>1, <3>2
    <3>5. \A m \in Names : rows'[m] # None => rows[m] # None
        BY <3>1, <3>4
    <3>6. Grows
        BY <3>1, <3>2, <3>4 DEF Grows, Registered
    <3> QED
        BY <3>3, <3>5, <3>6
  <2>4. Alone(c) /\ pc'[c] = "done" /\ req'[c] = None /\ loc'[c] = NoLocals
      BY <1>1, <1>4, Returns DEF Alone, PCs, CallsInv
  <2>5. RouteInv(c)'
      BY <2>4 DEF RouteInv, NoLocals
  <2>6. SessionsInv'
      BY <1>4, <2>3, <2>4 DEF SessionsInv, Grows, Registered, Alone
  <2> QED
      BY <1>4, <2>3, <2>4, <2>5, <2>6, AloneKeeps DEF TypeOK
<1> QED
    BY <1>1, <1>3, <1>4 DEF Retire

(* A registration takes mu and builds a backend at most once.              *)
LEMMA PrepareKeeps ==
    ASSUME IInv, NEW c \in Calls, Prepare(c)
    PROVE  IInv'
<1> USE DEF IInv
<1> DEFINE r == req[c]
           builds == ~Has(r.h, r.name)
           label == IF builds THEN "WriteBuilt" ELSE "Write"
<1>1. pc[c] = "Register" /\ r \in AllRequests /\ "Register" \in Steps(r.op) /\ mu[r.h] = None
    BY DEF Prepare, CallsInv
<1>2. r.op = "Register" /\ r.name \in Names /\ r.spec \in Specs /\ r.h \in Hosts
    BY <1>1, Requests DEF Steps, Request
<1>3. CASE Refuse(c)
    BY <1>1, <1>3, Refusal
<1>4. CASE /\ mu' = [mu EXCEPT ![r.h] = c]
           /\ open' = [open EXCEPT ![r.h][r.name] = IF builds THEN @ + 1 ELSE @]
           /\ Goto(c, label)
           /\ UNCHANGED <<store, phase, placer, bad, page, after, kept, starts, loc>>
  <2> HIDE DEF builds
  <2>1. /\ UNCHANGED <<rows, reserved, sess, pending, home, req, loc>>
        /\ pc'[c] = label /\ \A d \in Calls : d # c => pc'[d] = pc[d]
        /\ pc' = [pc EXCEPT ![c] = label]
      BY <1>4 DEF Goto, store, TypeOK
  <2>2. label \in {"Write", "WriteBuilt"}
      OBVIOUS
  <2>3. TypeOK'
      BY <1>2, <1>4, <2>1, <2>2 DEF TypeOK
  <2>4. CallsInv'
    <3>1. label \in Steps(r.op)
        BY <1>2 DEF Steps
    <3> QED
        BY <1>1, <2>1, <2>2, <3>1 DEF CallsInv
  <2>5. TablesInv'
      BY <1>4, <2>1, <2>2 DEF TablesInv, Registered
  <2>6. \A d \in Calls, h \in Hosts : Holds(d, h)' <=> Holds(d, h) \/ (d = c /\ h = r.h)
      BY <1>1, <2>1, <2>2 DEF Holds
  <2>7. mu'[r.h] = c /\ \A h \in Hosts : h # r.h => mu'[h] = mu[h]
      BY <1>2, <1>4 DEF TypeOK
  <2>8. (\A h \in Hosts : mu[h] # None => Holds(mu[h], h))'
    <3>1. ASSUME NEW h \in Hosts, mu'[h] # None
          PROVE  pc'[mu'[h]] \in {"Write", "WriteBuilt", "Publish"} /\ req'[mu'[h]].h = h
      <4>1. CASE h = r.h
          BY <2>1, <2>2, <2>7, <4>1
      <4>2. CASE h # r.h
        <5>1. mu'[h] = mu[h] /\ mu[h] \in Calls /\ Holds(mu[h], h)
            BY <2>7, <3>1, <4>2 DEF BackendsInv, TypeOK
        <5>2. mu[h] # c
            BY <1>1, <5>1 DEF Holds
        <5> QED
            BY <2>1, <5>1, <5>2 DEF Holds
      <4> QED
          BY <4>1, <4>2
    <3> QED
        BY <3>1 DEF Holds
  <2>9. \A h \in Hosts, d \in Calls : Holds(d, h)' => mu'[h] = d
    <3>1. ASSUME NEW d \in Calls, Holds(d, r.h) PROVE FALSE
        BY <1>1, <1>2, <3>1, NameFacts DEF BackendsInv
    <3> QED
        BY <1>2, <2>6, <2>7, <3>1 DEF BackendsInv
  <2>10. ASSUME NEW h \in Hosts, NEW n \in Names
         PROVE  (open[h][n] = kept[h][n] + (IF Builds1(h, n) THEN 1 ELSE 0))'
    <3>1. open[h][n] \in Nat /\ kept[h][n] \in Nat /\ UNCHANGED kept
        BY <1>4 DEF TypeOK
    <3>2. CASE h = r.h
      <4>1. ~Builds1(h, n) /\ mu'[h] = c /\ c # None
          BY <1>1, <2>7, <3>2, NameFacts DEF Builds1
      <4>2. Builds1(h, n)' <=> builds /\ n = r.name
          BY <2>1, <4>1 DEF Builds1
      <4>3. open'[h][n] = IF builds /\ n = r.name THEN open[h][n] + 1 ELSE open[h][n]
          BY <1>2, <1>4, <3>2 DEF TypeOK
      <4> QED
          BY <3>1, <4>1, <4>2, <4>3 DEF BackendsInv
    <3>3. CASE h # r.h
      <4>1. mu'[h] = mu[h] /\ open'[h] = open[h]
          BY <1>2, <1>4, <3>3 DEF TypeOK
      <4>2. mu[h] # None => mu[h] \in Calls /\ mu[h] # c
          BY <1>1 DEF BackendsInv, Holds, TypeOK
      <4>3. Builds1(h, n)' <=> Builds1(h, n)
          BY <2>1, <4>1, <4>2 DEF Builds1
      <4> QED
          BY <3>1, <4>1, <4>3 DEF BackendsInv
    <3> QED
        BY <3>2, <3>3
  <2>11. BackendsInv'
      BY <1>4, <2>8, <2>9, <2>10 DEF BackendsInv
  <2>12. SessionsInv'
      BY <2>1, <2>2 DEF SessionsInv, Registered
  <2>13. RoutesInv'
    <3>1. Grows /\ \A d \in Calls : Keeps(req[d].h)
        BY <1>4, <2>1 DEF Grows, Keeps, Registered
    <3>2. \A d \in Calls : d # c => RouteInv(d)'
        BY <2>1, <3>1, RouteStays DEF RoutesInv
    <3>3. RouteInv(c)'
        BY <2>1, <2>2 DEF RoutesInv, RouteInv, Registered
    <3> QED
        BY <3>2, <3>3 DEF RoutesInv
  <2> QED
      BY <2>3, <2>4, <2>5, <2>11, <2>12, <2>13
<1> QED
    BY <1>3, <1>4 DEF Prepare

(* The call that holds mu returns, with every backend released or kept.    *)
LEMMA MutexReleased ==
    ASSUME IInv, NEW c \in Calls, NEW h \in Hosts, Holds(c, h), Return(c),
           mu' = [mu EXCEPT ![h] = None],
           \A g \in Hosts : g # h => open'[g] = open[g] /\ kept'[g] = kept[g] /\ placer'[g] = placer[g],
           \A n \in Names : /\ open'[h][n] = kept'[h][n] /\ open'[h][n] \in Nat
                            /\ kept'[h][n] = IF placer'[h][n] \in Specs THEN 1 ELSE 0
    PROVE  BackendsInv'
<1> USE DEF IInv
<1>1. /\ pc'[c] = "done" /\ \A d \in Calls : d # c => pc'[d] = pc[d] /\ req'[d] = req[d]
      /\ mu'[h] = None /\ \A g \in Hosts : g # h => mu'[g] = mu[g]
    BY Returns DEF TypeOK
<1>2. ASSUME NEW g \in Hosts, g # h, mu[g] # None
      PROVE  mu[g] \in Calls /\ mu[g] # c /\ Holds(mu[g], g)
    BY <1>2 DEF BackendsInv, TypeOK, Holds
<1>3. (\A g \in Hosts : mu[g] # None => Holds(mu[g], g))'
  <2>1. ASSUME NEW g \in Hosts, mu'[g] # None
        PROVE  pc'[mu'[g]] \in {"Write", "WriteBuilt", "Publish"} /\ req'[mu'[g]].h = g
      BY <1>1, <1>2, <2>1 DEF Holds
  <2> QED
      BY <2>1 DEF Holds
<1>4. ASSUME NEW g \in Hosts, NEW d \in Calls, Holds(d, g)' PROVE mu'[g] = d
  <2>1. d # c /\ Holds(d, g)
      BY <1>1, <1>4 DEF Holds
  <2>2. g # h /\ mu[g] = d
      BY <2>1 DEF BackendsInv
  <2> QED
      BY <1>1, <2>2
<1>5. ASSUME NEW g \in Hosts, NEW n \in Names
      PROVE  /\ (open[g][n] = kept[g][n] + (IF Builds1(g, n) THEN 1 ELSE 0))'
             /\ (kept[g][n] = IF placer[g][n] \in Specs THEN 1 ELSE 0)'
  <2>1. CASE g = h
    <3>1. ~Builds1(g, n)'
        BY <1>1, <2>1 DEF Builds1
    <3> QED
        BY <2>1, <3>1
  <2>2. CASE g # h
    <3>1. Builds1(g, n)' <=> Builds1(g, n)
        BY <1>1, <1>2, <2>2 DEF Builds1
    <3> QED
        BY <2>2, <3>1 DEF BackendsInv
  <2> QED
      BY <2>1, <2>2
<1> QED
    BY <1>3, <1>4, <1>5 DEF BackendsInv

(* The write of a registration's row keeps the invariant.                  *)
LEMMA WriteRowKeeps ==
    ASSUME IInv, NEW c \in Calls, WriteRow(c)
    PROVE  IInv'
<1> USE DEF IInv
<1> DEFINE r == req[c]
           built == pc[c] = "WriteBuilt"
           accepted == Accepts(r.name, r.spec)
<1>1. pc[c] \in {"Write", "WriteBuilt"} /\ r \in AllRequests /\ pc[c] \in Steps(r.op)
    BY DEF WriteRow, CallsInv
<1>2. r.op = "Register" /\ r.name \in Names /\ r.spec \in Specs /\ r.h \in Hosts
    BY <1>1, Requests DEF Steps, Request
<1>3. /\ rows' = IF accepted THEN [rows EXCEPT ![r.name] = [spec |-> r.spec, active |-> TRUE]] ELSE rows
      /\ UNCHANGED <<reserved, sess, pending, home, phase, placer, bad, page, after, kept, starts>>
    BY DEF WriteRow
<1>4. /\ rows' \in [Names -> Row \cup {None}] /\ Grows
      /\ accepted => rows'[r.name] # None /\ rows'[r.name].spec = r.spec
      /\ (reserved \cap Registered = {})'
  <2>1. [spec |-> r.spec, active |-> TRUE] \in Row
      BY <1>2 DEF Row
  <2>2. rows' \in [Names -> Row \cup {None}]
      BY <1>2, <1>3, <2>1 DEF TypeOK
  <2>3. Grows
      BY <1>2, <1>3, <2>1, NameFacts DEF TypeOK, Grows, Registered, Accepts
  <2>4. accepted => rows'[r.name] # None /\ rows'[r.name].spec = r.spec
      BY <1>2, <1>3, <2>1, NameFacts DEF TypeOK
  <2>5. (reserved \cap Registered = {})'
      BY <1>2, <1>3 DEF TypeOK, Accepts, Registered, TablesInv
  <2> QED
      BY <2>2, <2>3, <2>4, <2>5
<1>5. Holds(c, r.h) /\ mu[r.h] = c
    BY <1>1, <1>2 DEF Holds, BackendsInv
<1>6. ASSUME \A d \in Calls : d # c => pc'[d] = pc[d] /\ req'[d] = req[d] /\ loc'[d] = loc[d],
             pc'[c] # "Metadata", pc'[c] = "Publish" => accepted /\ req'[c] = r
      PROVE  SessionsInv' /\ (\A d \in Calls : d # c => RouteInv(d)') /\ TablesInv'
  <2>1. SessionsInv'
      BY <1>3, <1>4, <1>6 DEF SessionsInv, Grows, Registered
  <2>2. \A d \in Calls : d # c => RouteInv(d)'
      BY <1>3, <1>4, <1>6, RouteStays DEF RoutesInv, Keeps
  <2>3. \A n \in Registered : n \in Registered' /\ rows'[n].spec = rows[n].spec
      BY <1>4 DEF Grows, Registered
  <2>4. (\A h \in Hosts : page[h] \subseteq Registered)'
      BY <1>3, <2>3 DEF TablesInv
  <2>5. (\A h \in Hosts, n \in Names :
          /\ placer[h][n] = Builtin <=> n \in Static[h]
          /\ placer[h][n] \in Specs =>
                n \notin Held[h] /\ n \in Registered /\ rows[n].spec = placer[h][n])'
      BY <1>3, <2>3 DEF TablesInv
  <2>6. ASSUME NEW d \in Calls, pc'[d] = "Publish"
        PROVE  (req[d].name \in Registered /\ rows[req[d].name].spec = req[d].spec)'
    <3>1. CASE d = c
        BY <1>2, <1>4, <1>6, <2>6, <3>1 DEF Registered
    <3>2. CASE d # c
        BY <1>6, <2>3, <2>6, <3>2 DEF TablesInv
    <3> QED
        BY <3>1, <3>2
  <2> QED
      BY <1>4, <2>1, <2>2, <2>4, <2>5, <2>6 DEF TablesInv
<1>7. CASE accepted /\ built /\ Goto(c, "Publish") /\ UNCHANGED <<open, mu, loc>>
  <2>1. /\ UNCHANGED <<req, loc, open, mu>> /\ pc' = [pc EXCEPT ![c] = "Publish"]
        /\ pc'[c] = "Publish" /\ \A d \in Calls : d # c => pc'[d] = pc[d]
      BY <1>7 DEF Goto, TypeOK
  <2>2. TypeOK'
      BY <1>3, <1>4, <2>1 DEF TypeOK
  <2>3. CallsInv'
    <3>1. "Publish" \in Steps(r.op)
        BY <1>2 DEF Steps
    <3> QED
        BY <1>1, <2>1, <3>1 DEF CallsInv
  <2>4. BackendsInv'
    <3>1. pc[c] = "WriteBuilt"
        BY <1>7
    <3>2. \A d \in Calls, h \in Hosts : Holds(d, h)' <=> Holds(d, h)
        BY <2>1, <3>1 DEF Holds
    <3>3. \A h \in Hosts, n \in Names : Builds1(h, n)' <=> Builds1(h, n)
        BY <2>1, <3>1 DEF Builds1, TypeOK
    <3>4. (\A h \in Hosts : mu[h] # None => Holds(mu[h], h))'
      <4>1. ASSUME NEW h \in Hosts, mu[h] # None
            PROVE  pc'[mu[h]] \in {"Write", "WriteBuilt", "Publish"} /\ req[mu[h]].h = h
        <5>1. mu[h] \in Calls /\ Holds(mu[h], h)
            BY <4>1 DEF BackendsInv, TypeOK
        <5> QED
            BY <2>1, <5>1 DEF Holds
      <4> QED
          BY <2>1, <4>1 DEF Holds
    <3> QED
        BY <1>3, <2>1, <3>2, <3>3, <3>4 DEF BackendsInv
  <2>5. RouteInv(c)'
    <3>1. loc[c].known \subseteq Registered /\ Registered \subseteq Registered'
        BY <1>4 DEF RoutesInv, RouteInv, Grows, Registered
    <3> QED
        BY <2>1, <3>1 DEF RouteInv
  <2> QED
      BY <1>6, <1>7, <2>1, <2>2, <2>3, <2>4, <2>5 DEF RoutesInv
<1>8. CASE /\ open' = [open EXCEPT ![r.h][r.name] = IF built THEN @ - 1 ELSE @]
           /\ mu' = [mu EXCEPT ![r.h] = None]
           /\ Return(c)
  <2>1. /\ CallsInv' /\ pc'[c] = "done" /\ loc'[c] = NoLocals /\ req'[c] = None
        /\ \A d \in Calls : d # c => pc'[d] = pc[d] /\ req'[d] = req[d] /\ loc'[d] = loc[d]
        /\ pc' \in [Calls -> PCs]
      BY <1>8, Returns DEF PCs
  <2>2. ASSUME NEW n \in Names
        PROVE  /\ open'[r.h][n] = kept[r.h][n]
               /\ kept[r.h][n] \in Nat
               /\ kept[r.h][n] = IF placer[r.h][n] \in Specs THEN 1 ELSE 0
    <3>1. Builds1(r.h, n) <=> built /\ n = r.name
        BY <1>1, <1>5, NameFacts DEF Builds1
    <3>2. open[r.h][n] \in Nat /\ kept[r.h][n] \in Nat
        BY <1>2 DEF TypeOK
    <3>3. open'[r.h][n] = IF built /\ n = r.name THEN open[r.h][n] - 1 ELSE open[r.h][n]
        BY <1>2, <1>8 DEF TypeOK
    <3> QED
        BY <1>2, <3>1, <3>2, <3>3 DEF BackendsInv
  <2>3. \A g \in Hosts : g # r.h => open'[g] = open[g]
      BY <1>8 DEF TypeOK
  <2>4. BackendsInv'
    <3>1. \A n \in Names : /\ open'[r.h][n] = kept'[r.h][n] /\ open'[r.h][n] \in Nat
                            /\ kept'[r.h][n] = IF placer'[r.h][n] \in Specs THEN 1 ELSE 0
        BY <1>3, <2>2
    <3>2. \A g \in Hosts : g # r.h => open'[g] = open[g] /\ kept'[g] = kept[g] /\ placer'[g] = placer[g]
        BY <1>3, <2>3
    <3> QED
        BY <1>2, <1>5, <1>8, <3>1, <3>2, MutexReleased
  <2>5. TypeOK'
    <3>1. open' \in [Hosts -> [Names -> Nat]]
      <4>1. open' \in [Hosts -> [Names -> Int]]
          BY <1>2, <1>8 DEF TypeOK
      <4>2. ASSUME NEW g \in Hosts, NEW n \in Names PROVE open'[g][n] \in Nat
        <5>1. open[g][n] \in Nat
            BY DEF TypeOK
        <5> QED
            BY <2>2, <2>3, <5>1
      <4> QED
          BY <4>1, <4>2
    <3>2. mu' \in [Hosts -> Calls \cup {None}]
        BY <1>8 DEF TypeOK
    <3> QED
        BY <1>3, <1>4, <2>1, <3>1, <3>2 DEF TypeOK, PCs
  <2>6. RouteInv(c)'
      BY <2>1 DEF RouteInv, NoLocals
  <2> QED
      BY <1>6, <2>1, <2>4, <2>5, <2>6 DEF RoutesInv
<1> QED
    BY <1>7, <1>8 DEF WriteRow

(* The publication of a backend to the placer keeps the invariant.         *)
LEMMA PublishKeeps ==
    ASSUME IInv, NEW c \in Calls, Publish(c)
    PROVE  IInv'
<1> USE DEF IInv
<1> DEFINE r == req[c]
<1>1. pc[c] = "Publish" /\ r \in AllRequests /\ pc[c] \in Steps(r.op)
    BY DEF Publish, CallsInv
<1>2. r.op = "Register" /\ r.name \in Names /\ r.spec \in Specs /\ r.h \in Hosts
    BY <1>1, Requests DEF Steps, Request
<1>3. /\ UNCHANGED <<rows, reserved, sess, pending, home, phase, bad, page, after, starts>>
      /\ mu' = [mu EXCEPT ![r.h] = None] /\ Return(c)
      /\ \/ /\ r.name \notin Held[r.h] /\ placer[r.h][r.name] = None
            /\ placer' = [placer EXCEPT ![r.h][r.name] = r.spec]
            /\ kept' = [kept EXCEPT ![r.h][r.name] = @ + 1]
            /\ UNCHANGED open
         \/ open' = [open EXCEPT ![r.h][r.name] = @ - 1] /\ UNCHANGED <<placer, kept>>
    BY DEF Publish, store, CanAdd, Has
<1>4. Holds(c, r.h) /\ mu[r.h] = c
    BY <1>1, <1>2 DEF Holds, BackendsInv
<1>5. /\ CallsInv' /\ pc'[c] = "done" /\ loc'[c] = NoLocals /\ req'[c] = None
      /\ \A d \in Calls : d # c => pc'[d] = pc[d] /\ req'[d] = req[d] /\ loc'[d] = loc[d]
      /\ pc' \in [Calls -> PCs]
    BY <1>3, Returns DEF PCs
<1>6. \A n \in Names : Builds1(r.h, n) <=> n = r.name
    BY <1>1, <1>4, NameFacts DEF Builds1
<1>7. \A n \in Names : /\ open[r.h][n] \in Nat /\ kept[r.h][n] \in Nat
                       /\ open[r.h][n] = kept[r.h][n] + (IF n = r.name THEN 1 ELSE 0)
                       /\ kept[r.h][n] = IF placer[r.h][n] \in Specs THEN 1 ELSE 0
    BY <1>2, <1>6 DEF BackendsInv, TypeOK
<1>8. r.name \in Registered /\ rows[r.name].spec = r.spec
    BY SMTT(30), <1>1 DEF TablesInv
<1>9. /\ \A g \in Hosts : g # r.h => open'[g] = open[g] /\ kept'[g] = kept[g] /\ placer'[g] = placer[g]
      /\ \A n \in Names : /\ open'[r.h][n] = kept'[r.h][n] /\ open'[r.h][n] \in Nat
                          /\ kept'[r.h][n] = IF placer'[r.h][n] \in Specs THEN 1 ELSE 0
      /\ \A n \in Names : \/ placer'[r.h][n] = placer[r.h][n]
                          \/ /\ n = r.name /\ placer[r.h][n] = None /\ placer'[r.h][n] = r.spec
                             /\ n \notin Held[r.h]
      /\ open' \in [Hosts -> [Names -> Int]] /\ kept' \in [Hosts -> [Names -> Nat]]
      /\ placer' \in [Hosts -> [Names -> Specs \cup {Builtin, None}]]
  <2>1. CASE /\ r.name \notin Held[r.h] /\ placer[r.h][r.name] = None
             /\ placer' = [placer EXCEPT ![r.h][r.name] = r.spec]
             /\ kept' = [kept EXCEPT ![r.h][r.name] = @ + 1]
             /\ UNCHANGED open
    <3>1. \A n \in Names : /\ placer'[r.h][n] = IF n = r.name THEN r.spec ELSE placer[r.h][n]
                           /\ kept'[r.h][n] = IF n = r.name THEN kept[r.h][n] + 1 ELSE kept[r.h][n]
        BY <1>2, <2>1 DEF TypeOK
    <3>2. kept[r.h][r.name] = 0
        BY <1>2, <1>7, <2>1, NameFacts
    <3>3. \A n \in Names : /\ open'[r.h][n] = kept'[r.h][n] /\ open'[r.h][n] \in Nat
                           /\ kept'[r.h][n] = IF placer'[r.h][n] \in Specs THEN 1 ELSE 0
        BY <1>2, <1>7, <2>1, <3>1, <3>2
    <3> QED
        BY <1>2, <2>1, <3>1, <3>3 DEF TypeOK
  <2>2. CASE open' = [open EXCEPT ![r.h][r.name] = @ - 1] /\ UNCHANGED <<placer, kept>>
    <3>1. \A n \in Names : open'[r.h][n] = IF n = r.name THEN open[r.h][n] - 1 ELSE open[r.h][n]
        BY SMTT(30), <1>2, <2>2 DEF TypeOK
    <3> QED
        BY <1>2, <1>7, <2>2, <3>1 DEF TypeOK
  <2> QED
      BY SMTT(30), <1>3, <2>1, <2>2
<1>10. BackendsInv'
    BY <1>2, <1>3, <1>4, <1>9, MutexReleased
<1>11. TypeOK'
  <2>1. ASSUME NEW g \in Hosts, NEW n \in Names PROVE open'[g][n] \in Nat
    <3>1. open[g][n] \in Nat
        BY DEF TypeOK
    <3> QED
        BY <1>9, <3>1
  <2>2. open' \in [Hosts -> [Names -> Nat]]
      BY <1>9, <2>1
  <2>3. mu' \in [Hosts -> Calls \cup {None}]
      BY <1>3 DEF TypeOK
  <2> QED
      BY <1>3, <1>5, <1>9, <2>2, <2>3 DEF TypeOK, PCs
<1>12. TablesInv'
  <2>1. Registered' = Registered
      BY <1>3 DEF Registered
  <2>2. ASSUME NEW h \in Hosts, NEW n \in Names
        PROVE  (/\ placer[h][n] = Builtin <=> n \in Static[h]
                /\ placer[h][n] \in Specs =>
                      n \notin Held[h] /\ n \in Registered /\ rows[n].spec = placer[h][n])'
    <3>1. CASE placer'[h][n] = placer[h][n]
        BY <1>3, <2>1, <3>1 DEF TablesInv
    <3>2. CASE placer'[h][n] # placer[h][n]
      <4>1. h = r.h /\ n = r.name /\ placer'[h][n] = r.spec /\ n \notin Held[h]
          BY <1>9, <3>2
      <4> QED
          BY <1>2, <1>3, <1>8, <2>1, <4>1, NameFacts
    <3> QED
        BY <3>1, <3>2
  <2> QED
      BY <1>3, <1>5, <2>1, <2>2 DEF TablesInv
<1>13. SessionsInv'
    BY <1>3, <1>5 DEF SessionsInv, Registered
<1>14. RoutesInv'
  <2>1. \A h \in Hosts : Keeps(h)
      BY <1>9 DEF Keeps
  <2>2. Grows
      BY <1>3 DEF Grows, Registered
  <2>3. ASSUME NEW d \in Calls, d # c PROVE RouteInv(d)'
    <3>1. CASE req[d] = None
      <4>1. pc[d] \in {"idle", "done"} /\ loc[d] = NoLocals
          BY <3>1, Requests DEF CallsInv, Request
      <4> QED
          BY <1>5, <2>3, <4>1 DEF RouteInv, NoLocals
    <3>2. CASE req[d] # None
      <4>1. Keeps(req[d].h)
          BY <2>1, <3>2, Requests DEF CallsInv, Request
      <4> QED
          BY <1>5, <2>2, <2>3, <4>1, RouteStays DEF RoutesInv
    <3> QED
        BY <3>1, <3>2
  <2>4. RouteInv(c)'
      BY <1>5 DEF RouteInv, NoLocals
  <2> QED
      BY <2>3, <2>4 DEF RoutesInv
<1> QED
    BY <1>5, <1>10, <1>11, <1>12, <1>13, <1>14

(* The session's row and its home agree when it is created.                *)
LEMMA PutSessionKeeps ==
    ASSUME IInv, NEW c \in Calls, PutSession(c)
    PROVE  IInv'
<1> USE DEF IInv
<1> DEFINE r == req[c]
           n == IF r.name = 0 THEN Default ELSE r.name
           registered == n \notin Static[r.h]
<1>1. pc[c] = "Put" /\ r \in AllRequests /\ "Put" \in Steps(r.op)
    BY DEF PutSession, CallsInv
<1>2. /\ r.op = "Create" /\ r.s \in Sessions /\ r.h \in Hosts
      /\ n \in Names
  <2>1. r.op = "Create" /\ r.s \in Sessions /\ r.h \in Hosts /\ r.name \in Names \cup {0}
      BY <1>1, Requests DEF Steps, Request
  <2> QED
      BY <2>1, NameFacts
<1>3. CASE Refuse(c)
    BY <1>1, <1>3, Refusal
<1>4. CASE /\ TakesSessions(n, registered)
           /\ sess' = [sess EXCEPT ![r.s] = n]
           /\ home' = [home EXCEPT ![r.s] = IF registered THEN rows[n].spec ELSE Builtin]
           /\ IF r.exec THEN Goto(c, "Route") /\ UNCHANGED loc ELSE Return(c)
           /\ UNCHANGED <<rows, reserved, pending, host>>
  <2> HIDE DEF n
  <2>1. registered => n \in Registered /\ rows[n].spec \in Specs
      BY <1>2, <1>4 DEF TakesSessions, TypeOK, Registered, Row
  <2>2. /\ sess' \in [Sessions -> Names \cup {0, None}]
        /\ home' \in [Sessions -> Specs \cup {Builtin, None}]
        /\ Registered' = Registered /\ Grows
      BY <1>2, <1>4, <2>1 DEF TypeOK, Grows, Registered
  <2>3. /\ Alone(c) /\ pc'[c] \in {"Route", "done"}
        /\ \/ pc'[c] = "done" /\ req'[c] = None /\ loc'[c] = NoLocals
           \/ pc'[c] = "Route" /\ req'[c] = req[c] /\ loc'[c] = loc[c]
    <3>1. CASE Goto(c, "Route") /\ UNCHANGED loc
        BY <1>1, <1>4, <3>1 DEF Goto, Alone, TypeOK, CallsInv, PCs
    <3>2. CASE Return(c)
        BY <1>1, <1>4, <3>2, Returns DEF Alone, PCs, CallsInv
    <3> QED
        BY <1>4, <3>1, <3>2
  <2>4. SessionsInv'
    <3>1. \A s \in Sessions : /\ sess'[s] = IF s = r.s THEN n ELSE sess[s]
                              /\ home'[s] = IF s = r.s THEN (IF registered THEN rows[n].spec ELSE Builtin) ELSE home[s]
        BY <1>2, <1>4 DEF TypeOK
    <3>2. \A s \in Sessions : home'[s] \in Specs => sess'[s] \in Registered /\ rows[sess'[s]].spec = home'[s]
        BY <2>1, <3>1, NameFacts DEF SessionsInv
    <3>3. \A s \in Sessions : home'[s] # None => sess'[s] \in Names
        BY <1>2, <3>1 DEF SessionsInv
    <3>4. ASSUME NEW d \in Calls, pc'[d] = "Metadata" PROVE sess'[req'[d].child] # None
      <4>1. d # c /\ pc[d] = "Metadata" /\ req'[d] = req[d]
          BY <2>3, <3>4 DEF Alone
      <4>2. req[d].child \in Sessions
        <5>1. req[d] \in AllRequests /\ "Metadata" \in Steps(req[d].op)
            BY <4>1 DEF CallsInv
        <5> QED
            BY <5>1, Requests DEF Steps, Request
      <4> QED
          BY <1>2, <3>1, <4>1, <4>2, NameFacts DEF SessionsInv
    <3>5. \A d, e \in Calls : pc'[d] = "Metadata" /\ pc'[e] = "Metadata" /\ d # e => req'[d].child # req'[e].child
        BY <2>3 DEF SessionsInv, Alone
    <3> QED
        BY <1>4, <2>2, <3>2, <3>3, <3>4, <3>5 DEF SessionsInv
  <2>5. RouteInv(c)'
      BY <2>2, <2>3 DEF RoutesInv, RouteInv, NoLocals
  <2>6. pc'[c] = "Route" => "Route" \in Steps(req'[c].op) /\ req'[c] \in AllRequests
      BY <1>1, <1>2, <2>3 DEF Steps
  <2> QED
      BY <1>4, <2>2, <2>3, <2>4, <2>5, <2>6, AloneKeeps DEF TypeOK
<1> QED
    BY <1>3, <1>4 DEF PutSession

-----------------------------------------------------------------------------
(* Routing.                                                                *)

(* A check names its reason and its harness.                               *)
LEMMA OnType ==
    ASSUME NEW n \in Names, NEW why \in {"unserved", "collides", "pinned", "added", "memory"}
    PROVE  On(why, n) \in Checking /\ On(why, n).why = why /\ On(why, n).name = n
    BY DEF On, Checking

(* The checks a list begins with are in it.                                *)
LEMMA RangeHas ==
    ASSUME NEW s \in Seq(Checking), NEW i \in 1..Len(s)
    PROVE  s[i] \in Range(s)
    BY DEF Range

(* What resolvePlacer asks before it hands out a Placer.                   *)
LEMMA ExecRouteHas ==
    ASSUME NEW st \in Names, NEW over \in Names \cup {0}, NEW n,
           n = IF over = 0 THEN st ELSE over
    PROVE  LET route == ExecRoute(st, over) IN
           /\ n \in Names /\ route \in Seq(Checking)
           /\ On("unserved", n) \in Range(route) /\ On("collides", n) \in Range(route)
           /\ On("collides", st) \in Range(route)
           /\ n # st => On("pinned", st) \in Range(route) /\ On("added", n) \in Range(route)
<1> DEFINE route == ExecRoute(st, over)
<1>1. n \in Names
    OBVIOUS
<1>2. CASE over \in {0, st}
  <2>1. n = st /\ route = <<On("collides", st), On("unserved", st)>>
      BY <1>2 DEF ExecRoute
  <2>2. route \in Seq(Checking) /\ Len(route) = 2
         /\ route[1] = On("collides", st) /\ route[2] = On("unserved", st)
      BY <2>1, OnType
  <2> HIDE DEF route
  <2>3. \A i \in 1..Len(route) : route[i] \in Range(route)
      BY <2>2, RangeHas
  <2> QED
      BY <1>1, <2>1, <2>2, <2>3 DEF route
<1>3. CASE over \notin {0, st}
  <2>1. n = over /\ route = <<On("collides", st), On("pinned", st), On("pinned", over),
                       On("unserved", over),
           On("added", over), On("collides", over), On("memory", over), On("unserved", over)>>
      BY <1>3 DEF ExecRoute
  <2>2. /\ route \in Seq(Checking) /\ Len(route) = 8
        /\ route[1] = On("collides", st) /\ route[2] = On("pinned", st)
        /\ route[4] = On("unserved", over) /\ route[5] = On("added",
              over) /\ route[6] = On("collides", over)
    <3>1. \A x \in {"unserved", "collides", "pinned", "added", "memory"}, m \in Names : On(x,
          m) \in Checking
        BY OnType
    <3> HIDE DEF route
    <3> QED
        BY <1>1, <2>1, <3>1
  <2> HIDE DEF route
  <2>3. \A i \in 1..Len(route) : route[i] \in Range(route)
      BY <2>2, RangeHas
  <2> QED
      BY <1>1, <2>1, <2>2, <2>3 DEF route
<1> QED
    BY <1>1, <1>2, <1>3

(* Concatenations of short lists.                                          *)
LEMMA ShortLists ==
    ASSUME NEW u \in Checking, NEW k \in Checking, NEW p \in Checking, NEW q \in Checking,
          NEW m \in Checking
    PROVE  /\ <<u, k>> \o <<>> = <<u, k>>
           /\ <<u, k>> \o <<p, q>> = <<u, k, p, q>>
           /\ <<u, k, p, q>> \o <<>> = <<u, k, p, q>>
           /\ <<u, k, p, q>> \o <<m>> = <<u, k, p, q, m>>
<1>1. <<u, k>> \in Seq(Checking) /\ <<p, q>> \in Seq(Checking) /\ <<m>> \in Seq(Checking) /\ <<u,
          k, p, q>> \in Seq(Checking)
    OBVIOUS
<1>2. <<u, k>> \o <<>> = <<u, k>> /\ <<u, k, p, q>> \o <<>> = <<u, k, p, q>>
    BY <1>1, ConcatEmptySeq
<1>3. <<u, k>> \o <<p, q>> = <<u, k, p, q>>
  <2> DEFINE s == <<u, k>> \o <<p, q>>
  <2>1. /\ s \in Seq(Checking) /\ Len(s) = 4
        /\ s[1] = u /\ s[2] = k /\ s[3] = p /\ s[4] = q
      BY <1>1
  <2> DEFINE t == <<u, k, p, q>>
  <2>2. /\ t \in Seq(Checking) /\ Len(t) = 4
        /\ t[1] = u /\ t[2] = k /\ t[3] = p /\ t[4] = q
      OBVIOUS
  <2> HIDE DEF s, t
  <2>3. \A i \in 1..Len(s) : s[i] = t[i]
      BY <2>1, <2>2
  <2>4. s = t
      BY <2>1, <2>2, <2>3, SeqEqual
  <2> QED
      BY <2>4 DEF s, t
<1>4. <<u, k, p, q>> \o <<m>> = <<u, k, p, q, m>>
  <2> DEFINE s == <<u, k, p, q>> \o <<m>>
  <2>1. /\ s \in Seq(Checking) /\ Len(s) = 5
        /\ s[1] = u /\ s[2] = k /\ s[3] = p /\ s[4] = q /\ s[5] = m
      BY <1>1
  <2> DEFINE t == <<u, k, p, q, m>>
  <2>2. /\ t \in Seq(Checking) /\ Len(t) = 5
        /\ t[1] = u /\ t[2] = k /\ t[3] = p /\ t[4] = q /\ t[5] = m
      OBVIOUS
  <2> HIDE DEF s, t
  <2>3. \A i \in 1..Len(s) : s[i] = t[i]
      BY <2>1, <2>2
  <2>4. s = t
      BY <2>1, <2>2, <2>3, SeqEqual
  <2> QED
      BY <2>4 DEF s, t
<1> QED
    BY <1>2, <1>3, <1>4

(* What Resume and Suspend ask about a turn's harness, first of all        *)
(* whether it is served.                                                   *)
LEMMA ResumedRouteHas ==
    ASSUME NEW op, NEW st \in Names, NEW n \in Names
    PROVE  LET route == ResumedRoute(op, st, n) IN
           /\ route \in Seq(Checking)
           /\ On("unserved", n) \in Range(route) /\ On("collides", n) \in Range(route)
           /\ n # st => On("pinned", st) \in Range(route) /\ On("pinned", n) \in Range(route)
           /\ \A i \in 2..Len(route) : route[i].why # "unserved"
<1> DEFINE route == ResumedRoute(op, st, n)
           u == On("unserved", n)
           k == On("collides", n)
           p == On("pinned", st)
           q == On("pinned", n)
           m == On("memory", n)
<1>1. /\ u \in Checking /\ k \in Checking /\ p \in Checking /\ q \in Checking /\ m \in Checking
      /\ k.why # "unserved" /\ p.why # "unserved" /\ q.why # "unserved" /\ m.why # "unserved"
    BY OnType
<1>2. route = IF n = st THEN <<u, k>> ELSE IF op = "Suspend" THEN <<u, k, p, q>> ELSE <<u, k, p, q, m>>
  <2>1. route = <<u, k>> \o (IF n = st THEN <<>> ELSE <<p, q>>)
                        \o (IF n = st \/ op = "Suspend" THEN <<>> ELSE <<m>>)
      BY DEF ResumedRoute
  <2> HIDE DEF route, u, k, p, q, m
  <2>2. u \in Checking /\ k \in Checking /\ p \in Checking /\ q \in Checking /\ m \in Checking
      BY <1>1
  <2>3. /\ <<u, k>> \o <<>> = <<u, k>>
        /\ <<u, k>> \o <<p, q>> = <<u, k, p, q>>
        /\ <<u, k, p, q>> \o <<>> = <<u, k, p, q>>
        /\ <<u, k, p, q>> \o <<m>> = <<u, k, p, q, m>>
      BY <2>2, ShortLists
  <2> QED
      BY <2>1, <2>2, <2>3
<1> HIDE DEF route, u, k, p, q, m
<1>3. /\ route \in Seq(Checking) /\ Len(route) \in 2..5
      /\ route[1] = u /\ route[2] = k
      /\ n # st => Len(route) >= 4 /\ route[3] = p /\ route[4] = q
      /\ \A i \in 2..Len(route) : route[i] \in {k, p, q, m}
  <2>1. CASE n = st
      BY <1>1, <1>2, <2>1
  <2>2. CASE n # st /\ op = "Suspend"
      BY <1>1, <1>2, <2>2
  <2>3. CASE n # st /\ op # "Suspend"
      BY <1>1, <1>2, <2>3
  <2> QED
      BY <2>1, <2>2, <2>3
<1>4. u \in Range(route) /\ k \in Range(route) /\ (n # st => p \in Range(route) /\ q \in Range(route))
  <2>1. \A i \in 1..Len(route) : route[i] \in Range(route)
      BY <1>3, RangeHas
  <2> QED
      BY <1>3, <2>1
<1> QED
    BY <1>1, <1>3, <1>4 DEF route, u, k, p, q

(* The choice of a call's route keeps the invariant.                       *)
LEMMA RouteKeeps ==
    ASSUME IInv, NEW c \in Calls, Route(c)
    PROVE  IInv'
<1> USE DEF IInv
<1> DEFINE r == req[c]
           st == IF sess[r.s] = 0 THEN Default ELSE sess[r.s]
           over == Override(r)
           n == IF over = 0 THEN st ELSE over
<1>1. pc[c] = "Route" /\ r \in AllRequests /\ "Route" \in Steps(r.op) /\ loc[c] \in Locals
    BY DEF Route, CallsInv
<1>2. r.op \in {"Create", "Exec", "Fork", "Resume", "Suspend"} /\ r.s \in Sessions /\ r.h \in Hosts
      /\ over \in Names \cup {0}
    BY <1>1, Requests DEF Steps, Request, Override
<1>3. CASE Refuse(c)
    BY <1>1, <1>3, Refusal
<1>4. ASSUME ~Refuse(c)
      PROVE  /\ sess[r.s] # None /\ UNCHANGED <<store, host>>
             /\ \/ /\ r.op \in {"Resume", "Suspend"}
                   /\ loc' = [loc EXCEPT ![c] = [@ EXCEPT !.stored = st, !.pin = home[r.s]]]
                   /\ Goto(c, "Resolve")
                \/ /\ r.op \notin {"Resume", "Suspend"}
                   /\ loc' = [loc EXCEPT ![c] = [@ EXCEPT !.stored = st, !.pin = home[r.s],
                         !.target = n,
                                                          !.todo = ExecRoute(st, over)]]
                   /\ Goto(c, "Checks")
    BY <1>1, <1>4 DEF Route, CallsInv, Locals
<1>5. ASSUME ~Refuse(c)
      PROVE  /\ st \in Names /\ home[r.s] \in Specs \cup {Builtin, None}
             /\ home[r.s] \in Specs => st \in Registered /\ rows[st].spec = home[r.s]
  <2>1. sess[r.s] \in Names \cup {0}
      BY <1>2, <1>4, <1>5 DEF TypeOK
  <2>2. Default \in Names
      BY <1>2, NameFacts
  <2>3. home[r.s] \in Specs => sess[r.s] \in Registered /\ rows[sess[r.s]].spec = home[r.s]
      BY <1>2 DEF SessionsInv
  <2> QED
      BY <1>2, <2>1, <2>2, <2>3, NameFacts DEF TypeOK, Registered
<1> HIDE DEF over, st
<1>6. CASE /\ ~Refuse(c) /\ r.op \in {"Resume", "Suspend"}
           /\ loc' = [loc EXCEPT ![c] = [@ EXCEPT !.stored = st, !.pin = home[r.s]]]
           /\ Goto(c, "Resolve")
  <2>1. /\ loc' \in [Calls -> Locals] /\ \A d \in Calls : d # c => loc'[d] = loc[d]
        /\ loc'[c].stored = st /\ loc'[c].pin = home[r.s] /\ loc'[c].known = loc[c].known
    <3>1. [loc[c] EXCEPT !.stored = st, !.pin = home[r.s]] \in Locals
        BY <1>1, <1>5, <1>6 DEF Locals
    <3> QED
        BY <1>1, <1>6, <3>1 DEF CallsInv, Locals
  <2>2. "Resolve" \in Steps(r.op) \cap PCs
      BY <1>6 DEF Steps, PCs
  <2>3. pc'[c] = "Resolve" /\ UNCHANGED <<rows, reserved>>
      BY <1>4, <1>6 DEF Goto, TypeOK, store
  <2>4. RouteInv(c)'
      BY <1>5, <1>6, <2>1, <2>3 DEF RouteInv, RoutesInv, Registered
  <2> QED
      BY <1>1, <1>4, <1>6, <2>1, <2>2, <2>4, GotoKeeps
<1>7. CASE /\ ~Refuse(c) /\ r.op \notin {"Resume", "Suspend"}
           /\ loc' = [loc EXCEPT ![c] = [@ EXCEPT !.stored = st, !.pin = home[r.s], !.target = n,
                                                  !.todo = ExecRoute(st, over)]]
           /\ Goto(c, "Checks")
  <2> DEFINE route == ExecRoute(st, over)
  <2>1. /\ n \in Names /\ route \in Seq(Checking)
        /\ On("unserved", n) \in Range(route) /\ On("collides", n) \in Range(route)
        /\ On("collides", st) \in Range(route)
        /\ n # st => On("pinned", st) \in Range(route) /\ On("added", n) \in Range(route)
      BY <1>2, <1>5, <1>7, ExecRouteHas
  <2> HIDE DEF n, route
  <2>2. /\ loc' \in [Calls -> Locals] /\ \A d \in Calls : d # c => loc'[d] = loc[d]
        /\ loc'[c].stored = st /\ loc'[c].pin = home[r.s] /\ loc'[c].known = loc[c].known
        /\ loc'[c].target = n /\ loc'[c].todo = route
    <3>1. [loc[c] EXCEPT !.stored = st, !.pin = home[r.s], !.target = n, !.todo = route] \in Locals
        BY <1>1, <1>5, <1>7, <2>1 DEF Locals
    <3> QED
        BY <1>1, <1>7, <3>1 DEF CallsInv, Locals, route
  <2>3. "Checks" \in Steps(r.op) \cap PCs
      BY <1>2, <1>7 DEF Steps, PCs
  <2>4. pc'[c] = "Checks" /\ UNCHANGED <<rows, reserved, req>>
      BY <1>4, <1>7 DEF Goto, TypeOK, store
  <2>5. RouteInv(c)'
      BY <1>5, <1>7, <2>1, <2>2, <2>4 DEF RouteInv, RoutesInv, Registered, Left
  <2> QED
      BY <1>1, <1>4, <1>7, <2>2, <2>3, <2>5, GotoKeeps
<1> QED
    BY <1>3, <1>4, <1>6, <1>7

(* The resolution of a route to a placer's harness keeps the invariant.    *)
LEMMA ResolveKeeps ==
    ASSUME IInv, NEW c \in Calls, Resolve(c)
    PROVE  IInv'
<1> USE DEF IInv
<1> DEFINE r == req[c]
           p == pending[r.s]
           st == loc[c].stored
           n == IF TakesRecorded(r.op, p) THEN p.harness ELSE st
           route == ResumedRoute(r.op, st, n)
<1>1. pc[c] = "Resolve" /\ r \in AllRequests /\ "Resolve" \in Steps(r.op) /\ loc[c] \in Locals
    BY DEF Resolve, CallsInv
<1>2. r.op \in {"Resume", "Suspend"} /\ r.s \in Sessions
    BY <1>1, Requests DEF Steps, Request
<1>3. CASE Refuse(c)
    BY <1>1, <1>3, Refusal
<1>4. CASE /\ loc' = [loc EXCEPT ![c].target = n, ![c].todo = route]
           /\ Goto(c, "Checks")
           /\ UNCHANGED <<store, host>>
  <2>1. /\ st \in Names /\ loc[c].known \subseteq Registered
        /\ loc[c].pin \in Specs => st \in Registered /\ rows[st].spec = loc[c].pin
      BY <1>1 DEF RoutesInv, RouteInv
  <2>2. n \in Names
      BY <1>2, <2>1 DEF TakesRecorded, TypeOK, Turn
  <2> HIDE DEF n
  <2>3. /\ route \in Seq(Checking)
        /\ On("unserved", n) \in Range(route) /\ On("collides", n) \in Range(route)
        /\ n # st => On("pinned", st) \in Range(route) /\ On("pinned", n) \in Range(route)
        /\ \A i \in 2..Len(route) : route[i].why # "unserved"
      BY <2>1, <2>2, ResumedRouteHas
  <2> HIDE DEF route
  <2>4. loc' = [loc EXCEPT ![c] = [@ EXCEPT !.target = n, !.todo = route]]
      BY <1>1, <1>4 DEF CallsInv, Locals
  <2>5. /\ loc' \in [Calls -> Locals] /\ \A d \in Calls : d # c => loc'[d] = loc[d]
        /\ loc'[c].stored = st /\ loc'[c].pin = loc[c].pin /\ loc'[c].known = loc[c].known
        /\ loc'[c].target = n /\ loc'[c].todo = route
    <3>1. [loc[c] EXCEPT !.target = n, !.todo = route] \in Locals
        BY <1>1, <2>2, <2>3 DEF Locals
    <3> QED
        BY <1>1, <2>4, <3>1 DEF CallsInv, Locals
  <2>6. "Checks" \in Steps(r.op) \cap PCs
      BY <1>2 DEF Steps, PCs
  <2>7. pc'[c] = "Checks" /\ UNCHANGED <<rows, reserved, req>>
      BY <1>4 DEF Goto, TypeOK, store
  <2>8. RouteInv(c)'
      BY <1>2, <2>1, <2>2, <2>3, <2>5, <2>7 DEF RouteInv, Registered, Left
  <2> QED
      BY <1>1, <1>4, <2>5, <2>6, <2>8, GotoKeeps
<1> QED
    BY <1>3, <1>4 DEF Resolve

(* A nonempty sequence has its head and, one place on, the elements of its *)
(* tail.                                                                   *)
LEMMA RangeTail ==
    ASSUME NEW S, NEW s \in Seq(S), s # <<>>
    PROVE  /\ Head(s) \in S /\ Tail(s) \in Seq(S) /\ Len(Tail(s)) = Len(s) - 1
           /\ \A i \in 1..Len(Tail(s)) : Tail(s)[i] = s[i + 1]
           /\ Range(s) = {Head(s)} \cup Range(Tail(s))
<1>1. /\ Head(s) \in Range(s) /\ Head(s) \in S /\ Tail(s) \in Seq(S) /\ Len(Tail(s)) = Len(s) - 1
      /\ \A i \in 1..Len(Tail(s)) : Tail(s)[i] = s[i + 1]
    BY DEF Range
<1>2. Range(Tail(s)) \subseteq Range(s)
    BY DEF Range
<1>3. ASSUME NEW x \in Range(s), x # Head(s) PROVE x \in Range(Tail(s))
  <2>1. PICK i \in 1..Len(s) : x = s[i]
      BY DEF Range
  <2>2. i - 1 \in 1..Len(Tail(s)) /\ Tail(s)[i - 1] = x
      BY <2>1, <1>3
  <2>3. DOMAIN Tail(s) = 1..Len(Tail(s))
      BY <1>1
  <2> QED
      BY <2>2, <2>3, Zenon DEF Range
<1> QED
    BY <1>1, <1>2, <1>3

(* A check that passed leaves what RouteInv says of it.                    *)
LEMMA CheckKeeps ==
    ASSUME IInv, NEW c \in Calls, Check(c)
    PROVE  IInv'
<1> USE DEF IInv
<1> DEFINE r == req[c]
           h == req[c].h
           st == loc[c].stored
           n == loc[c].target
           todo == loc[c].todo
           resumed == r.op \in {"Resume", "Suspend"}
<1>1. pc[c] = "Checks" /\ r \in AllRequests /\ "Checks" \in Steps(r.op) /\ loc[c] \in Locals /\ todo # <<>>
    BY DEF Check, CallsInv
<1>2. CASE Refuse(c)
    BY <1>1, <1>2, Refusal
<1>3. CASE /\ ~Refuses(h, st, Head(todo))
           /\ loc' = [loc EXCEPT ![c].todo = Tail(@)] /\ UNCHANGED <<store, host, pc, req>>
  <2>1. /\ h \in Hosts /\ st \in Names /\ n \in Names
    <3>1. h \in Hosts
        BY <1>1, Requests DEF Request
    <3> QED
        BY <1>1, <3>1 DEF RoutesInv, RouteInv
  <2>2. todo \in Seq(Checking)
      BY <1>1 DEF Locals
  <2>3. /\ Head(todo) \in Checking /\ Tail(todo) \in Seq(Checking) /\ Len(Tail(todo)) = Len(todo) - 1
        /\ \A i \in 1..Len(Tail(todo)) : Tail(todo)[i] = todo[i + 1]
        /\ Range(todo) = {Head(todo)} \cup Range(Tail(todo))
      BY <1>1, <2>2, RangeTail
  <2>4. /\ loc' \in [Calls -> Locals] /\ \A d \in Calls : d # c => loc'[d] = loc[d]
        /\ loc'[c].stored = st /\ loc'[c].pin = loc[c].pin /\ loc'[c].known = loc[c].known
        /\ loc'[c].target = n /\ loc'[c].todo = Tail(todo)
    <3>1. [loc[c] EXCEPT !.todo = Tail(todo)] \in Locals
        BY <1>1, <2>3 DEF Locals
    <3> QED
        BY <1>1, <1>3, <3>1 DEF CallsInv, Locals
  <2>5. UNCHANGED <<rows, reserved, sess, pending, home, placer, pc, req>>
      BY <1>3 DEF store, host
  <2>6. ASSUME NEW x, x \in Range(todo), x \notin Range(loc'[c].todo)
        PROVE  x = Head(todo) /\ ~Refuses(h, st, x)
      BY <1>3, <2>3, <2>4, <2>6
  <2>7. \A m \in Names :
            /\ Left(c, "unserved", m) => On("unserved", m) \in Range(Tail(todo)) \/ placer[h][m] # None
            /\ Left(c, "collides", m) => On("collides",
                  m) \in Range(Tail(todo)) \/ ~(m \in Static[h] /\ m \in Registered)
            /\ Left(c, "pinned", m) =>
                  \/ On("pinned", m) \in Range(Tail(todo)) \/ m \in Static[h]
                  \/ Head(todo) = On("pinned", m) /\ ~(Has(h, m) \/ m \in Registered)
            /\ Left(c, "added", m) => On("added", m) \in Range(Tail(todo)) \/ m \in Static[h]
    <3> TAKE m \in Names
    <3>1. /\ ~Refuses(h, st, On("unserved", m)) => placer[h][m] # None
          /\ ~Refuses(h, st, On("collides", m)) => ~(m \in Static[h] /\ m \in Registered)
          /\ ~Refuses(h, st, On("pinned", m)) => m \in Static[h] \/ ~(Has(h, m) \/ m \in Registered)
          /\ ~Refuses(h, st, On("added", m)) => m \in Static[h]
        BY DEF Refuses, On, Collides, IsRegistered
    <3> QED
        BY <2>4, <2>6, <3>1 DEF Left
  <2>8. RouteInv(c)
      BY DEF RoutesInv
  <2>9. On("unserved", n) \in Range(Tail(todo)) \/ placer[h][n] # None
      BY <1>1, <2>1, <2>7, <2>8 DEF RouteInv, Registered
  <2>10. On("collides", n) \in Range(Tail(todo)) \/ (n \in Static[h] => n \notin loc[c].known)
      BY <1>1, <2>1, <2>7, <2>8 DEF RouteInv, Registered
  <2>11. n = st \/ ~resumed => On("collides",
                      st) \in Range(Tail(todo)) \/ (loc[c].pin \in Specs => st \notin Static[h])
      BY <1>1, <2>1, <2>7, <2>8 DEF RouteInv, Registered
  <2>12. n # st => On("pinned", st) \in Range(Tail(todo)) \/ (loc[c].pin \in Specs => st \in Static[h])
      BY <1>1, <2>1, <2>7, <2>8 DEF RouteInv, Registered
  <2>13. n # st /\ ~resumed => On("added", n) \in Range(Tail(todo)) \/ n \in Static[h]
      BY <1>1, <2>1, <2>7, <2>8 DEF RouteInv, Registered
  <2>14. n # st /\ resumed => \A i \in 2..Len(Tail(todo)) : Tail(todo)[i].why # "unserved"
    <3>1. ASSUME n # st, resumed, NEW i \in 2..Len(Tail(todo)) PROVE Tail(todo)[i].why # "unserved"
      <4>1. i + 1 \in 2..Len(todo) /\ Tail(todo)[i] = todo[i + 1]
          BY <2>2, <2>3
      <4> QED
          BY <1>1, <2>8, <3>1, <4>1 DEF RouteInv
    <3> QED
        BY <3>1
  <2>15. n # st /\ resumed => On("pinned", n) \in Range(Tail(todo)) \/ n \in Static[h]
    <3>1. ASSUME n # st, resumed, Head(todo) = On("pinned", n)
          PROVE  Has(h, n)
      <4>1. ~Left(c, "unserved", n)
        <5>1. ASSUME NEW i \in 1..Len(todo) PROVE todo[i] # On("unserved", n)
          <6>1. todo[1] = Head(todo) /\ On("pinned", n).why = "pinned" /\ On("unserved",
                n).why = "unserved"
              BY <2>1, <2>2, <1>1, OnType
          <6> QED
              BY <1>1, <2>8, <3>1, <6>1 DEF RouteInv
        <5> QED
            BY <2>2, <5>1 DEF Left, Range
      <4> QED
          BY <1>1, <2>8, <4>1 DEF RouteInv, Has
    <3> QED
        BY <1>1, <2>1, <2>7, <2>8, <3>1 DEF RouteInv
  <2>16. RouteInv(c)'
      BY <1>1, <2>1, <2>4, <2>5, <2>8, <2>9, <2>10, <2>11, <2>12, <2>13, <2>14, <2>15
      DEF RouteInv, Registered, Left
  <2>17. Alone(c)
      BY <1>1, <1>3, <2>4 DEF Alone, TypeOK, CallsInv, PCs
  <2>18. SessionsInv'
      BY <2>5 DEF SessionsInv, Registered
  <2> QED
      BY <1>1, <2>5, <2>16, <2>17, <2>18, AloneKeeps DEF Grows, Registered, TypeOK
<1> QED
    BY <1>2, <1>3 DEF Check

(* A turn that runs, or is cut off, keeps the invariant.                   *)
LEMMA RunTurnKeeps ==
    ASSUME IInv, NEW c \in Calls, RunTurn(c)
    PROVE  IInv'
<1> USE DEF IInv
<1>1. pc[c] = "Checks" /\ req[c] \in AllRequests /\ req[c].s \in Sessions
  <2>1. pc[c] = "Checks" /\ req[c] \in AllRequests
      BY DEF RunTurn, Routed, CallsInv
  <2> QED
      BY <2>1, Requests DEF RunTurn, Request
<1>2. loc[c].target \in Names
    BY <1>1 DEF RoutesInv, RouteInv
<1>3. pending' \in [Sessions -> Turn \cup {None}]
  <2>1. PICK p \in {None} \cup [harness : {loc[c].target}, gate : {"no", "own"}] :
            pending' = [pending EXCEPT ![req[c].s] = p]
      BY DEF RunTurn
  <2>2. p \in Turn \cup {None}
      BY <1>2 DEF Turn
  <2> QED
      BY <2>1, <2>2 DEF TypeOK
<1>4. Return(c) /\ UNCHANGED <<rows, reserved, sess, home, host>>
    BY DEF RunTurn
<1>5. Alone(c) /\ pc'[c] = "done" /\ req'[c] = None /\ loc'[c] = NoLocals
    BY <1>1, <1>4, Returns DEF Alone, PCs, CallsInv
<1>6. SessionsInv' /\ RouteInv(c)'
    BY <1>4, <1>5 DEF SessionsInv, Registered, Alone, RouteInv, NoLocals
<1> QED
    BY <1>3, <1>4, <1>5, <1>6, AloneKeeps DEF Grows, Registered, TypeOK

(* The copy of a forked session's log keeps the invariant.                 *)
LEMMA ForkCopyKeeps ==
    ASSUME IInv, NEW c \in Calls, ForkCopy(c)
    PROVE  IInv'
<1> USE DEF IInv
<1> DEFINE r == req[c]
           p == IF pending[r.s] = None \/ pending[r.s].gate = "no" THEN pending[r.s]
                ELSE [pending[r.s] EXCEPT !.gate = "inherited"]
<1>1. pc[c] = "Checks" /\ r \in AllRequests /\ r.op = "Fork"
    BY DEF ForkCopy, Routed, CallsInv
<1>2. r.s \in Sessions /\ r.child \in Sessions
    BY <1>1, Requests DEF Request
<1>3. /\ sess[r.child] = None /\ sess' = [sess EXCEPT ![r.child] = 0]
      /\ pending' = [pending EXCEPT ![r.child] = p]
      /\ Goto(c, "Metadata") /\ UNCHANGED <<rows, reserved, home, host, loc>>
    BY DEF ForkCopy
<1>4. /\ sess' \in [Sessions -> Names \cup {0, None}]
      /\ pending' \in [Sessions -> Turn \cup {None}]
  <2>1. p \in Turn \cup {None}
    <3>1. pending[r.s] \in Turn \cup {None}
        BY <1>2 DEF TypeOK
    <3>2. ASSUME NEW t \in Turn PROVE [t EXCEPT !.gate = "inherited"] \in Turn
        BY DEF Turn
    <3> QED
        BY <3>1, <3>2
  <2> HIDE DEF p
  <2> QED
      BY <1>2, <1>3, <2>1 DEF TypeOK
<1>5. /\ pc'[c] = "Metadata" /\ UNCHANGED req /\ \A d \in Calls : d # c => pc'[d] = pc[d]
      /\ Alone(c)
    BY <1>1, <1>3 DEF Goto, Alone, TypeOK, CallsInv, PCs
<1>6. SessionsInv'
  <2>1. \A s \in Sessions : sess'[s] = IF s = r.child THEN 0 ELSE sess[s]
      BY <1>2, <1>3 DEF TypeOK
  <2>2. home[r.child] = None
      BY <1>2, <1>3, NameFacts DEF SessionsInv
  <2>3. (\A s \in Sessions : home[s] \in Specs => sess[s] \in Registered /\ rows[sess[s]].spec = home[s])'
      BY <1>3, <2>1, <2>2, NameFacts DEF SessionsInv, Registered
  <2>4. (\A s \in Sessions : home[s] # None => sess[s] \in Names)'
      BY <1>3, <2>1, <2>2 DEF SessionsInv
  <2>5. ASSUME NEW d \in Calls, pc'[d] = "Metadata" PROVE sess'[req[d].child] # None
    <3>1. CASE d = c
        BY <1>2, <2>1, <3>1, NameFacts
    <3>2. CASE d # c
      <4>1. pc[d] = "Metadata" /\ req[d] \in AllRequests /\ "Metadata" \in Steps(req[d].op)
          BY <1>5, <2>5, <3>2 DEF CallsInv
      <4>2. req[d].child \in Sessions /\ sess[req[d].child] # None
          BY <4>1, Requests DEF Steps, Request, SessionsInv
      <4> QED
          BY <2>1, <4>2, NameFacts
    <3> QED
        BY <3>1, <3>2
  <2>6. ASSUME NEW d \in Calls, NEW e \in Calls, pc'[d] = "Metadata", pc'[e] = "Metadata", d # e
        PROVE  req[d].child # req[e].child
    <3>1. \A f \in Calls : f # c /\ pc'[f] = "Metadata" => pc[f] = "Metadata" /\ sess[req[f].child] # None
        BY <1>5 DEF SessionsInv
    <3> QED
        BY <1>3, <2>6, <3>1 DEF SessionsInv
  <2> QED
      BY <1>5, <2>3, <2>4, <2>5, <2>6 DEF SessionsInv
<1>7. RouteInv(c)'
    BY <1>3, <1>5 DEF RoutesInv, RouteInv, Registered
<1>8. "Metadata" \in Steps(req'[c].op)
    BY <1>1, <1>5 DEF Steps
<1> QED
    BY <1>1, <1>3, <1>4, <1>5, <1>6, <1>7, <1>8, AloneKeeps DEF Grows, Registered, TypeOK

(* The copy of a forked session's row keeps the invariant.                 *)
LEMMA ForkMetadataKeeps ==
    ASSUME IInv, NEW c \in Calls, ForkMetadata(c)
    PROVE  IInv'
<1> USE DEF IInv
<1> DEFINE r == req[c]
<1>1. pc[c] = "Metadata" /\ r \in AllRequests /\ "Metadata" \in Steps(r.op)
    BY DEF ForkMetadata, CallsInv
<1>2. r.s \in Sessions /\ r.child \in Sessions
    BY <1>1, Requests DEF Steps, Request
<1>3. /\ sess' = [sess EXCEPT ![r.child] = sess[r.s]]
      /\ home' = [home EXCEPT ![r.child] = home[r.s]]
      /\ Return(c) /\ UNCHANGED <<rows, reserved, pending, host>>
    BY DEF ForkMetadata
<1>4. /\ sess' \in [Sessions -> Names \cup {0, None}]
      /\ home' \in [Sessions -> Specs \cup {Builtin, None}]
    BY <1>2, <1>3 DEF TypeOK
<1>5. Alone(c) /\ pc'[c] = "done" /\ req'[c] = None /\ loc'[c] = NoLocals
    BY <1>1, <1>3, Returns DEF Alone, PCs, CallsInv
<1>6. SessionsInv'
  <2>1. \A s \in Sessions : /\ sess'[s] = IF s = r.child THEN sess[r.s] ELSE sess[s]
                            /\ home'[s] = IF s = r.child THEN home[r.s] ELSE home[s]
      BY <1>2, <1>3 DEF TypeOK
  <2>2. (\A s \in Sessions : home[s] \in Specs => sess[s] \in Registered /\ rows[sess[s]].spec = home[s])'
      BY <1>2, <1>3, <2>1 DEF SessionsInv, Registered
  <2>3. (\A s \in Sessions : home[s] # None => sess[s] \in Names)'
      BY <1>2, <2>1 DEF SessionsInv
  <2>4. ASSUME NEW d \in Calls, pc'[d] = "Metadata"
        PROVE  pc[d] = "Metadata" /\ req'[d] = req[d] /\ sess'[req[d].child] # None
    <3>1. d # c /\ pc[d] = "Metadata" /\ req'[d] = req[d]
        BY <1>5, <2>4 DEF Alone
    <3>2. req[d].child \in Sessions
      <4>1. req[d] \in AllRequests /\ "Metadata" \in Steps(req[d].op)
          BY <3>1 DEF CallsInv
      <4> QED
          BY <4>1, Requests DEF Steps, Request
    <3>3. req[d].child # r.child /\ sess[req[d].child] # None
        BY <1>1, <3>1 DEF SessionsInv
    <3> QED
        BY <2>1, <3>1, <3>2, <3>3
  <2> QED
      BY <2>2, <2>3, <2>4 DEF SessionsInv
<1>7. RouteInv(c)'
    BY <1>5 DEF RouteInv, NoLocals
<1> QED
    BY <1>3, <1>4, <1>5, <1>6, <1>7, AloneKeeps DEF Grows, Registered, TypeOK

-----------------------------------------------------------------------------
(* Every reachable state satisfies the invariant.                          *)
THEOREM RegistryInvariant == Spec => []IInv
<1>1. Init => IInv
  <2> SUFFICES ASSUME Init PROVE IInv
      OBVIOUS
  <2>1. TypeOK
      BY BoundsAssumption, NameFacts DEF Init, TypeOK, NewRegistry, NoBackends
  <2>2. CallsInv
      BY NoLocalsType DEF Init, CallsInv
  <2>3. TablesInv
      BY NameFacts DEF Init, TablesInv, Registered, NewRegistry
  <2>4. BackendsInv
      BY NameFacts DEF Init, BackendsInv, Holds, Builds1, NoBackends, NewRegistry
  <2>5. SessionsInv
      BY NameFacts DEF Init, SessionsInv
  <2>6. RoutesInv
      BY DEF Init, RoutesInv, RouteInv, NoLocals
  <2> QED
      BY <2>1, <2>2, <2>3, <2>4, <2>5, <2>6 DEF IInv
<1>2. IInv /\ [Next]_vars => IInv'
  <2> SUFFICES ASSUME IInv, [Next]_vars PROVE IInv'
      OBVIOUS
  <2>1. ASSUME NEW h \in Hosts, HostStep(h) PROVE IInv'
      BY <2>1, StartKeeps, FetchPageKeeps, LoadKeeps, StopKeeps, CrashKeeps DEF HostStep
  <2>2. ASSUME NEW c \in Calls, CallStep(c) PROVE IInv'
    <3>1. CASE DescribeFails(c)
        BY <3>1, Refusal DEF DescribeFails
    <3>2. CASE Suspend(c)
        BY <3>2, Refusal DEF Suspend, Routed
    <3> QED
        BY <2>2, <3>1, <3>2, BeginKeeps, PrepareKeeps, WriteRowKeeps, PublishKeeps, RetireKeeps,
           ListKeeps,
           CreateKeeps, PutSessionKeeps, RouteKeeps, ResolveKeeps, CheckKeeps, RunTurnKeeps,
           ForkCopyKeeps, ForkMetadataKeeps
        DEF CallStep
  <2>3. CASE UNCHANGED vars
    <3>1. UNCHANGED <<call, rows, sess, home>> /\ UNCHANGED <<store, host>>
        BY <2>3 DEF vars, store
    <3>2. CallsInv' /\ SessionsInv' /\ RoutesInv'
        BY <3>1, CallsStay DEF Keeps, host
    <3>3. TypeOK' /\ TablesInv' /\ BackendsInv'
        BY <3>1 DEF IInv, TypeOK, TablesInv, BackendsInv, Registered, Holds, Builds1, store, host, call
    <3> QED
        BY <3>2, <3>3 DEF IInv
  <2> QED
      BY <2>1, <2>2, <2>3 DEF Next
<1> QED
    BY <1>1, <1>2, PTL DEF Spec

(* Every variable keeps its type, the counts of open backends included.    *)
THEOREM RegistryTypes == Spec => []TypeOK
    BY RegistryInvariant, PTL DEF IInv

(* One name never means two harnesses, whatever hosts share the journal:   *)
(* NamesMeanOneHarness.                                                    *)
THEOREM OneHarnessPerName == Spec => []NamesMeanOneHarness
<1>1. IInv => NamesMeanOneHarness
    BY DEF IInv, TypeOK, TablesInv, NamesMeanOneHarness
<1> QED
    BY <1>1, RegistryInvariant, PTL

(* A session is driven through the harness it was created on.              *)
THEOREM PinnedSessions == Spec => []SessionsStayPinned
<1>1. IInv => SessionsStayPinned
  <2> SUFFICES ASSUME IInv, NEW c \in Calls, Routed(c), ~RecoversCollided(c)
               PROVE  LET on == placer[req[c].h][loc[c].target] IN
                      /\ loc[c].pin \in Specs => on = loc[c].pin
                      /\ loc[c].pin = Builtin /\ loc[c].stored \in reserved => on = Builtin
      BY DEF SessionsStayPinned
  <2> USE DEF IInv
  <2> DEFINE h == req[c].h
             st == loc[c].stored
             n == loc[c].target
             resumed == req[c].op \in {"Resume", "Suspend"}
  <2>1. pc[c] = "Checks" /\ h \in Hosts /\ \A why, m : ~Left(c, why, m)
    <3>1. pc[c] = "Checks" /\ req[c] \in AllRequests /\ loc[c].todo = <<>>
        BY DEF Routed, CallsInv
    <3> QED
        BY <3>1, Requests DEF Request, Left, Range
  <2>2. /\ st \in Names /\ n \in Names
        /\ loc[c].pin \in Specs => st \in Registered /\ rows[st].spec = loc[c].pin
        /\ placer[h][n] # None
        /\ n = st \/ ~resumed => (loc[c].pin \in Specs => st \notin Static[h])
        /\ n # st => (loc[c].pin \in Specs => st \in Static[h])
        /\ n # st => n \in Static[h]
      BY <2>1 DEF RoutesInv, RouteInv
  <2>3. /\ placer[h][n] \in Specs \cup {Builtin}
        /\ placer[h][n] = Builtin <=> n \in Static[h]
        /\ placer[h][n] \in Specs => n \in Registered /\ rows[n].spec = placer[h][n]
        /\ reserved \cap Registered = {}
      BY <2>1, <2>2 DEF TypeOK, TablesInv
  <2>4. CASE n = st
      BY <2>2, <2>3, <2>4
  <2>5. CASE n # st
    <3>1. resumed => ~Collides(h, st)
        BY <2>5 DEF RecoversCollided
    <3>2. loc[c].pin \notin Specs
        BY <2>2, <2>5, <3>1 DEF Collides
    <3> QED
        BY <2>2, <2>3, <2>5, <3>2
  <2> QED
      BY <2>4, <2>5
<1> QED
    BY <1>1, RegistryInvariant, PTL

(* A static harness whose name had a registration when the call began is   *)
(* not handed out.                                                         *)
THEOREM CollisionsFailClosed == Spec => []CollidedNamesAreNotServed
<1>1. IInv => CollidedNamesAreNotServed
  <2> SUFFICES ASSUME IInv, NEW c \in Calls, Routed(c), loc[c].target \in Static[req[c].h]
               PROVE  loc[c].target \notin loc[c].known
      BY DEF CollidedNamesAreNotServed
  <2>1. pc[c] = "Checks" /\ ~Left(c, "collides", loc[c].target)
      BY DEF Routed, Left, Range
  <2> QED
      BY <2>1 DEF IInv, RoutesInv, RouteInv
<1> QED
    BY <1>1, RegistryInvariant, PTL

(* No backend leaks and none is released twice.                            *)
THEOREM NoBackendLeaks == Spec => []BackendsAreReleased
<1>1. IInv => BackendsAreReleased
  <2> SUFFICES ASSUME IInv, NEW h \in Hosts, NEW n \in Names
               PROVE  /\ open[h][n] = kept[h][n] + Cardinality(Building(h, n))
                      /\ kept[h][n] = IF placer[h][n] \in Specs THEN 1 ELSE 0
      BY DEF BackendsAreReleased
  <2>1. \A c \in Building(h, n) : mu[h] = c /\ Builds1(h, n)
      BY NameFacts DEF IInv, BackendsInv, Building, Holds, Builds1
  <2>2. Builds1(h, n) => mu[h] \in Building(h, n)
    <3>1. ASSUME Builds1(h, n) PROVE mu[h] \in Calls /\ Holds(mu[h], h)
        BY <3>1 DEF IInv, BackendsInv, TypeOK, Builds1
    <3> QED
        BY <3>1 DEF Building, Holds, Builds1
  <2>3. Cardinality(Building(h, n)) = IF Builds1(h, n) THEN 1 ELSE 0
    <3>1. CASE Builds1(h, n)
      <4>1. Building(h, n) = {mu[h]}
          BY <2>1, <2>2, <3>1
      <4> QED
          BY <3>1, <4>1, FS_Singleton
    <3>2. CASE ~Builds1(h, n)
      <4>1. Building(h, n) = {}
          BY <2>1, <3>2
      <4> QED
          BY <3>2, <4>1, FS_EmptySet
    <3> QED
        BY <3>1, <3>2
  <2> QED
      BY <2>3 DEF IInv, BackendsInv
<1> QED
    BY <1>1, RegistryInvariant, PTL

(* Once RetireHarness has committed, no session is created on the harness. *)
THEOREM RetiredStayEmpty == Spec => RetiredTakesNoSessions
<1>1. IInv /\ [Next]_vars =>
          [\A s \in Sessions :
              /\ sess[s] = None /\ sess'[s] \in Registered
              => rows[sess'[s]].active]_vars
  <2> SUFFICES ASSUME IInv, [Next]_vars, NEW s \in Sessions, sess[s] = None, sess'[s] \in Registered
               PROVE  rows[sess'[s]].active
      OBVIOUS
  <2>1. sess'[s] \in Names /\ sess'[s] # sess[s]
      BY NameFacts DEF Registered
  <2>2. ASSUME NEW h \in Hosts, HostStep(h) PROVE UNCHANGED sess
      BY <2>2 DEF HostStep, Start, StartBare, FetchPage, Load, Serve, Stop, Crash, store
  <2>3. PICK c \in Calls : CallStep(c)
      BY SMTT(30), <2>1, <2>2 DEF Next, vars, store
  <2>4. PutSession(c) \/ ForkCopy(c) \/ ForkMetadata(c) \/ UNCHANGED sess
      BY <2>3 DEF CallStep, Begin, Prepare, WriteRow, Publish, Retire, ListHarnesses, Listed, Create,
                  Route, Resolve, Check, DescribeFails, RunTurn, Suspend, Refuse, store
  <2>5. CASE PutSession(c)
    <3> DEFINE r == req[c]
               n == IF r.name = 0 THEN Default ELSE r.name
    <3>1. /\ TakesSessions(n, n \notin Static[r.h])
          /\ sess' = [sess EXCEPT ![r.s] = n]
        BY <2>1, <2>5 DEF PutSession, Refuse, store
    <3>2. sess'[s] = n
        BY <2>1, <3>1 DEF IInv, TypeOK
    <3> QED
        BY <3>1, <3>2 DEF TakesSessions
  <2>6. CASE ForkCopy(c)
      BY <2>1, <2>6, NameFacts DEF ForkCopy, IInv, TypeOK
  <2>7. CASE ForkMetadata(c)
    <3>1. sess[req[c].child] # None
        BY <2>7 DEF ForkMetadata, IInv, SessionsInv
    <3> QED
        BY <2>1, <2>7, <3>1 DEF ForkMetadata, IInv, TypeOK
  <2> QED
      BY <2>1, <2>4, <2>5, <2>6, <2>7
<1> QED
    BY <1>1, RegistryInvariant, PTL DEF Spec, RetiredTakesNoSessions

-----------------------------------------------------------------------------
(* Listings.                                                               *)

(* What a keyset page is: an initial part of the set, and all of it when   *)
(* the page is not full.                                                   *)
LEMMA SmallestIs ==
    ASSUME NEW S \in SUBSET Names, NEW k \in Nat
    PROVE  /\ Smallest(S, k) \subseteq S /\ IsFiniteSet(S) /\ IsFiniteSet(Smallest(S, k))
           /\ \A x \in Smallest(S, k), y \in S : y <= x => y \in Smallest(S, k)
           /\ Cardinality(Smallest(S, k)) < k => Smallest(S, k) = S
           /\ Cardinality(S) <= k => Smallest(S, k) = S
<1> DEFINE Below(n) == {m \in S : m < n}
<1>1. S \subseteq Nat /\ IsFiniteSet(S)
    BY NameFacts, FS_Subset
<1>2. \A n \in S : IsFiniteSet(Below(n)) /\ Cardinality(Below(n)) \in Nat
    BY <1>1, FS_Subset, FS_CardinalityType
<1>3. Smallest(S, k) \subseteq S /\ \A n \in S : n \in Smallest(S, k) <=> Cardinality(Below(n)) < k
    BY DEF Smallest
<1>4. IsFiniteSet(Smallest(S, k)) /\ Cardinality(Smallest(S, k)) \in Nat
    BY <1>1, <1>3, FS_Subset, FS_CardinalityType
<1>5. ASSUME NEW x \in Smallest(S, k), NEW y \in S, y <= x PROVE y \in Smallest(S, k)
  <2>1. x \in S /\ Cardinality(Below(x)) < k
      BY <1>3
  <2>2. ASSUME NEW m \in Below(y) PROVE m \in Below(x)
    <3>1. m \in S /\ m < y /\ m \in Nat /\ y \in Nat /\ x \in Nat
        BY <1>1, <2>1
    <3> QED
        BY <1>5, <3>1
  <2>3. /\ IsFiniteSet(Below(x)) /\ Cardinality(Below(x)) \in Nat
        /\ Cardinality(Below(y)) \in Nat
        /\ y \in Smallest(S, k) <=> Cardinality(Below(y)) < k
      BY <1>2, <1>3, <2>1
  <2> HIDE DEF Below
  <2>4. Cardinality(Below(y)) <= Cardinality(Below(x))
      BY <2>2, <2>3, FS_Subset
  <2> QED
      BY <2>1, <2>3, <2>4
<1>6. ASSUME Cardinality(Smallest(S, k)) < k, Smallest(S, k) # S PROVE FALSE
  <2> DEFINE D == S \ Smallest(S, k)
             n == Least(D)
  <2>1. n \in D /\ \A m \in D : n <= m
    <3>1. D \in SUBSET Names /\ D # {}
        BY <1>3, <1>6
    <3> QED
        BY <3>1, Extremes
  <2> HIDE DEF n
  <2>2. n \in S /\ ~(Cardinality(Below(n)) < k)
      BY <1>3, <2>1
  <2>3. ASSUME NEW m \in Below(n) PROVE m \in Smallest(S, k)
    <3>1. m \in S /\ m < n /\ m \in Nat /\ n \in Nat
        BY <1>1, <2>2
    <3> QED
        BY <2>1, <3>1
  <2>4. Cardinality(Below(n)) <= Cardinality(Smallest(S, k))
      BY <1>4, <2>3, FS_Subset
  <2> QED
      BY <1>2, <1>4, <1>6, <2>2, <2>4
<1>7. ASSUME Cardinality(S) <= k, NEW n \in S PROVE n \in Smallest(S, k)
  <2>1. Below(n) \subseteq S /\ Below(n) # S
      BY <1>1, <1>7
  <2>2. Cardinality(Below(n)) < Cardinality(S)
      BY <1>1, <2>1, FS_Subset, FS_CardinalityType
  <2> QED
      BY <1>1, <1>2, <1>3, <1>7, <2>2, FS_CardinalityType
<1> QED
    BY <1>1, <1>3, <1>4, <1>5, <1>6, <1>7

(* A page of the merged listing: A are the rows it may list beyond the     *)
(* cursor and B the static names; a page shows every name of either up to  *)
(* its last, and the last page shows them all.                             *)
LEMMA MergedPage ==
    ASSUME NEW A \in SUBSET Names, NEW B \in SUBSET Names, NEW k \in Nat
    PROVE  LET out == Smallest(Smallest(A, k + 1) \cup B, k + 1)
               shown == Smallest(out, k)
           IN  /\ shown \subseteq A \cup B
               /\ \A g \in shown, n \in A \cup B : n <= g => n \in shown
               /\ ~(Cardinality(out) > k) => A \cup B \subseteq shown
<1> DEFINE R == Smallest(A, k + 1)
           U == R \cup B
           out == Smallest(U, k + 1)
           shown == Smallest(out, k)
<1>11. k + 1 \in Nat
    OBVIOUS
<1>1. /\ R \subseteq A /\ IsFiniteSet(R)
      /\ \A x \in R, y \in A : y <= x => y \in R
      /\ Cardinality(R) < k + 1 => R = A
    BY <1>11, SmallestIs
<1>2. U \in SUBSET Names
    BY <1>1
<1> HIDE DEF R
<1>3. /\ out \subseteq U /\ IsFiniteSet(U) /\ IsFiniteSet(out)
      /\ \A x \in out, y \in U : y <= x => y \in out
      /\ Cardinality(out) < k + 1 => out = U
    BY <1>2, <1>11, SmallestIs
<1>4. \A g \in out : Cardinality({m \in U : m < g}) < k + 1
    BY DEF Smallest
<1> HIDE DEF out, U
<1>5. /\ shown \subseteq out
      /\ \A x \in shown, y \in out : y <= x => y \in shown
      /\ Cardinality(out) <= k => shown = out
    BY <1>2, <1>3, SmallestIs
<1> HIDE DEF shown
<1>6. Cardinality(R) \in Nat /\ Cardinality(out) \in Nat /\ A \subseteq Nat /\ B \subseteq Nat
    BY <1>1, <1>3, NameFacts, FS_CardinalityType
<1>7. ASSUME NEW n \in A, n \notin R
      PROVE  Cardinality(R) >= k + 1 /\ \A x \in R : x < n
    BY <1>1, <1>6, <1>7
<1>8. ASSUME NEW g \in shown, NEW n \in A \cup B, n <= g PROVE n \in shown
  <2>1. CASE n \in U
      BY <1>3, <1>5, <1>8, <2>1
  <2>2. CASE n \notin U
    <3>1. n \in A /\ n \notin R
        BY <1>8, <2>2 DEF U
    <3>2. g \in out /\ g \in Nat
        BY <1>2, <1>3, <1>5, NameFacts
    <3> DEFINE Below == {m \in U : m < g}
    <3>3. R \subseteq Below
        BY <1>1, <1>6, <1>7, <1>8, <3>1, <3>2 DEF U
    <3>4. IsFiniteSet(Below) /\ Cardinality(Below) \in Nat
        BY <1>3, FS_Subset, FS_CardinalityType
    <3>5. Cardinality(R) <= Cardinality(Below)
        BY <3>3, <3>4, FS_Subset
    <3> QED
        BY <1>4, <1>6, <1>7, <3>1, <3>2, <3>4, <3>5
  <2> QED
      BY <2>1, <2>2
<1>9. ASSUME ~(Cardinality(out) > k) PROVE A \cup B \subseteq shown
  <2>1. out = U /\ shown = out
      BY <1>3, <1>5, <1>6, <1>9
  <2>2. ASSUME NEW n \in A, n \notin R PROVE FALSE
    <3>1. Cardinality(R) <= Cardinality(out)
        BY <1>3, <2>1, FS_Subset DEF U
    <3> QED
        BY <1>6, <1>7, <1>9, <2>2, <3>1
  <2> QED
      BY <2>1, <2>2 DEF U
<1>10. shown \subseteq A \cup B
    BY <1>1, <1>3, <1>5 DEF U
<1> QED
    BY <1>8, <1>9, <1>10 DEF shown, out, U, R

Returned(c) == UNION {loc[c].got[i] : i \in DOMAIN loc[c].got}

(* The pages of a listing end at its cursor, in order, and hold every name *)
(* up to it that all of them could have listed.                            *)
PageInv(c) ==
    LET got == loc[c].got IN
    /\ \A i \in DOMAIN got : \A m \in got[i] : m <= loc[c].after
    /\ \A i, j \in DOMAIN got : i < j => \A m \in got[i], n \in got[j] : m < n
    /\ \A n \in loc[c].owed : n <= loc[c].after => n \in Returned(c)
    /\ pc[c] = "Listed" => loc[c].owed \subseteq Returned(c)

PagesInv == \A c \in Calls : PageInv(c)

(* Only ListHarnesses touches what a listing keeps.                        *)
LEMMA PageStays ==
    ASSUME IInv, NEW c \in Calls, PageInv(c),
           \/ /\ loc'[c].got = loc[c].got /\ loc'[c].after = loc[c].after /\ loc'[c].owed = loc[c].owed
              /\ pc'[c] = "Listed" => pc[c] = "Listed"
           \/ loc'[c].got = <<>> /\ loc'[c].after = 0 /\ loc'[c].owed \subseteq Names /\ pc'[c] # "Listed"
    PROVE  PageInv(c)'
<1>1. CASE /\ loc'[c].got = loc[c].got /\ loc'[c].after = loc[c].after /\ loc'[c].owed = loc[c].owed
           /\ pc'[c] = "Listed" => pc[c] = "Listed"
    BY <1>1 DEF PageInv, Returned
<1>2. CASE loc'[c].got = <<>> /\ loc'[c].after = 0 /\ loc'[c].owed \subseteq Names /\ pc'[c] # "Listed"
  <2>1. \A n \in Names : ~(n <= 0)
      BY NameFacts
  <2> QED
      BY <1>2, <2>1 DEF PageInv
<1> QED
    BY <1>1, <1>2

(* A page of a listing shows the names that are next, and goes on after    *)
(* the last of them.                                                       *)
LEMMA ListedPage ==
    ASSUME IInv, NEW c \in Calls, PageInv(c), ListHarnesses(c)
    PROVE  PageInv(c)'
<1> DEFINE r == req[c]
           l == loc[c]
           A == {n \in Listable(r.all) : n > l.after}
           B == {n \in Static[r.h] : n > l.after}
           out == Smallest(Smallest(A, ListPage + 1) \cup B, ListPage + 1)
           shown == Smallest(out, ListPage)
           cursor == IF shown = {} THEN l.after ELSE Greatest(shown)
           owed == l.owed \cap (Static[r.h] \cup Listable(r.all))
<1>1. pc[c] = "List" /\ r \in AllRequests /\ r.h \in Hosts /\ l \in Locals
    BY Requests DEF ListHarnesses, IInv, CallsInv, Request
<1>2. /\ l.after \in Nat /\ l.owed \subseteq Names /\ l.got \in Seq(SUBSET Names)
      /\ Static[r.h] \subseteq Names /\ Listable(r.all) \subseteq Names /\ Names \subseteq Nat
  <2>1. l.after \in Names \cup {0} /\ l.owed \subseteq Names /\ l.got \in Seq(SUBSET Names)
      BY <1>1 DEF Locals
  <2>2. Static[r.h] \subseteq Names /\ Listable(r.all) \subseteq Names /\ Names \subseteq Nat
      BY <1>1, NameFacts DEF Listable, Registered
  <2> HIDE DEF l, r
  <2>4. \A x : x \in Names => x \in Nat
      BY NameFacts
  <2>5. l.after \in Names \/ l.after = 0
      BY <2>1
  <2>3. l.after \in Nat
      BY SMTT(30), <2>4, <2>5
  <2> QED
      BY <2>1, <2>2, <2>3
<1>3. /\ loc'[c].after = cursor /\ loc'[c].got = Append(l.got, shown) /\ loc'[c].owed = owed
      /\ pc'[c] = "Listed" => ~(Cardinality(out) > ListPage)
    BY <1>1 DEF ListHarnesses, RowsAfter, Goto, IInv, TypeOK, CallsInv, Locals
<1>4. A \in SUBSET Names /\ B \in SUBSET Names /\ \A n \in A \cup B : n > l.after
    BY <1>2
<1>5. owed \subseteq l.owed /\ \A n \in owed : n > l.after => n \in A \cup B
    OBVIOUS
<1> HIDE DEF A, B, owed
<1>6. /\ shown \subseteq A \cup B
      /\ \A g \in shown, n \in A \cup B : n <= g => n \in shown
      /\ ~(Cardinality(out) > ListPage) => A \cup B \subseteq shown
    BY <1>4, MergedPage, BoundsAssumption
<1> HIDE DEF out
<1>7. shown \in SUBSET Names
    BY <1>4, <1>6
<1> HIDE DEF shown
<1>8. /\ cursor \in Nat /\ l.after <= cursor /\ \A m \in shown : m <= cursor
      /\ shown # {} => cursor \in shown
  <2>1. shown # {} => Greatest(shown) \in shown /\ \A m \in shown : m <= Greatest(shown)
      BY <1>7, Extremes
  <2>2. \A m \in shown : m \in Nat /\ m > l.after
      BY <1>2, <1>4, <1>6, <1>7
  <2> HIDE DEF l
  <2>3. CASE shown = {}
      BY <1>2, <2>3
  <2>4. CASE shown # {}
      BY <1>2, <2>1, <2>2, <2>4
  <2> QED
      BY <2>3, <2>4
<1>9. /\ DOMAIN Append(l.got, shown) = 1..(Len(l.got) + 1) /\ Len(l.got) \in Nat
      /\ \A i \in 1..Len(l.got) : Append(l.got, shown)[i] = l.got[i] /\ l.got[i] \in SUBSET Names
      /\ Append(l.got, shown)[Len(l.got) + 1] = shown
      /\ DOMAIN l.got = 1..Len(l.got)
    BY <1>2, <1>7
<1>10. Returned(c)' = Returned(c) \cup shown
  <2>1. \A x : x \in Returned(c)' <=> \E i \in 1..(Len(l.got) + 1) : x \in Append(l.got, shown)[i]
      BY <1>3, <1>9 DEF Returned
  <2>2. \A x : x \in Returned(c) <=> \E i \in 1..Len(l.got) : x \in l.got[i]
      BY <1>9 DEF Returned
  <2>3. 1..(Len(l.got) + 1) = 1..Len(l.got) \cup {Len(l.got) + 1}
      BY SMTT(30), <1>9
  <2> HIDE DEF l
  <2>4. \A x : x \in Returned(c)' <=> x \in Returned(c) \/ x \in shown
      BY <1>9, <2>1, <2>2, <2>3
  <2> QED
      BY <2>4
<1> HIDE DEF cursor
<1>11. ASSUME NEW i \in DOMAIN loc'[c].got, NEW m \in loc'[c].got[i] PROVE m <= cursor
  <2>1. CASE i \in 1..Len(l.got)
    <3>1. m \in l.got[i] /\ l.got[i] \subseteq Names
        BY <1>3, <1>9, <1>11, <2>1
    <3>2. m <= l.after
        BY <1>9, <2>1, <3>1 DEF PageInv
    <3>3. m \in Nat /\ l.after \in Nat /\ cursor \in Nat /\ l.after <= cursor
        BY <1>2, <1>8, <3>1
    <3> QED
        BY <3>2, <3>3
  <2>2. CASE i = Len(l.got) + 1
      BY <1>3, <1>8, <1>9, <1>11, <2>2
  <2> QED
      BY <1>3, <1>9, <1>11, <2>1, <2>2
<1>12. ASSUME NEW i \in DOMAIN loc'[c].got, NEW j \in DOMAIN loc'[c].got, i < j,
              NEW m \in loc'[c].got[i], NEW n \in loc'[c].got[j]
       PROVE  m < n
  <2>1. i \in 1..Len(l.got) /\ m \in l.got[i] /\ (j \in 1..Len(l.got) \/ j = Len(l.got) + 1)
      BY <1>3, <1>9, <1>12
  <2>2. CASE j \in 1..Len(l.got)
    <3>1. n \in l.got[j]
        BY <1>3, <1>9, <1>12, <2>2
    <3> QED
        BY <1>9, <1>12, <2>1, <2>2, <3>1 DEF PageInv
  <2>3. CASE j = Len(l.got) + 1
    <3>1. n \in shown
        BY <1>3, <1>9, <1>12, <2>3
    <3>2. n > l.after /\ n \in Nat
        BY <1>2, <1>4, <1>6, <1>7, <3>1
    <3>3. m <= l.after /\ m \in Nat
        BY <1>2, <1>9, <2>1 DEF PageInv
    <3> QED
        BY <1>2, <3>2, <3>3
  <2> QED
      BY <2>1, <2>2, <2>3
<1>13. ASSUME NEW n \in owed, n <= cursor PROVE n \in Returned(c)'
  <2>1. CASE n <= l.after
      BY <1>5, <1>10, <2>1 DEF PageInv
  <2>2. CASE ~(n <= l.after)
    <3>3. n \in Nat /\ l.after \in Nat
        BY <1>2, <1>5
    <3>1. n \in Nat /\ n \in A \cup B
        BY <1>5, <2>2, <3>3
    <3>2. shown # {}
        BY <1>13, <2>2 DEF cursor
    <3> QED
        BY <1>6, <1>8, <1>10, <1>13, <3>1, <3>2
  <2> QED
      BY <2>1, <2>2
<1>14. ASSUME pc'[c] = "Listed", NEW n \in owed PROVE n \in Returned(c)'
  <2>1. CASE n <= l.after
      BY <1>5, <1>10, <2>1 DEF PageInv
  <2>2. CASE ~(n <= l.after)
    <3>2. n \in Nat /\ l.after \in Nat
        BY <1>2, <1>5
    <3>1. n \in A \cup B
        BY <1>5, <2>2, <3>2
    <3> QED
        BY <1>3, <1>6, <1>10, <1>14, <3>1
  <2> QED
      BY <2>1, <2>2
<1> QED
    BY SMTT(30), <1>3, <1>11, <1>12, <1>13, <1>14 DEF PageInv

(* A listing misses nothing and repeats nothing: PagesAreComplete.         *)
THEOREM ListingsAreComplete == Spec => []PagesAreComplete
<1>1. Init => PagesInv
    BY DEF Init, PagesInv, PageInv, NoLocals
<1>2. IInv /\ PagesInv /\ [Next]_vars => PagesInv'
  <2> SUFFICES ASSUME IInv, PagesInv, [Next]_vars, NEW c \in Calls PROVE PageInv(c)'
      BY DEF PagesInv
  <2> DEFINE Same == /\ loc'[c].got = loc[c].got /\ loc'[c].after = loc[c].after /\ loc'[c].owed = loc[c].owed
                     /\ pc'[c] = "Listed" => pc[c] = "Listed"
             Fresh == loc'[c].got = <<>> /\ loc'[c].after = 0 /\ loc'[c].owed \subseteq Names /\ pc'[c] # "Listed"
  <2>1. pc \in [Calls -> PCs] /\ loc \in [Calls -> Locals] /\ req \in [Calls -> AllRequests \cup {None}]
      BY DEF IInv, TypeOK, CallsInv, PCs
  <2>2. ASSUME NEW h \in Hosts, HostStep(h) PROVE Same \/ Fresh
    <3>1. UNCHANGED call \/ Crash(h)
        BY SMTT(30), <2>2 DEF HostStep, Start, StartBare, FetchPage, Load, Serve, Stop
    <3> QED
        BY <2>1, <3>1 DEF call, Crash, NoLocals
  <2>3. ASSUME NEW d \in Calls, CallStep(d), ~ListHarnesses(d) PROVE Same \/ Fresh
    <3>1. CASE Return(d)
        BY <2>1, <3>1 DEF Return, NoLocals
    <3>2. CASE UNCHANGED loc /\ \E label \in PCs \ {"Listed"} : Goto(d, label)
        BY <2>1, <3>2 DEF Goto
    <3>3. CASE Begin(d)
      <4>1. PICK q \in Menu[d] :
                /\ pc' = [pc EXCEPT ![d] = IF q.op \in {"Exec", "Resume", "Suspend",
                      "Fork"} THEN "Route" ELSE q.op]
                /\ loc' = [loc EXCEPT ![d] = [NoLocals EXCEPT !.known = Registered,
                      !.owed = IF q.op = "List" THEN Static[q.h] \cup Registered ELSE {}]]
          BY <3>3 DEF Begin
      <4>2. q.op # "Listed" /\ Static[q.h] \cup Registered \subseteq Names
          BY NameFacts, MenuAssumption DEF Request, Registered
      <4> QED
          BY <2>1, <4>1, <4>2 DEF NoLocals
    <3>4. CASE Check(d) /\ ~Return(d)
      <4>1. loc' = [loc EXCEPT ![d].todo = Tail(@)] /\ UNCHANGED pc
          BY <3>4 DEF Check, Refuse
      <4> QED
          BY <2>1, <4>1 DEF Locals
    <3>5. CASE Route(d) /\ ~Return(d)
      <4> DEFINE s == req[d].s
                 st == IF sess[s] = 0 THEN Default ELSE sess[s]
                 over == Override(req[d])
                 n == IF over = 0 THEN st ELSE over
                 todo == ExecRoute(st, over)
      <4>1. /\ pc' = [pc EXCEPT ![d] = "Resolve"] \/ pc' = [pc EXCEPT ![d] = "Checks"]
            /\ \/ loc' = [loc EXCEPT ![d].stored = st, ![d].pin = home[s]]
               \/ loc' = [loc EXCEPT ![d].stored = st, ![d].pin = home[s], ![d].target = n,
                     ![d].todo = todo]
          BY <3>5 DEF Route, Refuse, Goto
      <4> HIDE DEF s, st, n, todo
      <4>2. CASE d # c
          BY <2>1, <4>1, <4>2
      <4>3. CASE d = c
        <5>1. /\ loc'[c].got = loc[c].got /\ loc'[c].after = loc[c].after /\ loc'[c].owed = loc[c].owed
            BY <2>1, <4>1, <4>3 DEF Locals
        <5>2. pc'[c] # "Listed"
            BY <2>1, <4>1, <4>3
        <5> QED
            BY <5>1, <5>2
      <4> QED
          BY <4>2, <4>3
    <3>6. CASE Resolve(d) /\ ~Return(d)
        BY SMTT(30), <2>1, <3>6 DEF Resolve, Refuse, Goto, Locals
    <3> QED
        BY <2>3, <3>1, <3>2, <3>3, <3>4, <3>5, <3>6
        DEF CallStep, Prepare, WriteRow, Publish, Retire, Listed, Create, PutSession, DescribeFails,
            RunTurn, Suspend, ForkCopy, ForkMetadata, Refuse, PCs
  <2>4. ASSUME NEW d \in Calls, ListHarnesses(d) PROVE d = c \/ Same
      BY <2>1, <2>4 DEF ListHarnesses, Goto
  <2>5. ASSUME UNCHANGED vars PROVE Same
      BY <2>5 DEF vars, call
  <2>6. Same \/ Fresh \/ ListHarnesses(c)
      BY <2>2, <2>3, <2>4, <2>5 DEF Next
  <2>7. PageInv(c)
      BY DEF PagesInv
  <2> HIDE DEF Same, Fresh
  <2>8. CASE Same \/ Fresh
      BY <2>7, <2>8, PageStays DEF Same, Fresh
  <2>9. CASE ListHarnesses(c)
      BY <2>7, <2>9, ListedPage
  <2> QED
      BY <2>6, <2>8, <2>9
<1>3. PagesInv => PagesAreComplete
    BY DEF PagesInv, PageInv, PagesAreComplete, Returned
<1> QED
    BY <1>1, <1>2, <1>3, RegistryInvariant, PTL DEF Spec
=============================================================================
