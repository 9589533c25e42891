-------------------------- MODULE HarnessRegistry ---------------------------
(* The harness names of hosts that share one journal, and the calls that   *)
(* route sessions by them.                                                 *)
(*                                                                         *)
(* A name is static on a host (built in, or given by -harness), or it has  *)
(* a registration row in the journal, written by any host and immutable    *)
(* but for its retirement.  Each host keeps in memory a Placer per name it *)
(* serves.  session.Service resolves a session's recorded name, or a       *)
(* turn's override, to a Placer by a list of checks, each of which reads   *)
(* the host's table or the journal once, and other hosts commit between    *)
(* them.                                                                   *)
(*                                                                         *)
(* Names are numbers so that they are ordered as their strings are; 0 is   *)
(* the empty string, where a listing starts.  A Placer is identified by    *)
(* what it runs: Builtin for a static harness, else the spec it was built  *)
(* from.  Sessions' deletion and what a turn does to its log are in        *)
(* SessionLog, Placement and Turn.                                         *)
EXTENDS Integers, FiniteSets, Sequences

CONSTANTS
    Hosts,
    Names,      \* harness names: numbers above 0
    Specs,      \* registrable specs, as their digests
    Sessions,
    Static,     \* Static[h]: the names host h serves itself
    Held,       \* Held[h]: the names h reserves, its static ones included
    Default,    \* the default harness of every host
    Memory,     \* static names whose harness needs its memory snapshot
    Builds,     \* Builds[h]: the specs h can decode and build a Placer for
    Lax,        \* hosts that may start without reserving or loading names
    Calls,
    Menu,       \* Menu[c]: the requests call c may be
    Builtin,
    None,
    MaxStarts,  \* bound: starts of all hosts together
    LoadPage,   \* sqlitelog.MaxPageSize
    ListPage    \* the page size of a listing

(* A registration row, and a session's unfinished turn.                    *)
Row == [spec : Specs, active : BOOLEAN]

Turn == [harness : Names, gate : {"no", "own", "inherited"}]

ASSUME NamesAssumption ==
    /\ Names \subseteq Nat \ {0} /\ IsFiniteSet(Names)
    /\ Static \in [Hosts -> SUBSET Names] /\ Held \in [Hosts -> SUBSET Names]
    /\ \A h \in Hosts : Default \in Static[h] /\ Static[h] \subseteq Held[h]
    /\ Builds \in [Hosts -> SUBSET Specs]
    /\ Builtin \notin Specs /\ None \notin Specs \cup {Builtin} \cup Names \cup {0} \cup Calls
    /\ None \notin Row \cup Turn

ASSUME BoundsAssumption ==
    MaxStarts \in Nat /\ LoadPage \in Nat \ {0} /\ ListPage \in Nat \ {0}

(* The fields of a request, by its operation.                              *)
Request(r) ==
    /\ r # None /\ r.h \in Hosts
    /\ r.op \in {"Register", "Retire", "List", "Create", "Exec", "Resume", "Suspend", "Fork"}
    /\ r.op \in {"Register", "Retire"} => r.name \in Names
    /\ r.op = "Register" => r.spec \in Specs
    /\ r.op = "List" => r.all \in BOOLEAN
    /\ r.op \in {"Create", "Exec", "Resume", "Suspend", "Fork"} => r.s \in Sessions
    /\ r.op = "Create" => r.name \in Names \cup {0} /\ r.exec \in BOOLEAN
    /\ r.op = "Exec" => r.over \in Names \cup {0}
    /\ r.op = "Fork" => r.child \in Sessions

ASSUME MenuAssumption == \A c \in Calls : \A r \in Menu[c] : Request(r)

VARIABLES
    rows,       \* table harnesses: rows[n] is None or [spec, active]
    reserved,   \* table reserved_harness_names
    sess,       \* table sessions: sess[s] is None or the harness column (0: unset)
    pending,    \* pending[s]: None, or s's unfinished turn: its harness and its gate
    phase,      \* phase[h]: "down", "loading", "up", or "bare" (no registrations)
    placer,     \* placer[h][n]: Registry.byName
    bad,        \* bad[h]: Registry.unavailable
    page,       \* page[h]: rows fetched by NewHarnessRegistry and not loaded yet
    after,      \* after[h]: the last name fetched, None once the listing ended
    mu,         \* mu[h]: the RegisterHarness call that holds HarnessRegistry.mu
    open,       \* open[h][n]: backends built for n and not released
    kept,       \* kept[h][n]: release functions the registry keeps for n
    starts,
    pc, req,    \* where each call is, and its request
    loc,        \* the locals of each call: see NoLocals
    home        \* auxiliary: what a session's recorded harness ran when it was created

store == <<rows, reserved, sess, pending, home>>
host == <<phase, placer, bad, page, after, mu, open, kept, starts>>
call == <<pc, req, loc>>
vars == <<store, host, call>>

Registered == {n \in Names : rows[n] # None}

(* A host's table as NewRegistry builds it: the static harnesses only.     *)
NewRegistry(h) == [n \in Names |-> IF n \in Static[h] THEN Builtin ELSE None]

NoBackends == [n \in Names |-> 0]

(* A call's locals: the session's harness as it read it, the harness it    *)
(* was routed to and the checks still to pass; a listing's cursor and      *)
(* pages.  Auxiliary: what the session's harness ran (pin), the names with *)
(* a row when the call began (known), what a listing must return (owed).   *)
NoLocals == [stored |-> None, target |-> None, todo |-> <<>>, after |-> 0, got |-> <<>>,
             pin |-> None, known |-> {}, owed |-> {}]

Init ==
    /\ rows = [n \in Names |-> None]
    /\ reserved = {}
    /\ sess = [s \in Sessions |-> None]
    /\ pending = [s \in Sessions |-> None]
    /\ phase = [h \in Hosts |-> "down"]
    /\ placer = [h \in Hosts |-> NewRegistry(h)]
    /\ bad = [h \in Hosts |-> {}]
    /\ page = [h \in Hosts |-> {}]
    /\ after = [h \in Hosts |-> 0]
    /\ mu = [h \in Hosts |-> None]
    /\ open = [h \in Hosts |-> NoBackends]
    /\ kept = [h \in Hosts |-> NoBackends]
    /\ starts = 0
    /\ pc = [c \in Calls |-> "idle"]
    /\ req = [c \in Calls |-> None]
    /\ loc = [c \in Calls |-> NoLocals]
    /\ home = [s \in Sessions |-> None]

-----------------------------------------------------------------------------
(* The placement registry of one host.                                     *)

(* Mutant: Has forgets the harnesses it serves.                            *)
HasUnavailable(h, n) == n \in bad[h]

Has(h, n) == placer[h][n] # None \/ n \in bad[h]

CanAdd(h, n) == n \notin Held[h] /\ ~Has(h, n)

MarkUnavailable(h, n) == bad' = [bad EXCEPT ![h] = @ \cup {n}]

(* Whether host h understands every field and value of a spec and its      *)
(* factory builds a Placer that expects the spec's descriptor.  A spec of  *)
(* a newer host may be neither.  (A request's spec that the host does not  *)
(* understand is refused before anything else; Menu offers none.)          *)
Servable(h, spec) == spec \in Builds[h]

(* The k smallest members of a set of names: a keyset page.                *)
Smallest(S, k) == {n \in S : Cardinality({m \in S : m < n}) < k}

Greatest(S) == CHOOSE n \in S : \A m \in S : m <= n

Least(S) == CHOOSE n \in S : \A m \in S : n <= m

-----------------------------------------------------------------------------
(* A host starts, loads the registrations, serves and stops.               *)

(* Store.ReserveHarnessNames, one transaction: a name that has a row,      *)
(* active or retired, refuses them all.                                    *)
ReserveHarnessNames(h) ==
    /\ Held[h] \cap Registered = {}
    /\ reserved' = reserved \cup Held[h]

(* The daemon opens the journal and NewHarnessRegistry reserves the host's *)
(* names, or the start fails.                                              *)
Start(h) ==
    /\ phase[h] = "down" /\ starts < MaxStarts
    /\ ReserveHarnessNames(h)
    /\ starts' = starts + 1
    /\ phase' = [phase EXCEPT ![h] = "loading"]
    /\ UNCHANGED <<rows, sess, pending, home, placer, bad, page, after, mu, open, kept, call>>

(* A host whose program serves sessions without reserving its names.       *)
StartBare(h) ==
    /\ h \in Lax /\ phase[h] = "down" /\ starts < MaxStarts
    /\ starts' = starts + 1
    /\ phase' = [phase EXCEPT ![h] = "bare"]
    /\ UNCHANGED <<store, placer, bad, page, after, mu, open, kept, call>>

(* forEachRegistration: the next page of rows, retired ones included.      *)
FetchPage(h) ==
    /\ phase[h] = "loading" /\ page[h] = {} /\ after[h] # None
    /\ LET recs == Smallest({n \in Registered : n > after[h]}, LoadPage) IN
       /\ page' = [page EXCEPT ![h] = recs]
       /\ after' = [after EXCEPT ![h] =
             IF Cardinality(recs) < LoadPage THEN None ELSE Greatest(recs)]
    /\ UNCHANGED <<store, phase, placer, bad, mu, open, kept, starts, call>>

(* load: a row this host cannot build leaves only its own name unservable. *)
(* (Add refuses a name the host holds, and the start then fails and closes *)
(* what it built; Start's reservation keeps such a row from existing.)     *)
Load(h) ==
    /\ phase[h] = "loading" /\ page[h] # {}
    /\ LET n == Least(page[h]) IN
       /\ page' = [page EXCEPT ![h] = @ \ {n}]
       /\ IF ~Servable(h, rows[n].spec)
          THEN MarkUnavailable(h, n) /\ UNCHANGED <<placer, open, kept>>
          ELSE /\ CanAdd(h, n)
               /\ placer' = [placer EXCEPT ![h][n] = rows[n].spec]
               /\ open' = [open EXCEPT ![h][n] = @ + 1]
               /\ kept' = [kept EXCEPT ![h][n] = @ + 1]
               /\ UNCHANGED bad
    /\ UNCHANGED <<store, phase, after, mu, starts, call>>

(* sessionService reserves the names once more, then both servers serve.   *)
Serve(h) ==
    /\ phase[h] = "loading" /\ page[h] = {} /\ after[h] = None
    /\ ReserveHarnessNames(h)
    /\ phase' = [phase EXCEPT ![h] = "up"]
    /\ UNCHANGED <<rows, sess, pending, home, placer, bad, page, after, mu, open, kept, starts, call>>

InFlight(h) == {c \in Calls : req[c] # None /\ req[c].h = h}

(* The process is gone: its tables, and the calls it was serving.          *)
Forget(h) ==
    /\ phase' = [phase EXCEPT ![h] = "down"]
    /\ placer' = [placer EXCEPT ![h] = NewRegistry(h)]
    /\ bad' = [bad EXCEPT ![h] = {}]
    /\ page' = [page EXCEPT ![h] = {}]
    /\ after' = [after EXCEPT ![h] = 0]
    /\ mu' = [mu EXCEPT ![h] = None]
    /\ kept' = [kept EXCEPT ![h] = NoBackends]
    /\ UNCHANGED starts

(* Mutant: the backends are closed by the registry and again by the host.  *)
StopTwice(h) ==
    /\ phase[h] \in {"up", "bare"} /\ InFlight(h) = {}
    /\ Forget(h)
    /\ open' = [open EXCEPT ![h] = [n \in Names |-> @[n] - (2 * kept[h][n])]]
    /\ UNCHANGED <<store, call>>

(* HarnessRegistry.Close calls every release function the registry kept.   *)
CloseRegistry(h) == open' = [open EXCEPT ![h] = [n \in Names |-> @[n] - kept[h][n]]]

(* GracefulStop waits for the handlers before the registry is closed.      *)
Stop(h) ==
    /\ phase[h] \in {"up", "bare"} /\ InFlight(h) = {}
    /\ Forget(h) /\ CloseRegistry(h)
    /\ UNCHANGED <<store, call>>

Crash(h) ==
    /\ phase[h] # "down"
    /\ Forget(h)
    /\ open' = [open EXCEPT ![h] = NoBackends]
    /\ pc' = [c \in Calls |-> IF c \in InFlight(h) THEN "done" ELSE pc[c]]
    /\ req' = [c \in Calls |-> IF c \in InFlight(h) THEN None ELSE req[c]]
    /\ loc' = [c \in Calls |-> IF c \in InFlight(h) THEN NoLocals ELSE loc[c]]
    /\ UNCHANGED store

-----------------------------------------------------------------------------
(* Calls.                                                                  *)

Begin(c) ==
    /\ pc[c] = "idle"
    /\ \E r \in Menu[c] :
       /\ phase[r.h] = "up" \/ (phase[r.h] = "bare" /\ r.op \notin {"Register", "Retire", "List"})
       /\ req' = [req EXCEPT ![c] = r]
       /\ pc' = [pc EXCEPT ![c] = IF r.op \in {"Exec", "Resume", "Suspend", "Fork"} THEN "Route" ELSE r.op]
       /\ loc' = [loc EXCEPT ![c] = [NoLocals EXCEPT !.known = Registered,
             !.owed = IF r.op = "List" THEN Static[r.h] \cup Registered ELSE {}]]
    /\ UNCHANGED <<store, host>>

Goto(c, label) == pc' = [pc EXCEPT ![c] = label] /\ UNCHANGED req

Return(c) ==
    /\ pc' = [pc EXCEPT ![c] = "done"]
    /\ req' = [req EXCEPT ![c] = None]
    /\ loc' = [loc EXCEPT ![c] = NoLocals]

(* An error changes nothing.                                               *)
Refuse(c) == Return(c) /\ UNCHANGED <<store, host>>

(* RegisterHarness, up to its write: under mu, a row with another digest   *)
(* refuses before anything is built, and a name this host does not know    *)
(* gets a Placer first, so that a spec it cannot serve is never stored.    *)
Prepare(c) ==
    LET r == req[c]
        builds == ~Has(r.h, r.name)
        refused == \/ r.name \in Held[r.h]
                   \/ r.name \in Registered /\ rows[r.name].spec # r.spec
                   \/ builds /\ ~Servable(r.h, r.spec)
    IN /\ pc[c] = "Register" /\ mu[r.h] = None
       /\ IF refused THEN Refuse(c)
          ELSE /\ mu' = [mu EXCEPT ![r.h] = c]
               /\ open' = [open EXCEPT ![r.h][r.name] = IF builds THEN @ + 1 ELSE @]
               /\ Goto(c, IF builds THEN "WriteBuilt" ELSE "Write")
               /\ UNCHANGED <<store, phase, placer, bad, page, after, kept, starts, loc>>

(* Mutant: the digest is compared before the transaction only.             *)
AcceptsAnySpec(n, spec) == n \notin reserved

(* Store.RegisterHarness, one transaction: it creates the row, finds it    *)
(* unchanged or reactivates it.                                            *)
Accepts(n, spec) == n \notin reserved /\ (n \in Registered => rows[n].spec = spec)

WriteRow(c) ==
    LET r == req[c]
        built == pc[c] = "WriteBuilt"
        accepted == Accepts(r.name, r.spec)
    IN /\ pc[c] \in {"Write", "WriteBuilt"}
       /\ rows' = IF accepted THEN [rows EXCEPT ![r.name] = [spec |-> r.spec, active |-> TRUE]] ELSE rows
       /\ IF accepted /\ built
          THEN Goto(c, "Publish") /\ UNCHANGED <<open, mu, loc>>
          ELSE /\ open' = [open EXCEPT ![r.h][r.name] = IF built THEN @ - 1 ELSE @]
               /\ mu' = [mu EXCEPT ![r.h] = None]
               /\ Return(c)
       /\ UNCHANGED <<reserved, sess, pending, home, phase, placer, bad, page, after, kept, starts>>

(* registry.Add, then keep.  (Add refuses only a name the host holds or    *)
(* already has, and then the Placer is released.)                          *)
Publish(c) ==
    LET r == req[c] IN
    /\ pc[c] = "Publish"
    /\ IF CanAdd(r.h, r.name)
       THEN /\ placer' = [placer EXCEPT ![r.h][r.name] = r.spec]
            /\ kept' = [kept EXCEPT ![r.h][r.name] = @ + 1]
            /\ UNCHANGED open
       ELSE open' = [open EXCEPT ![r.h][r.name] = @ - 1] /\ UNCHANGED <<placer, kept>>
    /\ mu' = [mu EXCEPT ![r.h] = None]
    /\ Return(c)
    /\ UNCHANGED <<store, phase, bad, page, after, starts>>

(* Store.RetireHarness: the registration stays, for the sessions it has.   *)
RetireRow(n) == rows' = [rows EXCEPT ![n].active = FALSE]

Retire(c) ==
    LET r == req[c] IN
    /\ pc[c] = "Retire"
    /\ IF r.name \in Static[r.h] \/ r.name \notin Registered THEN Refuse(c)
       ELSE /\ RetireRow(r.name)
            /\ Return(c)
            /\ UNCHANGED <<reserved, sess, pending, home, host>>

(* One page of ListHarnesses: static and registered names merged in order  *)
(* from the cursor, one row beyond the page telling whether more follow.   *)
(* owed keeps the names every page so far could have listed.               *)
Listable(all) == {n \in Registered : all \/ rows[n].active}

(* Mutant: the listing asks the store for exactly one page.                *)
RowsOfOnePage(all, from) == Smallest({n \in Listable(all) : n > from}, ListPage)

RowsAfter(all, from) == Smallest({n \in Listable(all) : n > from}, ListPage + 1)

ListHarnesses(c) ==
    LET r == req[c]
        l == loc[c]
        out == Smallest(RowsAfter(r.all, l.after) \cup {n \in Static[r.h] : n > l.after}, ListPage + 1)
        shown == Smallest(out, ListPage)
    IN /\ pc[c] = "List"
       /\ loc' = [loc EXCEPT ![c].after = IF shown = {} THEN @ ELSE Greatest(shown),
                             ![c].got = Append(@, shown),
                             ![c].owed = @ \cap (Static[r.h] \cup Listable(r.all))]
       /\ Goto(c, IF Cardinality(out) > ListPage THEN "List" ELSE "Listed")
       /\ UNCHANGED <<store, host>>

Listed(c) == pc[c] = "Listed" /\ Refuse(c)

(* createSession: the name must be served here, and then, in the insert's  *)
(* transaction, be static with no row or registered and active.            *)
Create(c) ==
    LET r == req[c] IN
    /\ pc[c] = "Create" /\ sess[r.s] = None
    /\ IF r.name # 0 /\ placer[r.h][r.name] = None THEN Refuse(c)
       ELSE Goto(c, "Put") /\ UNCHANGED <<store, host, loc>>

(* Mutant: a row is enough for a new session.                              *)
TakesIfRegistered(n, registered) == IF registered THEN n \in Registered ELSE n \notin Registered

TakesSessions(n, registered) ==
    IF registered THEN n \in Registered /\ rows[n].active ELSE n \notin Registered

PutSession(c) ==
    LET r == req[c]
        n == IF r.name = 0 THEN Default ELSE r.name
        registered == n \notin Static[r.h]
    IN /\ pc[c] = "Put"
       /\ IF ~TakesSessions(n, registered) THEN Refuse(c)
          ELSE /\ sess' = [sess EXCEPT ![r.s] = n]
               /\ home' = [home EXCEPT ![r.s] = IF registered THEN rows[n].spec ELSE Builtin]
               /\ IF r.exec THEN Goto(c, "Route") /\ UNCHANGED loc ELSE Return(c)
               /\ UNCHANGED <<rows, reserved, pending, host>>

-----------------------------------------------------------------------------
(* Routing.                                                                *)

IsRegistered(h, n) == n \notin Static[h] /\ (Has(h, n) \/ n \in Registered)

Collides(h, n) == n \in Static[h] /\ n \in Registered

(* Whether a check refuses: each reads the host's table or the journal.    *)
Refuses(h, st, check) ==
    CASE check.why = "unserved" -> placer[h][check.name] = None
      [] check.why = "collides" -> Collides(h, check.name)
      [] check.why = "pinned"   -> IsRegistered(h, check.name)
      [] check.why = "added"    -> check.name \notin Static[h]
      [] check.why = "memory"   -> Has(h, st) /\ st \in Memory /\ check.name \notin Memory

On(why, n) == [why |-> why, name |-> n]

(* Mutant: no recheck that the override found in the table is static.      *)
ExecRouteUnchecked(st, over) ==
    IF over \in {0, st} THEN <<On("collides", st), On("unserved", st)>>
    ELSE <<On("collides", st), On("pinned", st), On("pinned", over), On("unserved", over),
           On("collides", over), On("memory", over), On("unserved", over)>>

(* Mutant: only an override is checked for a collision.                    *)
ExecRouteTrusting(st, over) ==
    IF over \in {0, st} THEN <<On("unserved", st)>>
    ELSE <<On("pinned", st), On("pinned", over), On("unserved", over),
           On("added", over), On("collides", over), On("memory", over), On("unserved", over)>>

(* resolvePlacer: the checks between the session's harness and a Placer.   *)
ExecRoute(st, over) ==
    IF over \in {0, st} THEN <<On("collides", st), On("unserved", st)>>
    ELSE <<On("collides", st), On("pinned", st), On("pinned", over), On("unserved", over),
           On("added", over), On("collides", over), On("memory", over), On("unserved", over)>>

(* Registry.Resume or Suspend, with checkResumedHarness; Resume also asks  *)
(* checkMemoryOverride.                                                    *)
ResumedRoute(op, st, n) ==
    <<On("unserved", n), On("collides", n)>>
    \o (IF n = st THEN <<>> ELSE <<On("pinned", st), On("pinned", n)>>)
    \o (IF n = st \/ op = "Suspend" THEN <<>> ELSE <<On("memory", n)>>)

Override(r) == CASE r.op = "Exec" -> r.over [] r.op = "Create" -> r.name [] OTHER -> 0

(* The session's row, read under the session guard.  Exec refuses inputs   *)
(* while a gate of the session's own is open, before it routes.            *)
Route(c) ==
    LET r == req[c]
        st == IF sess[r.s] = 0 THEN Default ELSE sess[r.s]
        over == Override(r)
        gated == pending[r.s] # None /\ pending[r.s].gate = "own"
    IN /\ pc[c] = "Route"
       /\ IF sess[r.s] = None \/ (r.op = "Exec" /\ gated) THEN Refuse(c)
          ELSE /\ IF r.op \in {"Resume", "Suspend"}
                  THEN /\ loc' = [loc EXCEPT ![c].stored = st, ![c].pin = home[r.s]]
                       /\ Goto(c, "Resolve")
                  ELSE /\ loc' = [loc EXCEPT ![c].stored = st, ![c].pin = home[r.s],
                                ![c].target = IF over = 0 THEN st ELSE over,
                                ![c].todo = ExecRoute(st, over)]
                       /\ Goto(c, "Checks")
               /\ UNCHANGED <<store, host>>

(* Suspend takes the harness of an unfinished turn only from an open gate; *)
(* Resume takes it from any turn it can resume.                            *)
TakesRecorded(op, p) == p # None /\ (p.gate = "own" \/ (p.gate = "no" /\ op = "Resume"))

(* The harness recorded on the unfinished turn, or else the session's; an  *)
(* inherited gate cannot be resumed.                                       *)
Resolve(c) ==
    LET r == req[c]
        p == pending[r.s]
        n == IF TakesRecorded(r.op, p) THEN p.harness ELSE loc[c].stored
    IN /\ pc[c] = "Resolve"
       /\ IF p # None /\ p.gate = "inherited" /\ r.op = "Resume" THEN Refuse(c)
          ELSE /\ loc' = [loc EXCEPT ![c].target = n, ![c].todo = ResumedRoute(r.op, loc[c].stored, n)]
               /\ Goto(c, "Checks")
               /\ UNCHANGED <<store, host>>

Check(c) ==
    /\ pc[c] = "Checks" /\ loc[c].todo # <<>>
    /\ IF Refuses(req[c].h, loc[c].stored, Head(loc[c].todo)) THEN Refuse(c)
       ELSE loc' = [loc EXCEPT ![c].todo = Tail(@)] /\ UNCHANGED <<store, host, pc, req>>

(* A harness that has to be asked for its tier does not answer.            *)
DescribeFails(c) ==
    /\ pc[c] = "Checks" /\ loc[c].todo # <<>> /\ Head(loc[c].todo).why = "memory"
    /\ Has(req[c].h, loc[c].stored) /\ loc[c].stored \in Memory
    /\ Refuse(c)

(* A call that passed every check drives the session through the Placer of *)
(* its target.                                                             *)
Routed(c) == pc[c] = "Checks" /\ loc[c].todo = <<>>

(* The turn, which ends, is cut off, or parks at a gate.                   *)
RunTurn(c) ==
    /\ Routed(c) /\ req[c].op \in {"Exec", "Create", "Resume"}
    /\ \E p \in {None} \cup [harness : {loc[c].target}, gate : {"no", "own"}] :
           pending' = [pending EXCEPT ![req[c].s] = p]
    /\ Return(c)
    /\ UNCHANGED <<rows, reserved, sess, home, host>>

Suspend(c) == Routed(c) /\ req[c].op = "Suspend" /\ Refuse(c)

(* Service.Fork: the fan-out copies the log, which makes a row with no     *)
(* harness; the child's metadata is written after it.                      *)
ForkCopy(c) ==
    LET r == req[c] IN
    /\ Routed(c) /\ r.op = "Fork" /\ sess[r.child] = None
    /\ sess' = [sess EXCEPT ![r.child] = 0]
    /\ pending' = [pending EXCEPT ![r.child] =
          IF pending[r.s] = None \/ pending[r.s].gate = "no" THEN pending[r.s]
          ELSE [pending[r.s] EXCEPT !.gate = "inherited"]]
    /\ Goto(c, "Metadata")
    /\ UNCHANGED <<rows, reserved, home, host, loc>>

ForkMetadata(c) ==
    LET r == req[c] IN
    /\ pc[c] = "Metadata"
    /\ sess' = [sess EXCEPT ![r.child] = sess[r.s]]
    /\ home' = [home EXCEPT ![r.child] = home[r.s]]
    /\ Return(c)
    /\ UNCHANGED <<rows, reserved, pending, host>>

-----------------------------------------------------------------------------
HostStep(h) ==
    \/ Start(h) \/ StartBare(h) \/ FetchPage(h) \/ Load(h) \/ Serve(h)
    \/ Stop(h) \/ Crash(h)

CallStep(c) ==
    \/ Begin(c)
    \/ Prepare(c) \/ WriteRow(c) \/ Publish(c) \/ Retire(c) \/ ListHarnesses(c) \/ Listed(c)
    \/ Create(c) \/ PutSession(c)
    \/ Route(c) \/ Resolve(c) \/ Check(c) \/ DescribeFails(c)
    \/ RunTurn(c) \/ Suspend(c) \/ ForkCopy(c) \/ ForkMetadata(c)

Next == (\E h \in Hosts : HostStep(h)) \/ (\E c \in Calls : CallStep(c))

Spec == Init /\ [][Next]_vars

-----------------------------------------------------------------------------
(* Every table holds what its column may hold, and every call is at one of *)
(* its steps.                                                              *)
TypeOK ==
    /\ rows \in [Names -> Row \cup {None}] /\ reserved \subseteq Names
    /\ sess \in [Sessions -> Names \cup {0, None}]
    /\ pending \in [Sessions -> Turn \cup {None}]
    /\ home \in [Sessions -> Specs \cup {Builtin, None}]
    /\ phase \in [Hosts -> {"down", "loading", "up", "bare"}]
    /\ placer \in [Hosts -> [Names -> Specs \cup {Builtin, None}]]
    /\ bad \in [Hosts -> SUBSET Names] /\ page \in [Hosts -> SUBSET Names]
    /\ after \in [Hosts -> Names \cup {0, None}]
    /\ mu \in [Hosts -> Calls \cup {None}]
    /\ open \in [Hosts -> [Names -> Nat]] /\ kept \in [Hosts -> [Names -> Nat]]
    /\ starts \in 0..MaxStarts
    /\ pc \in [Calls -> {"idle", "Register", "Write", "WriteBuilt", "Publish", "Retire", "List", "Listed",
                        "Create", "Put", "Route", "Resolve", "Checks", "Metadata", "done"}]

(* One name never means two harnesses in a journal, however its hosts      *)
(* start, register and crash: no reserved name has a row, and a host       *)
(* serves a name that is not static to it only from that name's row, with  *)
(* the spec the row still holds (RegisterHarness and ReserveHarnessNames   *)
(* each check the other's table in their own transaction).                 *)
NamesMeanOneHarness ==
    /\ reserved \cap Registered = {}
    /\ \A h \in Hosts, n \in Names :
          placer[h][n] \notin {Builtin, None} =>
              n \notin Held[h] /\ n \in Registered /\ rows[n].spec = placer[h][n]

(* Once RetireHarness has committed, no session is created on the harness, *)
(* even by a create on another host that had found the harness served      *)
(* before; a fork's child inherits its parent's harness and is no new      *)
(* selection.                                                              *)
RetiredTakesNoSessions ==
    [][\A s \in Sessions :
          /\ sess[s] = None /\ sess'[s] \in Registered
          => rows[sess'[s]].active]_vars

(* An interrupted turn is taken up by a host that serves the session's     *)
(* name itself, not having reserved it, while another registered it.       *)
RecoversCollided(c) ==
    /\ req[c].op \in {"Resume", "Suspend"} /\ loc[c].target # loc[c].stored
    /\ Collides(req[c].h, loc[c].stored)

(* A session stays on its harness.  One created on a registration is       *)
(* driven only through that registration's spec; one created on a static   *)
(* name that is reserved only through static harnesses, whatever is        *)
(* registered between the checks of resolvePlacer or of Resume and         *)
(* whatever harness an interrupted turn was recorded on.  A fork's child   *)
(* counts for the calls that read its row after its metadata was written.  *)
(* The exception is what PendingTurnsAreRefused is about.                  *)
SessionsStayPinned ==
    \A c \in Calls : Routed(c) /\ ~RecoversCollided(c) =>
        LET on == placer[req[c].h][loc[c].target] IN
        /\ loc[c].pin \in Specs => on = loc[c].pin
        /\ loc[c].pin = Builtin /\ loc[c].stored \in reserved => on = Builtin

(* A pending turn recorded on another harness than its session's is not    *)
(* resumed if either name was registered when the call began, as Exec      *)
(* refuses that override (the comment of checkResumedHarness).  The code   *)
(* asks checkStatic about the turn's harness only: a session's own name    *)
(* that is static here and registered elsewhere passes.                    *)
PendingTurnsAreRefused ==
    \A c \in Calls : Routed(c) /\ req[c].op = "Resume" /\ loc[c].target # loc[c].stored =>
        {loc[c].stored, loc[c].target} \cap loc[c].known = {}

(* A host that skipped the reservation fails closed: it routes no session  *)
(* to a static harness whose name had a registration when the call began   *)
(* (checkStatic).                                                          *)
CollidedNamesAreNotServed ==
    \A c \in Calls : Routed(c) /\ loc[c].target \in Static[req[c].h] =>
        loc[c].target \notin loc[c].known

Building(h, n) ==
    {c \in Calls : pc[c] \in {"WriteBuilt", "Publish"} /\ req[c].h = h /\ req[c].name = n}

(* No backend leaks: each one open on a host is kept for Close by the      *)
(* registry, under a name that resolves to it, or belongs to the one       *)
(* registration in progress; a host that stopped has none open.            *)
BackendsAreReleased ==
    \A h \in Hosts, n \in Names :
        /\ open[h][n] = kept[h][n] + Cardinality(Building(h, n))
        /\ kept[h][n] = IF placer[h][n] \in Specs THEN 1 ELSE 0

(* Paging through ListHarnesses neither skips nor repeats a name while     *)
(* other calls register and retire: pages ascend, and at the last one      *)
(* every name that all of them could have listed has been returned.        *)
PagesAreComplete ==
    \A c \in Calls : LET got == loc[c].got IN
        /\ \A i, j \in DOMAIN got : i < j => \A m \in got[i], n \in got[j] : m < n
        /\ pc[c] = "Listed" => loc[c].owed \subseteq UNION {got[i] : i \in DOMAIN got}
=============================================================================
