----------------------------- MODULE SessionLog -----------------------------
(***************************************************************************)
(* Several incarnations of one session (a turn, a resumed turn, a fork, a  *)
(* suspend; of one host or of several) share its log.  Each keeps what it  *)
(* was told, the fence it minted and the head it read, across the steps of *)
(* the others, and hands both to Append.  The host may delete the session  *)
(* at any moment.                                                          *)
(***************************************************************************)
EXTENDS LogOps, Integers

CONSTANTS Writers,      \* incarnations that write the log
          Kinds,        \* kinds of event they append
          Nobody,       \* no writer: the owner of an unowned journal
          MaxFence,     \* bound: fences minted by writers
          MaxRecords    \* bound: records a writer may append

ASSUME WritersAssumption == Nobody \notin Writers
ASSUME KindsAssumption == Kinds \subseteq EventKind
ASSUME BoundsAssumption == MaxFence \in Nat /\ MaxRecords \in Nat

VARIABLES store,    \* the durable state of the session
          writer,   \* what each incarnation remembers of it
          by        \* history: the writer of each record

vars == <<store, writer, by>>

(* An incarnation that has not read the head since it was refused.         *)
NoHead == -1

(* Fences are at least 1: an incarnation that has minted none holds 0.     *)
WriterState == [fence : Nat, head : Nat \union {NoHead}]

Init ==
    /\ store = EmptyStore
    /\ writer = [w \in Writers |-> [fence |-> 0, head |-> NoHead]]
    /\ by = <<>>

-----------------------------------------------------------------------------
(* Log.NewFence: the incarnation takes the session over.  On a deleted     *)
(* session the upsert's WHERE selects no row and nothing changes.          *)
MintFence(w) ==
    /\ CheckWritable(store)
    /\ store.fence < MaxFence
    /\ store' = NewFence(store)
    /\ writer' = [writer EXCEPT ![w].fence = store'.fence]
    /\ UNCHANGED by

(* Log.Head: the answer is stale as soon as another incarnation appends.   *)
ReadHead(w) ==
    /\ writer' = [writer EXCEPT ![w].head = HeadSeq(store)]
    /\ UNCHANGED <<store, by>>

(* Log.Append with the remembered head and fence.  A writer extends the    *)
(* sequence it was given back; one that is refused must read the head      *)
(* again.                                                                  *)
AppendOk(w, kind) ==
    /\ writer[w].head # NoHead
    /\ HeadSeq(store) < MaxRecords
    /\ AppendOutcome(store, writer[w].head, writer[w].fence, kind) = "ok"
    /\ store' = AppendTo(store, writer[w].fence, kind)
    /\ writer' = [writer EXCEPT ![w].head = @ + 1]
    /\ by' = Append(by, w)

AppendRefused(w, kind) ==
    /\ writer[w].head # NoHead
    /\ AppendOutcome(store, writer[w].head, writer[w].fence, kind) # "ok"
    /\ writer' = [writer EXCEPT ![w].head = NoHead]
    /\ UNCHANGED <<store, by>>

(* Store.PutSession: refused, changing nothing, on a deleted session.      *)
Put ==
    /\ CheckWritable(store)
    /\ store' = PutSession(store)
    /\ UNCHANGED <<writer, by>>

(* Store.DeleteSession: a session without a row is not found.  A retry on  *)
(* a PENDING row reads it back and writes nothing.                         *)
Delete ==
    /\ store.deletion = "ACTIVE"
    /\ store' = DeleteSession(store)
    /\ by' = Append(by, Nobody)
    /\ UNCHANGED writer

Next ==
    \/ \E w \in Writers :
        \/ MintFence(w)
        \/ ReadHead(w)
        \/ \E kind \in Kinds : AppendOk(w, kind) \/ AppendRefused(w, kind)
    \/ Put
    \/ Delete

Spec == Init /\ [][Next]_vars

-----------------------------------------------------------------------------
(* Every variable keeps its type.                                          *)
TypeOK ==
    /\ store \in Store
    /\ writer \in [Writers -> WriterState]
    /\ by \in Seq(Writers \union {Nobody})

(* A resumed incarnation supersedes its predecessors for good: along the   *)
(* log the fences of the records never go back, whatever heads and fences  *)
(* the incarnations remembered when they called Append (Append and         *)
(* NewFence in sqlitelog.go).                                              *)
FencesNeverGoBack ==
    \A i, j \in DOMAIN store.recs :
        i <= j => store.recs[i].fence <= store.recs[j].fence

(* A fencing token names one incarnation: no two hold the same, none holds *)
(* one newer than the row's, and after DELETE none holds the row's.  The   *)
(* records under the newest token are those of the incarnation holding it. *)
TokensNameOneWriter ==
    /\ \A w \in Writers : writer[w].fence <= store.fence
    /\ \A w, v \in Writers :
        writer[w].fence = writer[v].fence /\ writer[w].fence > 0 => w = v
    /\ store.deletion = "PENDING" =>
        \A w \in Writers : writer[w].fence < store.fence
    /\ \A i \in DOMAIN store.recs :
        /\ store.recs[i].fence <= store.fence
        /\ /\ store.recs[i].fence = store.fence
           /\ store.fence > 0
           /\ store.deletion # "PENDING"
           => by[i] \in Writers /\ writer[by[i]].fence = store.fence

(* Between two records an incarnation appends under one fence, no other    *)
(* incarnation's record can come: a fenced turn's records are contiguous,  *)
(* although head and fence are read in transactions of their own.          *)
TurnsAreContiguous ==
    \A i, j, k \in DOMAIN store.recs :
        /\ i < k
        /\ k < j
        /\ by[i] = by[j]
        /\ store.recs[i].fence = store.recs[j].fence
        /\ store.recs[i].fence > 0
        => by[k] = by[i]

(* The DELETE record ends the log: it is the last record, it is the only   *)
(* one of its kind, and it is there exactly when the session is deleted.   *)
DeleteEndsTheLog ==
    \A i \in DOMAIN store.recs :
        store.recs[i].kind = "DELETE" <=>
            store.deletion = "PENDING" /\ i = store.deletionSeq /\ i = HeadSeq(store)

(* A deleted session is never written again, by an incarnation that was    *)
(* admitted before the deletion or by a metadata write that races it.      *)
DeletedIsFrozen == [][store.deletion = "PENDING" => UNCHANGED store]_vars

(* The records after which compute is gone, and those that a running       *)
(* incarnation leaves or that say one runs.                                *)
Cools(i) == store.recs[i].kind \in {"SUSPEND", "FORK"}
Warms(i) == store.recs[i].kind \in TurnKinds \union {"RESUME"}

(* The compute_state column says what the whole log says: COLD from a      *)
(* suspend or fork until a record of a running incarnation, LIVE from such *)
(* a record until a suspend or fork, NONE before either.  Approvals, which *)
(* may be recorded while compute is cold, and the other lifecycle records  *)
(* change nothing (eventComputeState and touchSession).                    *)
ProjectionFollowsLog ==
    /\ store.compute = "COLD" <=>
          \E i \in DOMAIN store.recs :
              Cools(i) /\ \A j \in DOMAIN store.recs : j > i => ~Warms(j)
    /\ store.compute = "LIVE" <=>
          \E i \in DOMAIN store.recs :
              Warms(i) /\ \A j \in DOMAIN store.recs : j > i => ~Cools(j)

(* The incarnation that minted the newest fence.                           *)
Owner ==
    IF \E w \in Writers : store.fence > 0 /\ writer[w].fence = store.fence
    THEN CHOOSE w \in Writers : writer[w].fence = store.fence
    ELSE Nobody

Journal == INSTANCE OwnedJournal WITH
    journal <- [i \in DOMAIN store.recs |->
                    [by |-> by[i], kind |-> store.recs[i].kind]],
    owner   <- Owner,
    closed  <- store.deletion = "PENDING"

(* The log of fences, heads and transactions implements the journal with   *)
(* one owner at a time: a record is accepted only from the incarnation     *)
(* that minted last (from anyone while none has), and none after DELETE.   *)
ImplementsOwnedJournal == Journal!JournalSpec
=============================================================================
