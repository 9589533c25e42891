--------------------------- MODULE RuntimesProofs ---------------------------
(* What a fork leaves behind, for any number of children, faults and wakes *)
(* of the parent: NothingIsStranded and ClonesHaveTheirSnapshot.           *)
EXTENDS Runtimes, SequenceTheorems, TLAPS

Providing == {"require", "tag", "requireAgain", "clone", "get", "create",
              "resume", "start", "attach", "copy"}
Stopping == {"suspend", "delete", "untag"}

TypeOK ==
    /\ runtime \in {"MEMORY", "STATELESS", "local", "remote"}
    /\ parent \in [state : {"SUSPENDED", "RUNNING"}, snap : Nat \ {0}]
    /\ actor \in [Kids -> {"none", "SUSPENDED", "RUNNING"}]
    /\ borrows \in [Kids -> BOOLEAN]
    /\ tag \in [Kids -> Nat]
    /\ k \in 1..Len(Children)
    /\ pc \in Providing \cup Stopping \cup {"release", "done"}
    /\ todo \in Seq(Kids)
    /\ result \in {"none", "ok", "error"}
    /\ closed \in BOOLEAN /\ failed \in BOOLEAN
    /\ lost \subseteq Kids

(* Where the fork is in its calls.                                         *)
PhaseInv ==
    /\ pc \in Providing <=> result = "none"
    /\ pc = "release" \/ pc \in Stopping => result = "error"
    /\ pc \in Stopping => todo # <<>>
    /\ pc \in Providing => lost = {} /\ failed = FALSE
    /\ pc = "start" => runtime = "local"
    /\ runtime = "local" => pc \in {"start", "copy", "done"}
    /\ runtime = "remote" => pc \in {"attach", "copy", "done"}

(* The server and the connection of a closed backend.                      *)
ClosedInv ==
    /\ closed => server = "off" /\ conn = "none"
    /\ closed /\ runtime # "remote" => pc = "done"

(* Children the fork has not come to have nothing, and the child at hand   *)
(* has what the calls before pc made.  A local or remote fork makes none.  *)
UntouchedInv ==
    /\ runtime \in {"local", "remote"} => \A c \in Kids : actor[c] = "none" /\ tag[c] = 0
    /\ pc \in Providing => \A i \in DOMAIN Children : i > k => actor[Children[i]] = "none"
    /\ pc \in {"require", "tag", "requireAgain", "clone", "get", "create"} => actor[Child] = "none"
    /\ pc = "release" => actor[Child] = "none" \/ Child \in lost
    /\ pc = "delete" => actor[Head(todo)] = "SUSPENDED"
    /\ pc = "untag" => actor[Head(todo)] = "none"

(* A tag without an actor is that of the child being cloned, or of the one *)
(* being stopped.                                                          *)
TagInv ==
    ~failed => \A c \in Kids :
        tag[c] # 0 /\ (actor[c] = "none" \/ c \in lost) =>
            \/ pc \in {"requireAgain", "clone", "release"} /\ c = Child
            \/ pc = "untag" /\ c = Head(todo)

(* Once a fork fails, every actor there is will be stopped.                *)
StopInv ==
    result = "error" /\ ~failed => \A c \in Kids :
        \/ actor[c] = "none" \/ c \in lost
        \/ pc = "release" /\ c \in Range(Provisioned)
        \/ pc \in Stopping /\ c \in Range(todo)

(* The snapshot a clone borrows.                                           *)
CloneInv ==
    /\ \A c \in Kids : borrows[c] => actor[c] # "none" /\ (c \notin lost => tag[c] = ForkSnapshot)
    /\ pc = "requireAgain" => tag[Child] \in 1..parent.snap
    /\ pc = "clone" => tag[Child] = ForkSnapshot

IInv == TypeOK /\ PhaseInv /\ ClosedInv /\ UntouchedInv /\ TagInv /\ StopInv /\ CloneInv

-----------------------------------------------------------------------------
(* A nonempty sequence has its head and the elements of its tail.          *)
LEMMA RangeTail ==
    ASSUME NEW S, NEW s \in Seq(S), s # <<>>
    PROVE  /\ Head(s) \in S /\ Tail(s) \in Seq(S)
           /\ Range(s) = {Head(s)} \cup Range(Tail(s))
           /\ Len(s) = 1 <=> Tail(s) = <<>>
<1>1. Head(s) \in Range(s) /\ Head(s) \in S /\ Tail(s) \in Seq(S) /\ Len(Tail(s)) = Len(s) - 1
    BY DEF Range
<1>2. Range(Tail(s)) \subseteq Range(s)
    BY DEF Range
<1>3. ASSUME NEW x \in Range(s), x # Head(s) PROVE x \in Range(Tail(s))
  <2>1. PICK i \in 1..Len(s) : x = s[i]
      BY DEF Range
  <2>2. i - 1 \in 1..Len(Tail(s)) /\ Tail(s)[i - 1] = x
      BY <2>1, <1>3
  <2>3. DOMAIN Tail(s) = 1..Len(Tail(s))
      BY <1>1
  <2> QED
      BY <2>2, <2>3, Zenon DEF Range
<1>4. Len(s) = 1 <=> Tail(s) = <<>>
  <2>1. Tail(s) # <<>> => Len(Tail(s)) # 0
      BY <1>1, EmptySeq
  <2>2. Tail(s) = <<>> => Len(Tail(s)) = 0
      BY EmptySeq
  <2> QED
      BY <1>1, <2>1, <2>2, LenProperties
<1> QED
    BY <1>1, <1>2, <1>3, <1>4

(* The children before the one at hand.                                    *)
LEMMA ProvisionedIs ==
    ASSUME k \in 1..Len(Children)
    PROVE  /\ Provisioned \in Seq(Kids)
           /\ Child \in Kids /\ Child \notin Range(Provisioned)
           /\ \A c \in Kids : \/ c \in Range(Provisioned) \/ c = Child
                              \/ \E i \in DOMAIN Children : i > k /\ c = Children[i]
<1>1. Children \in Seq(Kids)
    BY ChildrenAssumption
<1>2. /\ Provisioned \in Seq(Kids) /\ Len(Provisioned) = k - 1
      /\ \A i \in 1..(k - 1) : Provisioned[i] = Children[i]
    BY <1>1 DEF Provisioned
<1>3. Range(Provisioned) = {Children[i] : i \in 1..(k - 1)}
    BY <1>2 DEF Range
<1>4. Child \in Kids /\ \A c \in Kids : \E i \in 1..Len(Children) : c = Children[i]
    BY <1>1 DEF Child, Kids
<1>5. Child \notin Range(Provisioned)
    BY <1>1, <1>3, ChildrenAssumption DEF Child
<1>6. ASSUME NEW c \in Kids
      PROVE  \/ c \in Range(Provisioned) \/ c = Child
             \/ \E i \in DOMAIN Children : i > k /\ c = Children[i]
  <2>1. PICK i \in 1..Len(Children) : c = Children[i]
      BY <1>4
  <2>2. i \in 1..(k - 1) \/ i = k \/ (i > k /\ i \in DOMAIN Children)
      BY <1>1
  <2> QED
      BY <1>3, <2>1, <2>2 DEF Child
<1> QED
    BY <1>2, <1>3, <1>4, <1>5, <1>6

(* The children stopChildren is given: those provisioned and the child at  *)
(* hand.                                                                   *)
LEMMA ToStop ==
    ASSUME k \in 1..Len(Children)
    PROVE  /\ <<Child>> \o Provisioned \in Seq(Kids) /\ <<Child>> \o Provisioned # <<>>
           /\ Append(Provisioned, Child) \in Seq(Kids) /\ Append(Provisioned, Child) # <<>>
           /\ Range(<<Child>> \o Provisioned) = {Child} \cup Range(Provisioned)
           /\ Range(Append(Provisioned, Child)) = {Child} \cup Range(Provisioned)
<1>1. Provisioned \in Seq(Kids) /\ <<Child>> \in Seq(Kids) /\ Child \in Kids
    BY ProvisionedIs
<1>2. Range(<<Child>>) = {Child}
    BY DEF Range
<1>3. Append(Provisioned, Child) = Provisioned \o <<Child>>
    BY <1>1, AppendIsConcat
<1>4. /\ Len(<<Child>> \o Provisioned) = 1 + Len(Provisioned)
      /\ Len(Append(Provisioned, Child)) = 1 + Len(Provisioned)
      /\ Len(Provisioned) \in Nat
    BY <1>1
<1>5. <<Child>> \o Provisioned # <<>> /\ Append(Provisioned, Child) # <<>>
  <2>1. Len(<<>>) = 0
      BY EmptySeq
  <2>2. Len(<<Child>> \o Provisioned) # 0 /\ Len(Append(Provisioned, Child)) # 0
      BY <1>4
  <2> QED
      BY <2>1, <2>2, Zenon
<1>6. <<Child>> \o Provisioned \in Seq(Kids) /\ Append(Provisioned, Child) \in Seq(Kids)
    BY <1>1
<1>7. /\ Range(<<Child>> \o Provisioned) = Range(<<Child>>) \cup Range(Provisioned)
      /\ Range(Provisioned \o <<Child>>) = Range(Provisioned) \cup Range(<<Child>>)
    BY ZenonT(40), <1>1, RangeConcatenation
<1> QED
    BY <1>2, <1>3, <1>5, <1>6, <1>7

-----------------------------------------------------------------------------
(* A fork begins with nothing made.                                        *)
LEMMA InitIInv == Init => IInv
<1> SUFFICES ASSUME Init PROVE IInv
    OBVIOUS
<1>1. Len(Children) \in Nat \ {0} /\ 1 \in 1..Len(Children)
    BY ChildrenAssumption, EmptySeq
<1>2. TypeOK
  <2>1. runtime \in {"MEMORY", "STATELESS", "local", "remote"}
      BY RuntimesAssumption DEF Init
  <2>2. pc \in Providing
      BY <2>1 DEF Init, FirstCall, Providing
  <2>3. todo \in Seq(Kids)
      BY EmptySeq DEF Init
  <2>4. borrows \in [Kids -> BOOLEAN] /\ closed \in BOOLEAN /\ failed \in BOOLEAN
      BY DEF Init
  <2>5. parent \in [state : {"SUSPENDED", "RUNNING"}, snap : Nat \ {0}]
      BY DEF Init, ForkSnapshot
  <2> QED
      BY <1>1, <2>1, <2>2, <2>3, <2>4, <2>5 DEF Init, TypeOK
<1>3. Child \in Kids
    BY <1>1, ChildrenAssumption DEF Init, Child
<1>4. PhaseInv /\ ClosedInv /\ TagInv /\ StopInv
    BY RuntimesAssumption DEF Init, PhaseInv, ClosedInv, TagInv, StopInv, FirstCall, Providing, Stopping
<1>5. UntouchedInv
    BY <1>3, ChildrenAssumption, RuntimesAssumption DEF Init, UntouchedInv, FirstCall, Kids
<1>6. CloneInv
    BY RuntimesAssumption DEF Init, CloneInv, FirstCall
<1> QED
    BY <1>2, <1>4, <1>5, <1>6 DEF IInv

(* What is provisioned depends on nothing but the child at hand.           *)
LEMMA Same == k' = k => Provisioned' = Provisioned /\ Child' = Child
BY DEF Provisioned, Child

(* stopChildren ends the fork at once when there is nothing to stop, and   *)
(* otherwise begins with the first child's suspension.                     *)
LEMMA StopChildrenEffect ==
    ASSUME NEW cs \in Seq(Kids), StopChildren(cs)
    PROVE  /\ k' = k /\ result' = "error"
           /\ \/ /\ pc' = "done" /\ todo' = todo
                 /\ Range(cs) = {} \/ runtime \in {"local", "remote"}
              \/ pc' = "suspend" /\ todo' = cs /\ cs # <<>> /\ runtime \notin {"local", "remote"}
<1>1. cs = <<>> => Range(cs) = {}
    BY DEF Range
<1> QED
    BY <1>1 DEF StopChildren

(* A step that fails the fork: every actor is then in cs, absent or lost.  *)
LEMMA FailsInto ==
    ASSUME IInv, pc \in Providing \cup {"release"}, NEW cs \in Seq(Kids), StopChildren(cs),
           UNCHANGED <<runtime, parent, shared>>,
           actor' \in [Kids -> {"none", "SUSPENDED", "RUNNING"}],
           borrows' \in [Kids -> BOOLEAN], tag' \in [Kids -> Nat],
           lost' = lost, failed' \in BOOLEAN,
           runtime \in {"local", "remote"} => UNCHANGED acts,
           ~failed' =>
               /\ \A c \in Kids : actor'[c] = "none" \/ c \in lost => tag'[c] = 0
               /\ \A c \in Kids : actor'[c] = "none" \/ c \in lost \/ c \in Range(cs),
           \A c \in Kids : borrows'[c] => actor'[c] # "none" /\ (c \notin lost => tag'[c] = ForkSnapshot)
    PROVE  IInv'
<1> USE DEF IInv, shared, acts
<1>1. /\ k' = k /\ result' = "error"
      /\ \/ /\ pc' = "done" /\ todo' = todo
            /\ Range(cs) = {} \/ runtime \in {"local", "remote"}
         \/ pc' = "suspend" /\ todo' = cs /\ cs # <<>> /\ runtime \notin {"local", "remote"}
    BY StopChildrenEffect
<1>3. TypeOK'
    BY <1>1 DEF TypeOK, Stopping
<1>4. PhaseInv'
    BY <1>1 DEF PhaseInv, Providing, Stopping
<1>5. ClosedInv'
    BY <1>1 DEF ClosedInv, PhaseInv, Providing
<1>6. UntouchedInv'
  <2>1. runtime \in {"local", "remote"} => \A c \in Kids : actor'[c] = "none" /\ tag'[c] = 0
      BY DEF UntouchedInv
  <2> QED
      BY <1>1, <2>1 DEF UntouchedInv, Providing
<1>7. TagInv'
    BY <1>1 DEF TagInv
<1>8. StopInv'
    BY <1>1 DEF StopInv, UntouchedInv, Stopping
<1>9. CloneInv'
    BY <1>1 DEF CloneInv
<1> QED
    BY <1>3, <1>4, <1>5, <1>6, <1>7, <1>8, <1>9

(* What is known of the children at a step that leaves k alone.            *)
LEMMA AtHand ==
    ASSUME TypeOK, k' = k
    PROVE  /\ Provisioned' = Provisioned /\ Child' = Child /\ Provisioned \in Seq(Kids)
           /\ Child \in Kids /\ Child \notin Range(Provisioned)
           /\ \A c \in Kids : \/ c \in Range(Provisioned) \/ c = Child
                              \/ \E i \in DOMAIN Children : i > k /\ c = Children[i]
BY ProvisionedIs, Same DEF TypeOK

(* A fork that fails before it made anything for the child at hand.        *)
LEMMA FailsWithoutChild ==
    ASSUME IInv, pc \in {"require", "start"}, StopChildren(Provisioned),
           UNCHANGED <<runtime, parent, acts, shared, lost, failed>>
    PROVE  IInv'
<1> USE DEF IInv, acts, shared
<1>1. k' = k
    BY DEF StopChildren
<1>2. /\ Provisioned \in Seq(Kids)
      /\ \A c \in Kids : \/ c \in Range(Provisioned) \/ c = Child
                         \/ \E i \in DOMAIN Children : i > k /\ c = Children[i]
    BY <1>1, AtHand
<1>3. \A c \in Kids : actor[c] = "none" \/ c \in Range(Provisioned)
    BY <1>2 DEF UntouchedInv, PhaseInv, Providing
<1>4. \A c \in Kids : actor[c] = "none" \/ c \in lost => tag[c] = 0
    BY DEF TagInv, PhaseInv, Providing
<1> QED
    BY <1>2, <1>3, <1>4, FailsInto DEF TypeOK, CloneInv, Providing

(* The fork goes to release a tag, having made at most that tag, or the    *)
(* clone whose creation was not answered.                                  *)
LEMMA Releases ==
    ASSUME IInv, pc \in {"tag", "requireAgain", "clone"}, ReleaseForkTag,
           UNCHANGED <<runtime, parent, shared, failed>>,
           \/ UNCHANGED <<actor, borrows, lost>> /\ (UNCHANGED tag \/ TagActor(Child, FALSE))
           \/ CreateActor(Child, TRUE) /\ lost' = lost \cup {Child}
    PROVE  IInv'
<1> USE DEF IInv, shared, ReleaseForkTag
<1>2. /\ Provisioned' = Provisioned /\ Child' = Child
      /\ Child \in Kids /\ Child \notin Range(Provisioned)
      /\ \A c \in Kids : \/ c \in Range(Provisioned) \/ c = Child
                         \/ \E i \in DOMAIN Children : i > k /\ c = Children[i]
    BY AtHand
<1>3. TypeOK'
  <2>1. borrows' \in [Kids -> BOOLEAN]
      BY <1>2, Zenon DEF TypeOK, CreateActor
  <2>2. tag' \in [Kids -> Nat]
    <3>1. Pending \in Nat
        BY RuntimesAssumption DEF Pending
    <3>2. TagActor(Child, FALSE) => tag' = [tag EXCEPT ![Child] = Pending]
        BY Zenon DEF TagActor
    <3> QED
        BY <1>2, <3>1, <3>2 DEF TypeOK, CreateActor
  <2> QED
      BY <1>2, <2>1, <2>2 DEF TypeOK, CreateActor
<1>4. PhaseInv'
    BY DEF PhaseInv, Providing, Stopping
<1>5. ClosedInv'
    BY DEF ClosedInv, PhaseInv, Providing
<1>6. UntouchedInv'
    BY <1>2 DEF UntouchedInv, PhaseInv, Providing
<1>7. TagInv'
    BY <1>2 DEF TagInv, TypeOK, PhaseInv, Providing, TagActor, CreateActor
<1>8. StopInv'
  <2>1. \A c \in Kids : actor[c] = "none" \/ c \in Range(Provisioned)
      BY <1>2 DEF UntouchedInv, Providing
  <2>2. \A c \in Kids : actor'[c] = actor[c] \/ c \in lost'
      BY <1>2 DEF CreateActor, TypeOK
  <2> QED
      BY <1>2, <2>1, <2>2 DEF StopInv
<1>9. CloneInv'
    BY <1>2 DEF CloneInv, TypeOK, UntouchedInv, TagActor, CreateActor
<1> QED
    BY <1>3, <1>4, <1>5, <1>6, <1>7, <1>8, <1>9

(* requireSnapshot, before and after the tag, keeps the invariant.         *)
LEMMA RequireSnapshotStep == ASSUME IInv, RequireSnapshot PROVE IInv'
<1> USE DEF RequireSnapshot, Rest
<1>1. CASE pc = "require" /\ StopChildren(Provisioned)
    BY <1>1, FailsWithoutChild
<1>2. CASE pc = "requireAgain" /\ ReleaseForkTag
    BY <1>2, Releases DEF acts
<1>3. CASE /\ ActorInfo = [Status |-> "SUSPENDED", Snapshot |-> ForkSnapshot]
           /\ Goto(IF pc = "require" THEN "tag" ELSE "clone")
  <2> USE <1>3 DEF IInv, acts, shared, Goto
  <2>2. Provisioned' = Provisioned /\ Child' = Child /\ Child \in Kids
      BY AtHand
  <2>3. TypeOK'
      BY DEF TypeOK, Providing
  <2>4. PhaseInv'
      BY DEF PhaseInv, Providing, Stopping
  <2>5. ClosedInv'
      BY DEF ClosedInv
  <2>6. UntouchedInv'
      BY <2>2 DEF UntouchedInv, Providing
  <2>7. TagInv'
      BY <2>2 DEF TagInv
  <2>8. StopInv'
      BY DEF StopInv, PhaseInv, Providing
  <2>9. CloneInv'
      BY <2>2 DEF CloneInv, TypeOK, ActorInfo, ForkSnapshot
  <2> QED
      BY <2>3, <2>4, <2>5, <2>6, <2>7, <2>8, <2>9
<1> QED
    BY <1>1, <1>2, <1>3

(* TagSnapshot keeps the invariant.                                        *)
LEMMA TagStep == ASSUME IInv, Tag PROVE IInv'
<1> USE DEF Tag, Rest
<1>1. CASE ReleaseForkTag
  <2>1. UNCHANGED <<actor, borrows>> /\ (UNCHANGED tag \/ TagActor(Child, FALSE))
      BY <1>1 DEF acts, TagActor, Goto, ReleaseForkTag
  <2> QED
      BY <1>1, <2>1, Releases
<1>2. CASE TagActor(Child, TRUE) /\ Goto("requireAgain")
  <2> USE <1>2 DEF IInv, acts, shared, Goto
  <2>1. /\ tag' = [tag EXCEPT ![Child] = parent.snap] /\ UNCHANGED <<actor, borrows>>
        /\ parent.snap \in Nat \ {0}
      BY DEF TagActor, TypeOK
  <2>2. Provisioned' = Provisioned /\ Child' = Child /\ Child \in Kids
      BY AtHand
  <2>3. TypeOK'
      BY <2>1 DEF TypeOK, Providing
  <2>4. PhaseInv'
      BY DEF PhaseInv, Providing, Stopping
  <2>5. ClosedInv'
      BY DEF ClosedInv
  <2>6. UntouchedInv'
      BY <2>1, <2>2 DEF UntouchedInv, PhaseInv, Providing
  <2>7. TagInv'
      BY <2>1, <2>2 DEF TagInv, TypeOK
  <2>8. StopInv'
      BY DEF StopInv, PhaseInv, Providing
  <2>9. CloneInv'
      BY <2>1, <2>2 DEF CloneInv, TypeOK, UntouchedInv
  <2> QED
      BY <2>3, <2>4, <2>5, <2>6, <2>7, <2>8, <2>9
<1> QED
    BY <1>1, <1>2

(* CreateActorFromTag keeps the invariant, its lost answers included.      *)
LEMMA CloneStep == ASSUME IInv, CreateActorFromTag PROVE IInv'
<1> USE DEF CreateActorFromTag, Rest
<1>1. CASE ReleaseForkTag
  <2>1. \/ UNCHANGED <<actor, borrows, lost>> /\ UNCHANGED tag
        \/ CreateActor(Child, TRUE) /\ lost' = lost \cup {Child}
      BY <1>1 DEF acts, Goto, ReleaseForkTag
  <2> QED
      BY <1>1, <2>1, Releases
<1>2. CASE CreateActor(Child, TRUE) /\ Goto("resume") /\ UNCHANGED <<faults, lost>>
  <2> USE <1>2 DEF IInv, acts, shared, Goto, CreateActor
  <2>2. Provisioned' = Provisioned /\ Child' = Child /\ Child \in Kids
      BY AtHand
  <2>3. TypeOK'
    <3>1. borrows' \in [Kids -> BOOLEAN]
        BY <2>2, Zenon DEF TypeOK
    <3> QED
        BY <2>2, <3>1 DEF TypeOK, Providing
  <2>4. PhaseInv'
      BY DEF PhaseInv, Providing, Stopping
  <2>5. ClosedInv'
      BY DEF ClosedInv
  <2>6. UntouchedInv'
    <3>1. \A i \in DOMAIN Children : i > k => Children[i] # Child /\ Children[i] \in Kids
        BY ChildrenAssumption DEF Child, TypeOK
    <3> QED
        BY <2>2, <3>1 DEF UntouchedInv, TypeOK, PhaseInv, Providing
  <2>7. TagInv'
      BY <2>2 DEF TagInv, TypeOK, PhaseInv, Providing
  <2>8. StopInv'
      BY DEF StopInv, PhaseInv, Providing
  <2>9. CloneInv'
      BY <2>2 DEF CloneInv, TypeOK
  <2> QED
      BY <2>3, <2>4, <2>5, <2>6, <2>7, <2>8, <2>9
<1> QED
    BY <1>1, <1>2

(* A stateless or cloned child that fails is torn down with the others.    *)
LEMMA Destroys ==
    ASSUME IInv, pc \in {"get", "create", "resume"}, DestroyChild,
           UNCHANGED <<runtime, parent, shared, lost, failed>>,
           \/ UNCHANGED acts
           \/ pc = "create" /\ CreateActor(Child, FALSE)
           \/ pc = "resume" /\ ResumeActor(Child)
    PROVE  IInv'
<1> USE DEF IInv, acts
<1>1. k' = k /\ StopChildren(<<Child>> \o Provisioned)
    BY DEF DestroyChild, StopChildren
<1>2. /\ Child \in Kids
      /\ \A c \in Kids : \/ c \in Range(Provisioned) \/ c = Child
                         \/ \E i \in DOMAIN Children : i > k /\ c = Children[i]
    BY <1>1, AtHand
<1>3. /\ <<Child>> \o Provisioned \in Seq(Kids)
      /\ Range(<<Child>> \o Provisioned) = {Child} \cup Range(Provisioned)
    BY ToStop DEF TypeOK
<1>4. /\ actor' \in [Kids -> {"none", "SUSPENDED", "RUNNING"}]
      /\ \A c \in Kids : c # Child => actor'[c] = actor[c]
      /\ \A c \in Kids : actor'[c] = "none" => actor[c] = "none"
      /\ tag' = tag
    BY <1>2 DEF TypeOK, CreateActor, ResumeActor
<1>5. /\ borrows' \in [Kids -> BOOLEAN]
      /\ \A c \in Kids : borrows'[c] => borrows[c]
  <2>1. CASE borrows' = borrows
      BY <2>1 DEF TypeOK
  <2>2. CASE borrows' = [borrows EXCEPT ![Child] = FALSE]
      BY <1>2, <2>2, Zenon DEF TypeOK
  <2> QED
      BY <2>1, <2>2 DEF CreateActor, ResumeActor
<1>6. \A c \in Kids : actor'[c] = "none" \/ c \in Range(<<Child>> \o Provisioned)
    BY <1>2, <1>3, <1>4 DEF UntouchedInv, PhaseInv, Providing
<1>7. \A c \in Kids : actor'[c] = "none" \/ c \in lost => tag'[c] = 0
    BY <1>4 DEF TagInv, PhaseInv, Providing
<1>8. runtime \notin {"local", "remote"}
    BY DEF PhaseInv
<1> QED
    BY <1>1, <1>3, <1>4, <1>5, <1>6, <1>7, <1>8, FailsInto DEF TypeOK, CloneInv, Providing

(* The lookup of a stateless child's actor keeps the invariant.            *)
LEMMA GetActorStep == ASSUME IInv, GetActor PROVE IInv'
<1> USE DEF GetActor, Rest
<1>1. CASE DestroyChild
    BY <1>1, Destroys
<1>2. CASE Goto("create")
  <2> USE <1>2 DEF IInv, acts, shared, Goto
  <2>2. Child' = Child
      BY Same
  <2>3. TypeOK'
      BY DEF TypeOK, Providing
  <2>4. PhaseInv'
      BY DEF PhaseInv, Providing, Stopping
  <2>5. ClosedInv' /\ StopInv'
      BY DEF ClosedInv, StopInv, PhaseInv, Providing
  <2>6. UntouchedInv'
      BY <2>2 DEF UntouchedInv, Providing
  <2>7. TagInv' /\ CloneInv'
      BY <2>2 DEF TagInv, CloneInv
  <2> QED
      BY <2>3, <2>4, <2>5, <2>6, <2>7
<1> QED
    BY <1>1, <1>2

(* The children still to come are not the child at hand.                   *)
LEMMA ProvisionedNext ==
    ASSUME TypeOK
    PROVE  \A i \in DOMAIN Children : i > k => Children[i] # Child /\ Children[i] \in Kids
BY ChildrenAssumption DEF Child, TypeOK

(* CreateActor of a stateless child keeps the invariant.                   *)
LEMMA CreateStep == ASSUME IInv, Create PROVE IInv'
<1> USE DEF Create, Rest
<1>1. CASE DestroyChild
  <2>1. UNCHANGED acts \/ CreateActor(Child, FALSE)
      BY <1>1 DEF Goto, DestroyChild, StopChildren
  <2> QED
      BY <1>1, <2>1, Destroys
<1>2. CASE CreateActor(Child, FALSE) /\ Goto("resume")
  <2> USE <1>2 DEF IInv, shared, Goto, CreateActor
  <2>2. Provisioned' = Provisioned /\ Child' = Child /\ Child \in Kids
      BY AtHand
  <2>3. TypeOK'
    <3>1. borrows' \in [Kids -> BOOLEAN]
        BY <2>2, Zenon DEF TypeOK
    <3> QED
        BY <2>2, <3>1 DEF TypeOK, Providing
  <2>4. PhaseInv'
      BY DEF PhaseInv, Providing, Stopping
  <2>5. ClosedInv' /\ StopInv'
      BY DEF ClosedInv, StopInv, PhaseInv, Providing
  <2>6. UntouchedInv'
      BY <2>2, ProvisionedNext DEF UntouchedInv, TypeOK, PhaseInv, Providing
  <2>7. TagInv'
      BY <2>2 DEF TagInv, TypeOK, PhaseInv, Providing
  <2>8. CloneInv'
      BY <2>2 DEF CloneInv, TypeOK
  <2> QED
      BY <2>3, <2>4, <2>5, <2>6, <2>7, <2>8
<1> QED
    BY <1>1, <1>2

(* ResumeActor of a child keeps the invariant.                             *)
LEMMA ResumeStep == ASSUME IInv, Resume PROVE IInv'
<1> USE DEF Resume, Rest
<1>1. CASE DestroyChild
  <2>1. UNCHANGED acts \/ ResumeActor(Child)
      BY <1>1 DEF Goto, DestroyChild, StopChildren
  <2> QED
      BY <1>1, <2>1, Destroys
<1>2. CASE ResumeActor(Child) /\ Goto("copy")
  <2> USE <1>2 DEF IInv, shared, Goto, ResumeActor
  <2>2. Provisioned' = Provisioned /\ Child' = Child /\ Child \in Kids
      BY AtHand
  <2>3. TypeOK'
      BY <2>2 DEF TypeOK, Providing
  <2>4. PhaseInv'
      BY DEF PhaseInv, Providing, Stopping
  <2>5. ClosedInv' /\ StopInv'
      BY DEF ClosedInv, StopInv, PhaseInv, Providing
  <2>6. UntouchedInv'
      BY <2>2, ProvisionedNext DEF UntouchedInv, TypeOK, PhaseInv, Providing
  <2>7. TagInv'
      BY <2>2 DEF TagInv, TypeOK, PhaseInv, Providing
  <2>8. CloneInv'
      BY <2>2 DEF CloneInv, TypeOK
  <2> QED
      BY <2>3, <2>4, <2>5, <2>6, <2>7, <2>8
<1> QED
    BY <1>1, <1>2

(* The local runtime's Fork keeps the invariant.                           *)
LEMMA LocalForkStep == ASSUME IInv, LocalFork PROVE IInv'
<1> USE DEF LocalFork, StartServer
<1>1. CASE StopChildren(Provisioned) /\ UNCHANGED server
    BY <1>1, FailsWithoutChild DEF shared
<1>2. CASE server' = "up" /\ Goto("copy")
  <2> USE <1>2 DEF IInv, acts, Goto
  <2>2. Child' = Child
      BY Same
  <2>3. TypeOK'
      BY DEF TypeOK, Providing
  <2>4. PhaseInv'
      BY DEF PhaseInv, Providing, Stopping
  <2>5. ClosedInv' /\ StopInv'
      BY DEF ClosedInv, StopInv, PhaseInv, Providing
  <2>6. UntouchedInv'
      BY <2>2 DEF UntouchedInv, Providing
  <2>7. TagInv' /\ CloneInv'
      BY <2>2 DEF TagInv, CloneInv
  <2> QED
      BY <2>3, <2>4, <2>5, <2>6, <2>7
<1> QED
    BY <1>1, <1>2

(* The remote runtime's Fork keeps the invariant.                          *)
LEMMA RemoteForkStep == ASSUME IInv, RemoteFork PROVE IInv'
<1> USE DEF RemoteFork, Rest, IInv, acts, shared, Goto
<1>2. Child' = Child
    BY Same
<1>3. TypeOK'
    BY DEF TypeOK, Providing
<1>4. PhaseInv'
    BY DEF PhaseInv, Providing, Stopping
<1>5. ClosedInv' /\ StopInv'
    BY DEF ClosedInv, StopInv, PhaseInv, Providing
<1>6. UntouchedInv'
    BY <1>2 DEF UntouchedInv, Providing
<1>7. TagInv' /\ CloneInv'
    BY <1>2 DEF TagInv, CloneInv
<1> QED
    BY <1>3, <1>4, <1>5, <1>6, <1>7

(* The copy of the parent's log, and its failure, keep the invariant.      *)
LEMMA CopyLogStep == ASSUME IInv, CopyLog PROVE IInv'
<1> USE DEF CopyLog, Rest
<1>1. CASE StopChildren(Append(Provisioned, Child))
  <2> USE <1>1 DEF IInv, acts
  <2>1. k' = k /\ UNCHANGED <<actor, borrows, tag>>
      BY DEF StopChildren
  <2>2. \A c \in Kids : \/ c \in Range(Provisioned) \/ c = Child
                        \/ \E i \in DOMAIN Children : i > k /\ c = Children[i]
      BY <2>1, AtHand
  <2>3. /\ Append(Provisioned, Child) \in Seq(Kids)
        /\ Range(Append(Provisioned, Child)) = {Child} \cup Range(Provisioned)
      BY ToStop DEF TypeOK
  <2>4. \A c \in Kids : actor[c] = "none" \/ c \in Range(Append(Provisioned, Child))
      BY <2>2, <2>3 DEF UntouchedInv, Providing
  <2>5. \A c \in Kids : actor[c] = "none" \/ c \in lost => tag[c] = 0
      BY DEF TagInv, PhaseInv, Providing
  <2> QED
      BY <2>1, <2>3, <2>4, <2>5, FailsInto DEF TypeOK, CloneInv, Providing
<1>2. CASE k = Len(Children) /\ pc' = "done" /\ result' = "ok" /\ UNCHANGED <<k, todo>>
  <2> USE <1>2 DEF IInv, acts, shared
  <2>1. Child' = Child
      BY Same
  <2>2. TypeOK'
      BY DEF TypeOK
  <2>3. PhaseInv' /\ ClosedInv' /\ StopInv'
      BY DEF PhaseInv, ClosedInv, StopInv, Providing, Stopping
  <2>4. UntouchedInv' /\ TagInv' /\ CloneInv'
      BY <2>1 DEF UntouchedInv, TagInv, CloneInv, Providing
  <2> QED
      BY <2>2, <2>3, <2>4
<1>3. CASE k # Len(Children) /\ k' = k + 1 /\ pc' = FirstCall(runtime) /\ UNCHANGED <<todo, result>>
  <2> USE <1>3 DEF IInv, acts, shared
  <2>1. /\ k' \in 1..Len(Children) /\ k' > k
        /\ pc' \in {"require", "get", "start", "attach"}
        /\ runtime = "local" <=> pc' = "start"
        /\ runtime = "remote" <=> pc' = "attach"
    <3>1. Len(Children) \in Nat
        BY ChildrenAssumption
    <3> QED
        BY <3>1 DEF TypeOK, FirstCall
  <2>2. k' \in DOMAIN Children /\ Child' = Children[k']
      BY <2>1, ChildrenAssumption DEF Child
  <2>3. TypeOK'
      BY <2>1 DEF TypeOK, Providing
  <2>4. PhaseInv' /\ StopInv'
      BY <2>1 DEF PhaseInv, StopInv, Providing, Stopping
  <2>5. ClosedInv'
      BY DEF ClosedInv
  <2>6. UntouchedInv'
    <3>1. \A i \in DOMAIN Children : i > k' => i > k
        BY <2>1, ChildrenAssumption DEF TypeOK
    <3>2. actor[Child'] = "none"
        BY <2>1, <2>2 DEF UntouchedInv, Providing
    <3> QED
        BY <2>1, <3>1, <3>2 DEF UntouchedInv, Providing
  <2>7. TagInv' /\ CloneInv'
      BY <2>1 DEF TagInv, CloneInv
  <2> QED
      BY <2>3, <2>4, <2>5, <2>6, <2>7
<1> QED
    BY <1>1, <1>2, <1>3

-----------------------------------------------------------------------------
(* Teardown.                                                               *)

(* The release of a tag whose actor was not made keeps the invariant.      *)
LEMMA ReleaseTagStep == ASSUME IInv, ReleaseTag PROVE IInv'
<1> USE DEF ReleaseTag, Rest, IInv, acts
<1>1. /\ StopChildren(Provisioned) /\ UNCHANGED <<actor, borrows>>
      /\ \/ tag' = [tag EXCEPT ![Child] = 0] /\ UNCHANGED failed
         \/ failed' = TRUE /\ (tag' = tag \/ tag' = [tag EXCEPT ![Child] = 0])
    BY DEF Teardown, CleanupContext, DeleteTag
<1>2. Provisioned \in Seq(Kids) /\ Child \in Kids
    BY <1>1, AtHand DEF StopChildren
<1>3. tag' \in [Kids -> Nat] /\ failed' \in BOOLEAN
  <2>1. tag' \in [Kids -> Nat]
      BY <1>1, <1>2 DEF TypeOK
  <2>2. failed' \in BOOLEAN
      BY <1>1, Zenon DEF TypeOK
  <2> QED
      BY <2>1, <2>2
<1>4. ~failed' => /\ \A c \in Kids : actor[c] = "none" \/ c \in lost => tag'[c] = 0
                  /\ \A c \in Kids : actor[c] = "none" \/ c \in lost \/ c \in Range(Provisioned)
  <2> SUFFICES ASSUME ~failed', NEW c \in Kids
               PROVE  /\ actor[c] = "none" \/ c \in lost => tag'[c] = 0
                      /\ actor[c] = "none" \/ c \in lost \/ c \in Range(Provisioned)
      OBVIOUS
  <2>1. ~failed /\ tag' = [tag EXCEPT ![Child] = 0]
      BY <1>1
  <2>2. c # Child => tag'[c] = tag[c]
      BY <2>1 DEF TypeOK
  <2>3. tag'[Child] = 0
      BY <1>2, <2>1 DEF TypeOK
  <2> QED
      BY <2>1, <2>2, <2>3 DEF TagInv, StopInv, PhaseInv, Stopping
<1>5. \A c \in Kids : borrows[c] => actor[c] # "none" /\ (c \notin lost => tag'[c] = ForkSnapshot)
    BY <1>1, <1>2 DEF TypeOK, CloneInv, UntouchedInv
<1>6. runtime \notin {"local", "remote"}
    BY DEF PhaseInv
<1> QED
    BY <1>1, <1>2, <1>3, <1>4, <1>5, <1>6, FailsInto DEF TypeOK

(* A stop of the first child ends, and the next one begins.                *)
LEMMA StopsNext ==
    ASSUME IInv, pc \in Stopping, Stopped,
           UNCHANGED <<runtime, parent, shared, lost>>,
           actor' \in [Kids -> {"none", "SUSPENDED", "RUNNING"}],
           borrows' \in [Kids -> BOOLEAN], tag' \in [Kids -> Nat], failed' \in BOOLEAN,
           ~failed' =>
               /\ ~failed
               /\ \A c \in Kids : actor'[c] = "none" \/ c \in lost => tag'[c] = 0
               /\ \A c \in Kids : actor'[c] # "none" => actor[c] # "none"
               /\ actor'[Head(todo)] = "none" \/ Head(todo) \in lost,
           \A c \in Kids : borrows'[c] => actor'[c] # "none" /\ (c \notin lost => tag'[c] = ForkSnapshot)
    PROVE  IInv'
<1> USE DEF IInv, shared, Stopped
<1>1. todo \in Seq(Kids) /\ todo # <<>>
    BY DEF TypeOK, PhaseInv
<1>2. /\ Head(todo) \in Kids /\ Tail(todo) \in Seq(Kids)
      /\ Range(todo) = {Head(todo)} \cup Range(Tail(todo))
      /\ Len(todo) = 1 <=> Tail(todo) = <<>>
    BY <1>1, RangeTail
<1>3. Tail(todo) = <<>> => Range(Tail(todo)) = {}
    BY DEF Range
<1>4. TypeOK'
    BY <1>2 DEF TypeOK, Stopping
<1>5. PhaseInv'
    BY <1>2 DEF PhaseInv, Providing, Stopping
<1>6. ClosedInv'
    BY DEF ClosedInv, PhaseInv, Stopping
<1>7. UntouchedInv'
    BY DEF UntouchedInv, PhaseInv, Providing, Stopping
<1>8. TagInv'
    BY DEF TagInv
<1>9. StopInv'
    BY <1>2, <1>3 DEF StopInv, PhaseInv, Stopping
<1>10. CloneInv'
    BY DEF CloneInv
<1> QED
    BY <1>4, <1>5, <1>6, <1>7, <1>8, <1>9, <1>10

(* The suspension of a child that is being stopped keeps the invariant.    *)
LEMMA StopSuspendStep == ASSUME IInv, StopSuspend PROVE IInv'
<1> USE DEF StopSuspend, Rest, IInv, acts
<1> DEFINE c == Head(todo)
<1>0. c \in Kids
    BY RangeTail DEF TypeOK, PhaseInv, Stopping
<1>1. \/ /\ actor[c] # "none" /\ SuspendActor(c) /\ Goto("delete") /\ UNCHANGED failed
      \/ /\ actor[c] = "none" /\ UNCHANGED <<acts, failed>> /\ Stopped
      \/ failed' = TRUE /\ Stopped /\ (UNCHANGED acts \/ (actor[c] # "none" /\ SuspendActor(c)))
    BY DEF Teardown, CleanupContext, StopNext, StopOrder
<1>2. SuspendActor(c) => /\ actor' = [actor EXCEPT ![c] = "SUSPENDED"]
                         /\ borrows' \in [Kids -> BOOLEAN]
                         /\ \A d \in Kids : borrows'[d] => borrows[d]
                         /\ tag' = tag
  <2> SUFFICES ASSUME SuspendActor(c)
               PROVE  borrows' \in [Kids -> BOOLEAN] /\ \A d \in Kids : borrows'[d] => borrows[d]
      BY DEF SuspendActor
  <2> DEFINE b == borrows[c] /\ actor[c] # "RUNNING"
  <2>1. borrows' = [borrows EXCEPT ![c] = b] /\ b \in BOOLEAN /\ (b => borrows[c])
      BY <1>0, Zenon DEF SuspendActor, TypeOK
  <2> HIDE DEF b
  <2> QED
      BY <1>0, <2>1, Zenon DEF TypeOK
<1>3. CASE Stopped
  <2>1. /\ actor' \in [Kids -> {"none", "SUSPENDED", "RUNNING"}]
        /\ borrows' \in [Kids -> BOOLEAN] /\ tag' = tag /\ tag' \in [Kids -> Nat]
        /\ \A d \in Kids : actor'[d] = "none" <=> actor[d] = "none"
        /\ \A d \in Kids : borrows'[d] => borrows[d]
      BY <1>0, <1>1, <1>2, <1>3 DEF TypeOK, Goto, Stopped
  <2>2. failed' \in BOOLEAN
      BY <1>1, Zenon DEF TypeOK
  <2>3. ~failed' => ~failed /\ actor[c] = "none"
      BY <1>1, <1>3 DEF Goto, Stopped
  <2>4. ~failed => \A d \in Kids : actor[d] = "none" \/ d \in lost => tag[d] = 0
      BY DEF TagInv
  <2>5. \A d \in Kids : borrows'[d] => actor'[d] # "none" /\ (d \notin lost => tag'[d] = ForkSnapshot)
      BY <2>1 DEF CloneInv
  <2> QED
      BY <1>0, <1>3, <2>1, <2>2, <2>3, <2>4, <2>5, StopsNext DEF Stopping
<1>4. CASE /\ actor[c] # "none" /\ SuspendActor(c) /\ Goto("delete") /\ UNCHANGED failed
  <2> USE <1>4 DEF Goto, shared
  <2>1. /\ actor' = [actor EXCEPT ![c] = "SUSPENDED"] /\ tag' = tag
        /\ borrows' \in [Kids -> BOOLEAN] /\ \A d \in Kids : borrows'[d] => borrows[d]
      BY <1>2
  <2>2. TypeOK'
      BY <1>0, <2>1 DEF TypeOK, Stopping
  <2>3. PhaseInv' /\ ClosedInv'
      BY DEF PhaseInv, ClosedInv, Providing, Stopping
  <2>4. UntouchedInv'
      BY <1>0, <2>1 DEF UntouchedInv, TypeOK, PhaseInv, Providing
  <2>5. TagInv'
      BY <1>0, <2>1 DEF TagInv, TypeOK
  <2>6. StopInv'
      BY <1>0, <2>1 DEF StopInv, TypeOK, Stopping
  <2>7. CloneInv'
      BY <1>0, <2>1 DEF CloneInv, TypeOK
  <2> QED
      BY <2>2, <2>3, <2>4, <2>5, <2>6, <2>7
<1> QED
    BY <1>1, <1>3, <1>4

(* The deletion of a child that is being stopped keeps the invariant.      *)
LEMMA StopDeleteStep == ASSUME IInv, StopDelete PROVE IInv'
<1> USE DEF StopDelete, Rest, IInv, acts
<1> DEFINE c == Head(todo)
<1>0. c \in Kids /\ actor[c] = "SUSPENDED"
    BY RangeTail DEF TypeOK, PhaseInv, UntouchedInv, Stopping
<1>1. \/ DeleteActor(c) /\ Goto("untag") /\ UNCHANGED failed
      \/ failed' = TRUE /\ Stopped /\ (UNCHANGED acts \/ DeleteActor(c))
    BY <1>0 DEF Teardown, CleanupContext, StopNext, StopOrder
<1>2. DeleteActor(c) => /\ actor' = [actor EXCEPT ![c] = "none"]
                        /\ borrows' \in [Kids -> BOOLEAN] /\ ~borrows'[c]
                        /\ \A d \in Kids : borrows'[d] => borrows[d]
                        /\ tag' = tag
    BY <1>0, Zenon DEF DeleteActor, TypeOK
<1>3. CASE failed' = TRUE /\ Stopped /\ (UNCHANGED acts \/ DeleteActor(c))
  <2>1. /\ actor' \in [Kids -> {"none", "SUSPENDED", "RUNNING"}]
        /\ borrows' \in [Kids -> BOOLEAN] /\ tag' = tag /\ tag' \in [Kids -> Nat]
      BY <1>0, <1>2, <1>3 DEF TypeOK
  <2>2. \A d \in Kids : borrows'[d] => borrows[d] /\ (actor'[d] # actor[d] => d = c /\ ~borrows'[c])
      BY <1>0, <1>2, <1>3 DEF TypeOK
  <2>3. \A d \in Kids : borrows'[d] => actor'[d] # "none" /\ (d \notin lost => tag'[d] = ForkSnapshot)
      BY <2>1, <2>2 DEF CloneInv
  <2> QED
      BY <1>3, <2>1, <2>3, StopsNext DEF Stopping
<1>4. CASE DeleteActor(c) /\ Goto("untag") /\ UNCHANGED failed
  <2> USE <1>4 DEF Goto, shared
  <2>1. /\ actor' = [actor EXCEPT ![c] = "none"] /\ tag' = tag
        /\ borrows' \in [Kids -> BOOLEAN] /\ ~borrows'[c] /\ \A d \in Kids : borrows'[d] => borrows[d]
      BY <1>2
  <2>2. TypeOK'
      BY <1>0, <2>1 DEF TypeOK, Stopping
  <2>3. PhaseInv' /\ ClosedInv'
      BY DEF PhaseInv, ClosedInv, Providing, Stopping
  <2>4. UntouchedInv'
      BY <1>0, <2>1 DEF UntouchedInv, TypeOK, PhaseInv, Providing
  <2>5. TagInv'
      BY <1>0, <2>1 DEF TagInv, TypeOK
  <2>6. StopInv'
      BY <1>0, <2>1 DEF StopInv, TypeOK, Stopping
  <2>7. CloneInv'
      BY <1>0, <2>1 DEF CloneInv, TypeOK
  <2> QED
      BY <2>2, <2>3, <2>4, <2>5, <2>6, <2>7
<1> QED
    BY <1>1, <1>3, <1>4

(* The release of a stopped child's tag keeps the invariant.               *)
LEMMA StopUntagStep == ASSUME IInv, StopUntag PROVE IInv'
<1> USE DEF StopUntag, Rest, IInv, acts
<1> DEFINE c == Head(todo)
<1>0. c \in Kids /\ actor[c] = "none"
    BY RangeTail DEF TypeOK, PhaseInv, UntouchedInv, Stopping
<1>1. /\ Stopped /\ UNCHANGED <<actor, borrows>>
      /\ \/ tag' = [tag EXCEPT ![c] = 0] /\ UNCHANGED failed
         \/ failed' = TRUE /\ (tag' = tag \/ tag' = [tag EXCEPT ![c] = 0])
    BY DEF Teardown, CleanupContext, StopNext, StopOrder, DeleteTag
<1>2. tag' \in [Kids -> Nat]
    BY <1>0, <1>1 DEF TypeOK
<1>3. failed' \in BOOLEAN
    BY <1>1, Zenon DEF TypeOK
<1>4. ~failed' => ~failed /\ \A d \in Kids : actor[d] = "none" \/ d \in lost => tag'[d] = 0
  <2> SUFFICES ASSUME ~failed', NEW d \in Kids, actor[d] = "none" \/ d \in lost
               PROVE  ~failed /\ tag'[d] = 0
      BY <1>1
  <2>1. ~failed /\ tag' = [tag EXCEPT ![c] = 0]
      BY <1>1
  <2> QED
      BY <1>0, <2>1 DEF TypeOK, TagInv
<1>5. \A d \in Kids : borrows[d] => actor[d] # "none" /\ (d \notin lost => tag'[d] = ForkSnapshot)
    BY <1>0, <1>1 DEF TypeOK, CloneInv
<1> QED
    BY <1>0, <1>1, <1>2, <1>3, <1>4, <1>5, StopsNext DEF TypeOK, Stopping

-----------------------------------------------------------------------------
(* Steps around the fork.                                                  *)

(* What happens beside a fork keeps the invariant.                         *)
LEMMA AroundStep ==
    ASSUME IInv, ContextEnds \/ ParentMoves \/ Describe \/ CloseBackend
    PROVE  IInv'
<1> USE DEF IInv, Quiet, acts, shared, ContextEnds, ParentMoves, Describe, CloseBackend
<1>1. UNCHANGED <<runtime, k, pc, todo, result, actor, borrows, tag, lost, failed>>
    OBVIOUS
<1>2. Child' = Child /\ Provisioned' = Provisioned
    BY <1>1, Same
<1>3. parent' \in [state : {"SUSPENDED", "RUNNING"}, snap : Nat \ {0}] /\ parent'.snap >= parent.snap
  <2>1. parent \in [state : {"SUSPENDED", "RUNNING"}, snap : Nat \ {0}]
      BY DEF TypeOK
  <2> QED
      BY <2>1
<1>4. closed' \in BOOLEAN
    BY Zenon DEF TypeOK
<1>5. TypeOK'
    BY <1>1, <1>3, <1>4 DEF TypeOK
<1>6. PhaseInv'
    BY <1>1 DEF PhaseInv
<1>7. ClosedInv'
    BY <1>1 DEF ClosedInv, Connectable
<1>8. UntouchedInv' /\ TagInv' /\ StopInv'
    BY <1>1, <1>2 DEF UntouchedInv, TagInv, StopInv
<1>9. CloneInv'
    BY <1>1, <1>2, <1>3 DEF CloneInv, TypeOK
<1> QED
    BY <1>5, <1>6, <1>7, <1>8, <1>9

(* What a child does after its fork keeps the invariant.                   *)
LEMMA ChildLivesStep ==
    ASSUME IInv, NEW c \in Kids, ChildLives(c)
    PROVE  IInv'
<1> USE DEF IInv, ChildLives, shared, acts
<1>1. pc = "done" /\ UNCHANGED <<runtime, parent, k, pc, todo, result, lost, failed>>
  <2>1. result = "ok"
      OBVIOUS
  <2> QED
      BY <2>1 DEF PhaseInv, TypeOK, Stopping
<1>2. CASE LocalRestore
  <2>1. TypeOK' /\ PhaseInv' /\ ClosedInv'
      BY <1>1, <1>2 DEF LocalRestore, TypeOK, PhaseInv, ClosedInv
  <2>2. UntouchedInv' /\ TagInv' /\ StopInv' /\ CloneInv'
      BY <1>1, <1>2 DEF LocalRestore, UntouchedInv, TagInv, StopInv, CloneInv, Providing
  <2> QED
      BY <2>1, <2>2
<1>3. CASE ActorLives(c)
  <2>1. /\ actor' \in [Kids -> {"none", "SUSPENDED", "RUNNING"}] /\ tag' = tag
        /\ \A d \in Kids : actor'[d] = "none" => actor[d] = "none"
      BY <1>3 DEF ActorLives, SuspendActor, ResumeActor, TypeOK
  <2>2. borrows' \in [Kids -> BOOLEAN] /\ \A d \in Kids : borrows'[d] => borrows[d]
    <3>1. CASE borrows' = borrows
        BY <3>1 DEF TypeOK
    <3>2. CASE SuspendActor(c)
      <4> DEFINE b == borrows[c] /\ actor[c] # "RUNNING"
      <4>1. borrows' = [borrows EXCEPT ![c] = b] /\ b \in BOOLEAN /\ (b => borrows[c])
          BY <3>2, Zenon DEF SuspendActor, TypeOK
      <4> HIDE DEF b
      <4> QED
          BY <4>1, Zenon DEF TypeOK
    <3> QED
        BY <1>3, <3>1, <3>2 DEF ActorLives, ResumeActor
  <2>3. TypeOK' /\ PhaseInv' /\ ClosedInv'
      BY <1>1, <1>3, <2>1, <2>2 DEF ActorLives, TypeOK, PhaseInv, ClosedInv
  <2>4. UntouchedInv' /\ TagInv' /\ StopInv'
      BY <1>1, <1>3, <2>1 DEF ActorLives, UntouchedInv, TagInv, StopInv, Providing
  <2>5. CloneInv'
      BY <1>1, <2>1, <2>2 DEF CloneInv
  <2> QED
      BY <2>3, <2>4, <2>5
<1> QED
    BY <1>2, <1>3

(* The invariant of the fork holds in every reachable state.               *)
THEOREM ForkInvariant == Spec => []IInv
<1>1. IInv /\ [Next]_vars => IInv'
  <2> SUFFICES ASSUME IInv, [Next]_vars PROVE IInv'
      OBVIOUS
  <2>1. CASE ForkStep
      BY <2>1, RequireSnapshotStep, TagStep, CloneStep, GetActorStep, CreateStep, ResumeStep,
         LocalForkStep, RemoteForkStep, CopyLogStep,
         ReleaseTagStep, StopSuspendStep, StopDeleteStep, StopUntagStep DEF ForkStep
  <2>2. CASE ContextEnds \/ ParentMoves \/ Describe \/ CloseBackend
      BY <2>2, AroundStep
  <2>3. ASSUME NEW c \in Kids, ChildLives(c) PROVE IInv'
      BY <2>3, ChildLivesStep
  <2>4. CASE UNCHANGED vars
    <3>1. Child' = Child /\ Provisioned' = Provisioned
        BY <2>4, Same DEF vars
    <3> QED
        BY <2>4, <3>1 DEF vars, acts, shared, IInv, TypeOK, PhaseInv, ClosedInv, UntouchedInv,
           TagInv, StopInv, CloneInv
  <2> QED
      BY <2>1, <2>2, <2>3, <2>4 DEF Next
<1> QED
    BY <1>1, InitIInv, PTL DEF Spec

(* A fork that failed leaves no actor and no tag, the lost creation apart, *)
(* and a closed backend nothing open: for any number of children, faults   *)
(* and wakes of the parent (Backend.Fork, Stop, Placer.rollbackFork).      *)
THEOREM ForksStrandNothing == Spec => []NothingIsStranded
<1>1. IInv => NothingIsStranded
    BY DEF IInv, NothingIsStranded, ClosedInv, TagInv, StopInv, Stopping
<1> QED
    BY <1>1, ForkInvariant, PTL

(* A clone that borrows its snapshot always has the tag that owns it, and  *)
(* that tag copied the snapshot of this fork (requireSnapshot around the   *)
(* tag, and the order of Stop).                                            *)
THEOREM ClonesKeepTheirSnapshot == Spec => []ClonesHaveTheirSnapshot
<1>1. IInv => ClonesHaveTheirSnapshot
    BY DEF IInv, ClonesHaveTheirSnapshot, CloneInv
<1> QED
    BY <1>1, ForkInvariant, PTL
=============================================================================
