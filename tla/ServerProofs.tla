------------------------------ MODULE ServerProofs -----------------------------
(***************************************************************************)
(* Theorems about Admission, on its own, and about Server: what is proved  *)
(* of Admission and of Registry holds of the two together, and what only   *)
(* the composition can promise, for every set of connections, every        *)
(* setting of the limits, every size of the pool and all names.            *)
(***************************************************************************)
EXTENDS Server, SequenceTheorems, FiniteSetTheorems, TLAPS

-------------------------------------------------------------------------------
(* Admission.                                                              *)

(* Whatever is configured, there is a permit, and a batch of one text is   *)
(* let pass.                                                               *)
LEMMA Limits ==
  /\ IsFiniteSet(Slot)
  /\ MaxInflight \in Nat \ {0}
  /\ BatchCap \in Nat \ {0}
  /\ PoolSize \in Nat \ {0}
BY SettingsAssumption, AdmissionAssumption DEF MaxInflight, BatchCap, AtLeastOne

-------------------------------------------------------------------------------
(* The inductive invariant of Admission.                                   *)

(* Who owns the permit of a request follows from how far it has come: the  *)
(* handler while it reads the body and, for text, while it waits; the      *)
(* closure of media while it lives.  The number of permits held is not     *)
(* preserved without it: a release has to find its owner.                  *)
Owned(r) ==
  owner[r] = IF handler[r] = "body" \/ (handler[r] = "waiting" /\ kind[r] = "text")
             THEN "handler"
             ELSE IF kind[r] = "media" /\ Alive(r) THEN "task" ELSE "none"

(* A handler that reads its body has no closure, one that waits has one,   *)
(* and a closure without a handler leaves no result behind.                *)
Joined(r) ==
  /\ handler[r] = "body" => task[r] = "none"
  /\ handler[r] = "waiting" => task[r] # "none"
  /\ handler[r] = "none" => task[r] = "none" \/ Alive(r)

(* A reply is on record only while nothing of the request is left.         *)
Over(r) == reply[r] # 0 => handler[r] = "none" /\ task[r] = "none"

SlotInv == \A r \in Slot : Owned(r) /\ Joined(r) /\ Over(r)

IInv == TypeOK /\ PermitConservation /\ SlotInv

-------------------------------------------------------------------------------
(* Taking and giving back a permit.                                        *)

(* A slot that gets an owner costs one permit.                             *)
LEMMA HolderAdded ==
  ASSUME TypeOK, PermitConservation, NEW r \in Slot, owner[r] = "none", Acquire(r)
  PROVE  PermitConservation' /\ permits' \in 0 .. MaxInflight
<1>1. IsFiniteSet(Holders)
  BY Limits, FS_Subset DEF Holders
<1>2. Holders' = Holders \cup {r} /\ r \notin Holders
  BY DEF Holders, Acquire, TypeOK
<1>3. Cardinality(Holders') = Cardinality(Holders) + 1
  BY <1>1, <1>2, FS_AddElement
<1>4. Cardinality(Holders) \in Nat
  BY <1>1, FS_CardinalityType
<1> QED BY <1>3, <1>4, Limits DEF PermitConservation, Acquire, TypeOK

(* A slot that loses its owner gives one permit back, and only then.       *)
LEMMA HolderRemoved ==
  ASSUME TypeOK, PermitConservation, NEW r \in Slot, NEW holder \in {"handler", "task"},
         ReleaseIf(r, holder)
  PROVE  PermitConservation' /\ permits' \in 0 .. MaxInflight
<1>1. IsFiniteSet(Holders)
  BY Limits, FS_Subset DEF Holders
<1>2. Cardinality(Holders) \in Nat
  BY <1>1, FS_CardinalityType
<1>3. CASE owner[r] = holder
  <2>1. Holders' = Holders \ {r} /\ r \in Holders
    BY <1>3 DEF Holders, ReleaseIf, TypeOK
  <2>2. Cardinality(Holders') = Cardinality(Holders) - 1
    BY <1>1, <2>1, FS_RemoveElement
  <2>3. Cardinality(Holders) >= 1
    <3>1. Cardinality(Holders \ {r}) \in Nat
      BY <1>1, FS_RemoveElement, FS_CardinalityType
    <3> QED BY <3>1, <1>1, <1>2, <2>1, <2>2
  <2>4. permits' = permits + 1
    BY <1>3 DEF ReleaseIf
  <2> HIDE DEF Holders
  <2> QED BY <2>2, <2>3, <2>4, <1>2, Limits DEF PermitConservation, TypeOK
<1>4. CASE owner[r] # holder
  BY <1>4 DEF ReleaseIf, PermitConservation, Holders, TypeOK
<1> QED BY <1>3, <1>4

(* Handing the permit on, or leaving it, costs none.                       *)
LEMMA HoldersKept ==
  ASSUME TypeOK, PermitConservation, UNCHANGED permits,
         \A r \in Slot : owner'[r] = "none" <=> owner[r] = "none"
  PROVE  PermitConservation'
<1>1. Holders' = Holders
  BY DEF Holders
<1> QED BY <1>1 DEF PermitConservation

-------------------------------------------------------------------------------
(* One lemma per action.                                                   *)

LEMMA InitIInv == Init => IInv
<1> SUFFICES ASSUME Init PROVE IInv
  OBVIOUS
<1>1. Holders = {}
  BY DEF Init, Holders
<1>2. PermitConservation
  BY <1>1, FS_EmptySet, Limits DEF PermitConservation, Init
<1>3. TypeOK
  BY Limits DEF TypeOK, Init, Kind, Stage, Result, Status
<1>4. SlotInv
  BY DEF Init, SlotInv, Owned, Joined, Over, Alive
<1> QED BY <1>2, <1>3, <1>4 DEF IInv

LEMMA AdmitIInv ==
  ASSUME IInv, NEW r \in Slot, NEW e \in Kind, Admit(r, e)
  PROVE  IInv'
<1> USE DEF IInv
<1>1. owner[r] = "none"
  BY DEF SlotInv, Owned, Admit, Idle, Alive
<1>2. PermitConservation' /\ permits' \in 0 .. MaxInflight
  BY <1>1, HolderAdded DEF Admit
<1>3. TypeOK'
  BY <1>2 DEF TypeOK, Admit, Idle, Acquire, Stage, Result, Status, Kind
<1>4. SlotInv'
  BY DEF TypeOK, SlotInv, Owned, Joined, Over, Alive, Admit, Idle, Acquire, Kind
<1> QED BY <1>2, <1>3, <1>4

LEMMA ShedIInv ==
  ASSUME IInv, NEW r \in Slot, NEW e \in Kind, Shed(r, e)
  PROVE  IInv'
<1> USE DEF IInv
<1>1. PermitConservation'
  BY HoldersKept DEF Shed
<1>2. TypeOK'
  BY DEF TypeOK, Shed, Idle, Stage, Result, Status, Kind
<1>3. SlotInv'
  BY DEF TypeOK, SlotInv, Owned, Joined, Over, Alive, Shed, Idle, Kind
<1> QED BY <1>1, <1>2, <1>3

(* The two ways of refusing what was read differ only in the status.       *)
LEMMA RefusalIInv ==
  ASSUME IInv, NEW r \in Slot, NEW status \in Status, handler[r] = "body",
         Answer(r, status), UNCHANGED <<kind, task, queue>>
  PROVE  IInv'
<1> USE DEF IInv
<1>1. PermitConservation' /\ permits' \in 0 .. MaxInflight
  BY HolderRemoved DEF Answer
<1>2. TypeOK'
  BY <1>1 DEF TypeOK, Answer, ReleaseIf, Stage, Result, Status, Kind
<1>3. SlotInv'
  BY DEF TypeOK, SlotInv, Owned, Joined, Over, Alive, Answer, ReleaseIf, Kind
<1> QED BY <1>1, <1>2, <1>3

LEMMA SpawnIInv ==
  ASSUME IInv, NEW r \in Slot, NEW n, Spawn(r, n)
  PROVE  IInv'
<1> USE DEF IInv
<1>1. owner[r] = "handler" /\ task[r] = "none"
  BY DEF SlotInv, Owned, Joined, Spawn
<1>2. PermitConservation'
  BY <1>1, HoldersKept DEF Spawn, TypeOK
<1>3. TypeOK'
  <2>1. /\ queue' \in Seq(Slot)
        /\ Len(queue') = Len(queue) + 1
        /\ \A i \in 1 .. Len(queue) : queue'[i] = queue[i]
        /\ queue'[Len(queue) + 1] = r
    BY AppendProperties DEF Spawn, TypeOK
  <2>2. Len(queue) \in Nat /\ DOMAIN queue = 1 .. Len(queue)
        /\ DOMAIN queue' = 1 .. Len(queue) + 1
    BY <2>1, LenProperties DEF TypeOK
  <2>3. \A i \in DOMAIN queue : queue[i] # r
    BY <1>1 DEF TypeOK
  <2>4. \A i, j \in DOMAIN queue' : queue'[i] = queue'[j] => i = j
    BY <2>1, <2>2, <2>3 DEF TypeOK
  <2>5. \A s \in Slot : task'[s] = "queued" <=> \E i \in DOMAIN queue' : queue'[i] = s
    <3> TAKE s \in Slot
    <3>1. CASE s = r
      BY <3>1, <2>1, <2>2 DEF TypeOK, Spawn
    <3>2. CASE s # r
      <4>1. task'[s] = task[s]
        BY <3>2 DEF TypeOK, Spawn
      <4>2. (\E i \in DOMAIN queue' : queue'[i] = s) <=> \E i \in DOMAIN queue : queue[i] = s
        BY <3>2, <2>1, <2>2
      <4> QED BY <4>1, <4>2 DEF TypeOK
    <3> QED BY <3>1, <3>2
  <2> QED BY <2>1, <2>4, <2>5 DEF TypeOK, Spawn, Stage, Result, Status, Kind
<1>4. SlotInv'
  BY <1>1 DEF TypeOK, SlotInv, Owned, Joined, Over, Alive, Spawn, Kind
<1> QED BY <1>2, <1>3, <1>4

LEMMA RespondIInv ==
  ASSUME IInv, NEW r \in Slot, Respond(r)
  PROVE  IInv'
<1> USE DEF IInv
<1>1. PermitConservation' /\ permits' \in 0 .. MaxInflight
  BY HolderRemoved DEF Respond, Answer
<1>2. TypeOK'
  BY <1>1 DEF TypeOK, Respond, Answer, ReleaseIf, Stage, Result, Status, Kind
<1>3. SlotInv'
  BY DEF TypeOK, SlotInv, Owned, Joined, Over, Alive, Respond, Answer, ReleaseIf, Kind
<1> QED BY <1>1, <1>2, <1>3

LEMMA DisconnectIInv ==
  ASSUME IInv, NEW r \in Slot, Disconnect(r)
  PROVE  IInv'
<1> USE DEF IInv
<1>1. PermitConservation' /\ permits' \in 0 .. MaxInflight
  BY HolderRemoved DEF Disconnect
<1>2. TypeOK'
  BY <1>1 DEF TypeOK, Disconnect, Alive, ReleaseIf, Stage, Result, Status, Kind
<1>3. SlotInv'
  BY DEF TypeOK, SlotInv, Owned, Joined, Over, Alive, Disconnect, ReleaseIf, Kind
<1> QED BY <1>1, <1>2, <1>3

LEMMA TaskStartIInv ==
  ASSUME IInv, TaskStart
  PROVE  IInv'
<1> USE DEF IInv
<1> DEFINE h == Head(queue)
<1>1. /\ h \in Slot /\ h = queue[1]
      /\ Len(queue) \in Nat \ {0} /\ DOMAIN queue = 1 .. Len(queue)
      /\ Tail(queue) \in Seq(Slot)
      /\ DOMAIN Tail(queue) = 1 .. Len(queue) - 1
      /\ \A i \in 1 .. Len(queue) - 1 : Tail(queue)[i] = queue[i + 1]
  BY HeadTailProperties, LenProperties, EmptySeq DEF TaskStart, TypeOK
<1>2. task[h] = "queued"
  BY <1>1 DEF TypeOK
<1>3. PermitConservation'
  BY HoldersKept DEF TaskStart
<1>4. TypeOK'
  <2>1. \A i \in DOMAIN Tail(queue) : Tail(queue)[i] # h
    BY <1>1 DEF TypeOK
  <2>2. \A i, j \in DOMAIN Tail(queue) : Tail(queue)[i] = Tail(queue)[j] => i = j
    BY <1>1 DEF TypeOK
  <2>3. \A s \in Slot :
          task'[s] = "queued" <=> \E i \in DOMAIN Tail(queue) : Tail(queue)[i] = s
    <3> TAKE s \in Slot
    <3>1. CASE s = h
      BY <3>1, <2>1, <1>1 DEF TaskStart, TypeOK
    <3>2. CASE s # h
      <4>1. task'[s] = task[s]
        BY <3>2 DEF TaskStart, TypeOK
      <4>2. (\E i \in DOMAIN queue : queue[i] = s)
              <=> \E i \in DOMAIN Tail(queue) : Tail(queue)[i] = s
        <5>1. ASSUME NEW i \in DOMAIN queue, queue[i] = s
              PROVE  \E j \in DOMAIN Tail(queue) : Tail(queue)[j] = s
          <6>1. i # 1
            BY <5>1, <3>2, <1>1
          <6>2. i - 1 \in DOMAIN Tail(queue) /\ Tail(queue)[i - 1] = s
            BY <5>1, <6>1, <1>1
          <6> QED BY <6>2
        <5>2. ASSUME NEW i \in DOMAIN Tail(queue), Tail(queue)[i] = s
              PROVE  \E j \in DOMAIN queue : queue[j] = s
          <6>1. i + 1 \in DOMAIN queue /\ queue[i + 1] = s
            BY <5>2, <1>1
          <6> QED BY <6>1
        <5> QED BY <5>1, <5>2
      <4> QED BY <4>1, <4>2 DEF TypeOK
    <3> QED BY <3>1, <3>2
  <2> QED BY <1>1, <2>2, <2>3 DEF TypeOK, TaskStart, Stage, Result, Status, Kind
<1>5. SlotInv'
  BY <1>1, <1>2 DEF TypeOK, SlotInv, Owned, Joined, Over, Alive, TaskStart
<1> QED BY <1>3, <1>4, <1>5

LEMMA TaskEndIInv ==
  ASSUME IInv, NEW r \in Slot, TaskEnd(r)
  PROVE  IInv'
<1> USE DEF IInv
<1>0. PICK result \in {"ok", "failed", "bad"} :
        task' = [task EXCEPT ![r] = IF handler[r] = "none" THEN "none" ELSE result]
  BY DEF TaskEnd
<1>1. PermitConservation' /\ permits' \in 0 .. MaxInflight
  BY HolderRemoved DEF TaskEnd
<1>2. TypeOK'
  BY <1>0, <1>1 DEF TypeOK, TaskEnd, ReleaseIf, Stage, Result, Status, Kind
<1>3. SlotInv'
  BY <1>0 DEF TypeOK, SlotInv, Owned, Joined, Over, Alive, TaskEnd, ReleaseIf, Kind
<1> QED BY <1>1, <1>2, <1>3

-------------------------------------------------------------------------------
(* The invariant is inductive.                                             *)
LEMMA NextIInv == IInv /\ [Next]_vars => IInv'
<1> SUFFICES ASSUME IInv, [Next]_vars PROVE IInv'
  OBVIOUS
<1>1. ASSUME NEW r \in Slot, NEW e \in Kind, Admit(r, e) \/ Shed(r, e) PROVE IInv'
  BY <1>1, AdmitIInv, ShedIInv
<1>2. ASSUME NEW r \in Slot, BadBody(r) PROVE IInv'
  <2>1. 422 \in Status
    BY DEF Status
  <2> QED BY <1>2, <2>1, RefusalIInv DEF BadBody
<1>3. ASSUME NEW r \in Slot, NEW n \in BatchLen, RefuseBatch(r, n) PROVE IInv'
  <2>1. 413 \in Status /\ 400 \in Status
    BY DEF Status
  <2> QED BY <1>3, <2>1, RefusalIInv DEF RefuseBatch
<1>4. ASSUME NEW r \in Slot, NEW n \in BatchLen, Spawn(r, n) PROVE IInv'
  BY <1>4, SpawnIInv
<1>5. ASSUME NEW r \in Slot, Respond(r) \/ Disconnect(r) \/ TaskEnd(r) PROVE IInv'
  BY <1>5, RespondIInv, DisconnectIInv, TaskEndIInv
<1>6. CASE TaskStart
  BY <1>6, TaskStartIInv
<1>7. CASE UNCHANGED vars
  BY <1>7 DEF vars, IInv, TypeOK, PermitConservation, Holders, SlotInv, Owned,
              Joined, Over, Alive
<1> QED BY <1>1, <1>2, <1>3, <1>4, <1>5, <1>6, <1>7 DEF Next

(* The invariant holds of every reachable state.                           *)
THEOREM Inductive == Spec => []IInv
<1>1. Init => IInv
  BY InitIInv
<1>2. IInv /\ [Next]_vars => IInv'
  BY NextIInv
<1> QED BY <1>1, <1>2, PTL DEF Spec

-------------------------------------------------------------------------------
(* The properties the run checks, for every instance.                      *)

(* Every variable stays in its type; the queue of the pool holds just the  *)
(* closures that wait, each once.                                          *)
THEOREM TypeCorrect == Spec => []TypeOK
<1>1. IInv => TypeOK
  BY DEF IInv
<1> QED BY <1>1, Inductive, PTL

(* No permit of the in-flight semaphore is lost or given back twice.       *)
THEOREM PermitsConserved == Spec => []PermitConservation
<1>1. IInv => PermitConservation
  BY DEF IInv
<1> QED BY <1>1, Inductive, PTL

(* Closures that count hold a permit each, and permits are counted.        *)
LEMMA WorkFollows == IInv => WorkBounded
<1> SUFFICES ASSUME IInv PROVE WorkBounded
  OBVIOUS
<1>1. IsFiniteSet(Holders)
  BY Limits, FS_Subset DEF Holders
<1>2. Bounded \subseteq Holders
  BY DEF IInv, SlotInv, Owned, Bounded, Holders, TypeOK, Kind
<1>3. Cardinality(Bounded) <= Cardinality(Holders) /\ Cardinality(Holders) \in Nat
      /\ Cardinality(Bounded) \in Nat
  BY <1>1, <1>2, FS_Subset, FS_CardinalityType
<1> HIDE DEF Bounded, Holders
<1> QED BY <1>3, Limits DEF IInv, PermitConservation, TypeOK, WorkBounded

(* Media closures, and text closures somebody waits for, hold a permit     *)
(* each, so there are at most max_inflight of them.                        *)
THEOREM WorkIsBounded == Spec => []WorkBounded
<1> QED BY WorkFollows, Inductive, PTL

(* Nothing of a request outlives its response.                             *)
THEOREM AnswersAreFinal == Spec => []AnsweredLeaveNothing
<1>1. IInv => AnsweredLeaveNothing
  BY DEF IInv, SlotInv, Owned, Over, Alive, AnsweredLeaveNothing
<1> QED BY <1>1, Inductive, PTL

-------------------------------------------------------------------------------
(* Server, with the theorems of Registry.                                  *)

RP == INSTANCE RegistryProofs WITH Key <- Name, Request <- Slot

Thread == Slot \cup {Main}

-------------------------------------------------------------------------------
(* The registry that Server takes its actions from and the one that the    *)
(* theorems are about are the same.                                        *)

LEMMA SameHelpers ==
  /\ \A s, k : R!MoveToBack(s, k) = RP!MoveToBack(s, k)
  /\ \A s, k : R!RemoveAt(s, k) = RP!RemoveAt(s, k)
  /\ R!Loaded = RP!Loaded /\ R!Victims = RP!Victims /\ R!FirstVictim = RP!FirstVictim
  /\ R!OverCapacity <=> RP!OverCapacity
<1>1. \A s, k : R!RemoveAt(s, k) = RP!RemoveAt(s, k)
  BY DEF R!RemoveAt, RP!RemoveAt
<1>2. \A s, k : R!Position(s, k) = RP!Position(s, k)
  BY DEF R!Position, RP!Position
<1>3. R!Loaded = RP!Loaded /\ R!Victims = RP!Victims
  BY DEF R!Loaded, RP!Loaded, R!Victims, RP!Victims
<1>4. R!FirstVictim = RP!FirstVictim
  BY <1>3 DEF R!FirstVictim, RP!FirstVictim
<1>5. \A S : R!Cardinality(S) = RP!Cardinality(S)
  BY DEF R!Cardinality, RP!Cardinality
<1>6. R!OverCapacity <=> RP!OverCapacity
  BY <1>3, <1>5 DEF R!OverCapacity, RP!OverCapacity
<1>7. \A s, k : R!MoveToBack(s, k) = RP!MoveToBack(s, k)
  BY <1>1, <1>2 DEF R!MoveToBack, RP!MoveToBack
<1> QED BY <1>1, <1>3, <1>4, <1>6, <1>7

(* Every step that Server takes from its registry is the one of the        *)
(* theorems.                                                               *)
LEMMA SameSteps ==
  ASSUME NEW t
  PROVE  /\ R!Touch(t) => RP!Touch(t)
         /\ R!PinHit(t) => RP!PinHit(t)
         /\ R!Load(t) => RP!Load(t)
         /\ R!LoadFail(t) => RP!LoadFail(t)
         /\ R!InsertExisting(t) => RP!InsertExisting(t)
         /\ R!InsertNew(t) => RP!InsertNew(t)
         /\ R!EvictOne(t) => RP!EvictOne(t)
         /\ R!EvictDone(t) => RP!EvictDone(t)
         /\ R!Release(t) => RP!Release(t)
<1> USE SameHelpers
<1>1. R!Touch(t) => RP!Touch(t)
  BY DEF R!Touch, RP!Touch, R!Pinning, RP!Pinning
<1>2. R!PinHit(t) => RP!PinHit(t)
  BY DEF R!PinHit, RP!PinHit
<1>3. (R!Load(t) => RP!Load(t)) /\ (R!LoadFail(t) => RP!LoadFail(t))
  BY DEF R!Load, RP!Load, R!LoadFail, RP!LoadFail
<1>4. R!InsertExisting(t) => RP!InsertExisting(t)
  BY DEF R!InsertExisting, RP!InsertExisting, R!Pinning, RP!Pinning
<1>5. R!InsertNew(t) => RP!InsertNew(t)
  BY DEF R!InsertNew, RP!InsertNew, R!Pinning, RP!Pinning
<1>6. R!EvictOne(t) => RP!EvictOne(t)
  BY DEF R!EvictOne, RP!EvictOne
<1>7. R!EvictDone(t) => RP!EvictDone(t)
  BY DEF R!EvictDone, RP!EvictDone
<1>8. R!Release(t) => RP!Release(t)
  BY DEF R!Release, RP!Release
<1> QED BY <1>1, <1>2, <1>3, <1>4, <1>5, <1>6, <1>7, <1>8

LEMMA RegistryCalls ==
  /\ R!PreloadNext => RP!PreloadNext
  /\ \A r \in Slot, k \in Name : R!Call(r, k) => RP!Call(r, k)
  /\ R!Serving <=> RP!Serving
<1>1. R!Serving <=> RP!Serving
  BY DEF R!Serving, RP!Serving
<1> QED BY <1>1 DEF R!PreloadNext, RP!PreloadNext, R!Call, RP!Call

LEMMA SameNext == [R!Next]_registryVars => [RP!Next]_RP!vars
<1> SUFFICES ASSUME [R!Next]_registryVars PROVE [RP!Next]_RP!vars
  OBVIOUS
<1>1. CASE R!PreloadNext
  BY <1>1, RegistryCalls DEF RP!Next
<1>2. ASSUME NEW r \in Slot, NEW k \in Name, R!Call(r, k) PROVE RP!Next
  BY <1>2, RegistryCalls DEF RP!Next
<1>3. ASSUME NEW t \in R!Thread, R!Step(t) PROVE RP!Next
  BY <1>3, SameSteps DEF R!Step, R!Evict, RP!Step, RP!Evict, R!Thread, RP!Thread, RP!Next
<1>4. CASE UNCHANGED registryVars
  BY <1>4 DEF registryVars, RP!vars
<1> QED BY <1>1, <1>2, <1>3, <1>4 DEF R!Next

LEMMA RegistryInit == R!Init => RP!IInv
<1>1. R!Init => RP!Init
  BY DEF R!Init, RP!Init, R!Thread, RP!Thread
<1>2. RP!Init => RP!IInv
  BY ServerAssumption, RP!InitIInv DEF RP!InitIInv
<1> QED BY <1>1, <1>2

LEMMA RegistryKept == RP!IInv /\ [R!Next]_registryVars => RP!IInv'
<1>1. RP!IInv /\ [RP!Next]_RP!vars => RP!IInv'
  BY ServerAssumption, RP!NextIInv DEF RP!NextIInv
<1> QED BY <1>1, SameNext

-------------------------------------------------------------------------------
(* Every step of the server is a step of each part, or leaves it alone.    *)

LEMMA AdmissionStep == ServerNext => [Next]_vars
<1> SUFFICES ASSUME ServerNext PROVE [Next]_vars
  OBVIOUS
<1>1. ASSUME Boot \/ \E t \in Thread : Fetch(t) \/ LoadEngine(t) PROVE UNCHANGED vars
  BY <1>1 DEF Boot, Fetch, LoadEngine, vars
<1>2. CASE Begin
  BY <1>2 DEF Begin, Next
<1>3. ASSUME NEW r \in Slot, Handle(r) PROVE Next
  BY <1>3 DEF Handle, Next
<1>4. ASSUME NEW r \in Slot, NEW n \in BatchLen, HandOver(r, n) PROVE Next
  BY <1>4 DEF HandOver, Next
<1>5. ASSUME NEW r \in Slot, Closure(r) PROVE [Next]_vars
  <2>1. ASSUME NEW k \in Name, LookUp(r, k) PROVE UNCHANGED vars
    BY <2>1 DEF LookUp, vars
  <2>2. ASSUME NEW result, EndAs(r, result) PROVE Next
    BY <2>2 DEF EndAs, Next
  <2>3. CASE Refuse(r) \/ LoadError(r)
    BY <2>3, <2>2 DEF Refuse, LoadError
  <2>4. CASE NothingToDo(r) \/ Compute(r) \/ ComputeGuarded(r) \/ Break(r)
    BY <2>4, <2>2 DEF NothingToDo, Compute, ComputeGuarded, Break, Finish
  <2>5. CASE LockEngine(r)
    BY <2>5, <2>2 DEF LockEngine, Finish
  <2> QED BY <1>1, <1>5, <2>1, <2>3, <2>4, <2>5 DEF Closure, Thread
<1> QED BY <1>1, <1>2, <1>3, <1>4, <1>5 DEF ServerNext, Thread

LEMMA RegistryStep == ServerNext => [R!Next]_registryVars
<1> SUFFICES ASSUME ServerNext PROVE [R!Next]_registryVars
  OBVIOUS
<1>1. ASSUME NEW t \in Thread, R!Step(t) PROVE R!Next
  BY <1>1 DEF R!Next, R!Thread, Thread
<1>2. CASE Boot
  BY <1>1, <1>2 DEF Boot, R!Next, R!Step, Thread
<1>3. ASSUME NEW t \in Thread, Fetch(t) \/ LoadEngine(t) PROVE R!Next
  BY <1>1, <1>3 DEF Fetch, LoadEngine, R!Step
<1>4. ASSUME Begin \/ \E r \in Slot : Handle(r) \/ \E n \in BatchLen : HandOver(r, n)
      PROVE  UNCHANGED registryVars
  BY <1>4 DEF Begin, Handle, HandOver, registryVars
<1>5. ASSUME NEW r \in Slot, Closure(r) PROVE [R!Next]_registryVars
  <2>1. ASSUME NEW k \in Name, LookUp(r, k) PROVE R!Next
    BY <2>1 DEF LookUp, R!Next
  <2>2. ASSUME NEW result, Finish(r, result) PROVE R!Next
    BY <1>1, <2>2 DEF Finish, R!Step, Thread
  <2>3. CASE Refuse(r)
    BY <2>3 DEF Refuse, registryVars
  <2>4. CASE LoadError(r)
    BY <1>1, <2>4 DEF LoadError, R!Step, Thread
  <2>5. CASE NothingToDo(r) \/ Compute(r) \/ ComputeGuarded(r) \/ Break(r)
    BY <2>2, <2>5 DEF NothingToDo, Compute, ComputeGuarded, Break
  <2>6. CASE LockEngine(r)
    BY <2>2, <2>6 DEF LockEngine, registryVars
  <2> QED BY <1>3, <1>5, <2>1, <2>3, <2>4, <2>5, <2>6 DEF Closure, Thread
<1> QED BY <1>2, <1>3, <1>4, <1>5 DEF ServerNext, Thread

(* The server, seen through admission, is what Admission describes: the    *)
(* registry and the engines only decide when closures end.                 *)
THEOREM AdmissionRefined == ServerSpec => Init /\ [][Next]_vars
<1>1. ServerInit => Init
  BY DEF ServerInit
<1>2. [ServerNext]_serverVars => [Next]_vars
  <2>1. UNCHANGED serverVars => UNCHANGED vars
    BY DEF serverVars
  <2> QED BY <2>1, AdmissionStep
<1> QED BY <1>1, <1>2, PTL DEF ServerSpec

(* Seen through the registry it is what Registry describes: connections    *)
(* and permits only decide who calls.                                      *)
THEOREM RegistryRefined == ServerSpec => R!Init /\ [][R!Next]_registryVars
<1>1. ServerInit => R!Init
  BY DEF ServerInit
<1>2. [ServerNext]_serverVars => [R!Next]_registryVars
  <2>1. UNCHANGED serverVars => UNCHANGED registryVars
    BY DEF serverVars
  <2> QED BY <2>1, RegistryStep
<1> QED BY <1>1, <1>2, PTL DEF ServerSpec

-------------------------------------------------------------------------------
(* What the composition adds.                                              *)

Owns(t) == stage[t] \in {"pinning", "inserting", "evicting", "using"}

EngineTypes ==
  /\ loads \in 0 .. MaxLoads
  /\ origin \in [Instance -> Name \cup {NoKey}]
  /\ user \in [Instance -> Slot \cup {Unlocked}]

(* What is cached was loaded for its key, and what a thread owns for the   *)
(* name it asked for.                                                      *)
Cached ==
  \A k \in Name : models[k] # 0 =>
    models[k] \in 1 .. loads /\ origin[models[k]] = k /\ k \in DOMAIN BackendOf

Holding(t) ==
  IF Owns(t)
  THEN held[t] \in 1 .. loads /\ origin[held[t]] = want[t] /\ want[t] \in DOMAIN BackendOf
  ELSE held[t] = 0

(* A call of the registry is made by a running closure, and for media with *)
(* a name that the check has let pass.                                     *)
Inside ==
  \A r \in Slot : stage[r] # "idle" =>
    task[r] = "running" /\ (kind[r] = "media" => want[r] \in MediaNames)

(* Whoever holds the mutex of an engine is computing on it.                *)
Locked ==
  \A i \in Instance : user[i] # Unlocked =>
    /\ stage[user[i]] = "using"
    /\ held[user[i]] = i
    /\ Guarded(i)
    /\ user[i] \notin empty

(* While evict runs, the models besides the new one are as many as may be  *)
(* cached, or pinned, and the new one is what the thread owns.             *)
Others(t) == {k \in Name : models[k] # 0 /\ k # want[t]}

Overfull ==
  lock # Unlocked =>
    /\ models[want[lock]] \in {0, held[lock]}
    /\ Others(lock) \subseteq pinned \/ (MaxLoaded # 0 => Cardinality(Others(lock)) <= MaxLoaded)

ServerInv ==
  /\ IInv
  /\ RP!IInv
  /\ EngineTypes
  /\ Cached
  /\ \A t \in Thread : Holding(t)
  /\ Inside
  /\ Locked
  /\ Overfull

(* What is needed of the invariant of the registry.                        *)
LEMMA RegistryFacts ==
  ASSUME RP!IInv
  PROVE  /\ models \in [Name -> Nat]
         /\ pinned \subseteq Name
         /\ lock \in Thread \cup {Unlocked}
         /\ stage \in [Thread -> R!Stage]
         /\ want \in [Thread -> Name \cup {NoKey}]
         /\ held \in [Thread -> Nat]
         /\ loads \in Nat
         /\ \A t \in Thread : stage[t] # "idle" <=> want[t] # NoKey
         /\ \A t \in Thread : stage[t] = "evicting" <=> lock = t
         /\ \A t \in Thread : stage[t] = "inserting" => held[t] # 0
         /\ \A t \in Thread : stage[t] = "pinning" => models[want[t]] # 0
BY DEF RP!IInv, RP!TypeOK, RP!HeldInv, RP!BootInv, RP!Loaded, RP!Thread, R!Stage, RP!Stage, Thread

LEMMA InstanceNumbers ==
  ASSUME EngineTypes
  PROVE  loads \in Nat /\ \A i \in 1 .. loads : i \in Instance /\ i # 0
BY ServerAssumption DEF EngineTypes, Instance

(* The critical sections leave the invariant alone, whoever runs them.     *)
LEMMA FetchKeeps ==
  ASSUME ServerInv, NEW t \in Thread, Fetch(t)
  PROVE  EngineTypes' /\ Cached' /\ \A u \in Thread : Holding(u)'
<1> USE RegistryFacts, InstanceNumbers DEF ServerInv, R!Stage
<1>1. UNCHANGED <<origin, user>>
  BY DEF Fetch, engineVars
<1>2. UNCHANGED loads
  BY DEF Fetch, R!Touch, R!PinHit, R!InsertExisting, R!InsertNew, R!Evict, R!EvictOne, R!EvictDone
<1>3. EngineTypes'
  BY <1>1, <1>2 DEF EngineTypes, Instance
<1>4. CASE R!Touch(t) \/ R!PinHit(t)
  <2>1. Cached'
    BY <1>1, <1>2, <1>4 DEF Cached, R!Touch, R!PinHit
  <2>2. want[t] \in Name
    BY <1>4, ServerAssumption DEF R!Touch, R!PinHit
  <2>3. Holding(t)'
    BY <1>1, <1>2, <1>4, <2>2 DEF Cached, Holding, Owns, R!Touch, R!PinHit
  <2>4. \A u \in Thread \ {t} : Holding(u)'
    BY <1>1, <1>2, <1>4 DEF Holding, Owns, R!Touch, R!PinHit
  <2> QED BY <1>3, <2>1, <2>3, <2>4
<1>5. CASE R!InsertExisting(t)
  <2>1. Cached'
    BY <1>1, <1>2, <1>5 DEF Cached, R!InsertExisting
  <2>2. want[t] \in Name
    BY <1>5, ServerAssumption DEF R!InsertExisting
  <2>3. Holding(t)'
    BY <1>1, <1>2, <1>5, <2>2 DEF Cached, Holding, Owns, R!InsertExisting
  <2>4. \A u \in Thread \ {t} : Holding(u)'
    BY <1>1, <1>2, <1>5 DEF Holding, Owns, R!InsertExisting
  <2> QED BY <1>3, <2>1, <2>3, <2>4
<1>6. CASE R!InsertNew(t)
  <2>1. Holding(t)
    OBVIOUS
  <2>2. want[t] \in Name /\ Owns(t)
    BY <1>6, ServerAssumption DEF R!InsertNew, Owns
  <2>3. Cached'
    BY <1>1, <1>2, <1>6, <2>1, <2>2 DEF Cached, Holding, R!InsertNew
  <2>4. \A u \in Thread : Holding(u)'
    BY <1>1, <1>2, <1>6 DEF Holding, Owns, R!InsertNew
  <2> QED BY <1>3, <2>3, <2>4
<1>7. CASE R!Evict(t)
  <2>1. Cached'
    BY <1>1, <1>2, <1>7 DEF Cached, R!Evict, R!EvictOne, R!EvictDone
  <2>2. \A u \in Thread : Holding(u)'
    BY <1>1, <1>2, <1>7 DEF Holding, Owns, R!Evict, R!EvictOne, R!EvictDone
  <2> QED BY <1>3, <2>1, <2>2
<1> QED BY <1>4, <1>5, <1>6, <1>7 DEF Fetch

(* The thread in evict is none of those that do anything else, so that     *)
(* what is said of it and of the cache stays true.                         *)
LEMMA OverfullKept ==
  ASSUME ServerInv, UNCHANGED <<models, pinned, lock>>,
         lock # Unlocked => want'[lock] = want[lock] /\ held'[lock] = held[lock]
  PROVE  Overfull'
BY DEF ServerInv, Overfull, Others

LEMMA OthersFinite ==
  ASSUME RP!IInv, NEW t
  PROVE  /\ IsFiniteSet(RP!Loaded) /\ IsFiniteSet(Others(t)) /\ IsFiniteSet(pinned)
         /\ Cardinality(Others(t)) \in Nat /\ Cardinality(RP!Loaded) \in Nat
         /\ Cardinality(pinned) \in Nat
<1>1. \A S : RP!IsFiniteSet(S) <=> IsFiniteSet(S)
  BY DEF RP!IsFiniteSet, IsFiniteSet
<1>2. IsFiniteSet(RP!Loaded)
  <2>1. RP!IsFiniteSet(RP!Loaded)
    BY ServerAssumption, RP!LoadedFinite DEF RP!LoadedFinite, RP!IInv
  <2> QED BY <1>1, <2>1
<1>3. Others(t) \subseteq RP!Loaded /\ pinned \subseteq RP!Loaded
  BY DEF Others, RP!Loaded, RP!IInv, RP!PinnedLoaded
<1> QED BY <1>2, <1>3, FS_Subset, FS_CardinalityType

LEMMA FetchOverfull ==
  ASSUME ServerInv, NEW t \in Thread, Fetch(t)
  PROVE  Overfull'
<1> USE RegistryFacts DEF ServerInv
<1>1. CASE R!Touch(t) \/ R!PinHit(t) \/ R!InsertExisting(t)
  <2>1. lock = Unlocked /\ lock' = lock
    BY <1>1 DEF R!Touch, R!PinHit, R!InsertExisting
  <2> QED BY <2>1 DEF Overfull
<1>2. CASE R!InsertNew(t)
  <2>1. /\ want[t] \in Name /\ models[want[t]] = 0 /\ lock = Unlocked
        /\ lock' = t /\ UNCHANGED <<want, held>>
        /\ models' = [models EXCEPT ![want[t]] = held[t]]
    BY <1>2, ServerAssumption DEF R!InsertNew
  <2>2. RP!Loaded \subseteq pinned
        \/ (MaxLoaded # 0 => Cardinality(RP!Loaded) <= MaxLoaded)
    <3>1. \A S : RP!Cardinality(S) = Cardinality(S)
      BY DEF RP!Cardinality, Cardinality
    <3> QED BY <2>1, <3>1 DEF RP!IInv, RP!WithinCapacity
  <2>3. Others(t)' = RP!Loaded
    BY <2>1 DEF Others, RP!Loaded
  <2>4. Others(t)' \subseteq pinned' \/ (MaxLoaded # 0 => Cardinality(Others(t)') <= MaxLoaded)
    <3>1. pinned \subseteq pinned'
      BY <1>2 DEF R!InsertNew
    <3> QED BY <2>2, <2>3, <3>1
  <2>5. models'[want'[t]] = held'[t]
    BY <2>1
  <2> HIDE DEF Others
  <2> QED BY <2>1, <2>4, <2>5 DEF Overfull
<1>3. CASE R!EvictOne(t)
  <2> DEFINE v == lru[R!FirstVictim]
  <2>1. lock = t /\ lock # Unlocked
        /\ UNCHANGED <<pinned, lock, want, held>> /\ models' = [models EXCEPT ![v] = 0]
    BY <1>3, ServerAssumption DEF R!EvictOne, Thread
  <2> HIDE DEF v
  <2>2. Others(t)' \subseteq Others(t)
    BY <2>1 DEF Others
  <2>3. Cardinality(Others(t)') <= Cardinality(Others(t)) /\ Cardinality(Others(t)') \in Nat
    BY <2>2, OthersFinite, FS_Subset, FS_CardinalityType
  <2>4. models'[want[t]] \in {0, held[t]}
    BY <2>1 DEF Overfull
  <2>5. Others(t) \subseteq pinned \/ (MaxLoaded # 0 => Cardinality(Others(t)) <= MaxLoaded)
    BY <2>1 DEF Overfull
  <2>6. Cardinality(Others(t)) \in Nat
    BY OthersFinite
  <2>7. Others(t)' \subseteq pinned' \/ (MaxLoaded # 0 => Cardinality(Others(t)') <= MaxLoaded)
    <3> HIDE DEF Others
    <3> QED BY <2>1, <2>2, <2>3, <2>5, <2>6, ServerAssumption
  <2> HIDE DEF Others
  <2> QED BY <2>1, <2>4, <2>7 DEF Overfull
<1>4. CASE R!EvictDone(t)
  BY <1>4 DEF R!EvictDone, Overfull
<1> QED BY <1>1, <1>2, <1>3, <1>4 DEF Fetch, R!Evict

LEMMA FetchInside ==
  ASSUME ServerInv, NEW t \in Thread, Fetch(t)
  PROVE  Inside' /\ Locked'
<1> USE RegistryFacts DEF ServerInv
<1>1. /\ stage[t] \in {"touching", "pinning", "inserting", "evicting"}
      /\ \A u \in Thread : u # t => stage'[u] = stage[u] /\ held'[u] = held[u]
      /\ want' = want
  BY DEF Fetch, R!Touch, R!PinHit, R!InsertExisting, R!InsertNew, R!Evict, R!EvictOne, R!EvictDone
<1>2. UNCHANGED <<task, kind, user, origin, empty>>
  BY DEF Fetch, vars, engineVars
<1>3. Inside'
  BY <1>1, <1>2 DEF Inside, Thread
<1>4. Locked'
  <2> SUFFICES ASSUME NEW i \in Instance, user[i] # Unlocked
               PROVE  /\ stage'[user[i]] = "using" /\ held'[user[i]] = i
                      /\ Guarded(i) /\ user[i] \notin empty
    BY <1>2 DEF Locked, Guarded, Backend, Instance
  <2>1. user[i] \in Thread
    BY DEF EngineTypes, Thread
  <2>2. stage[user[i]] = "using" /\ held[user[i]] = i /\ Guarded(i) /\ user[i] \notin empty
    BY DEF Locked
  <2> QED BY <1>1, <2>1, <2>2
<1> QED BY <1>3, <1>4

-------------------------------------------------------------------------------
(* Steps that the registry does not see.                                   *)

LEMMA QuietKeeps ==
  ASSUME ServerInv, UNCHANGED <<registryVars, origin>>
  PROVE  /\ Cached' /\ (\A t \in Thread : Holding(t)') /\ Overfull'
         /\ user' \in [Instance -> Slot \cup {Unlocked}] => EngineTypes'
<1> USE DEF ServerInv, registryVars
<1>1. Cached'
  BY DEF Cached
<1>2. \A t \in Thread : Holding(t)'
  BY DEF Holding, Owns
<1>3. Overfull'
  BY OverfullKept
<1> QED BY <1>1, <1>2, <1>3 DEF EngineTypes, Instance

(* Requests come, wait and go while calls of the registry go on.           *)
LEMMA AdmissionKeeps ==
  ASSUME ServerInv, Begin \/ \E r \in Slot : Handle(r) \/ \E n \in BatchLen : HandOver(r, n)
  PROVE  EngineTypes' /\ Cached' /\ (\A t \in Thread : Holding(t)') /\ Overfull'
         /\ Inside' /\ Locked'
<1> USE RegistryFacts DEF ServerInv, Thread
<1>1. UNCHANGED <<registryVars, origin, user>>
  BY DEF Begin, Handle, HandOver, engineVars
<1>2. EngineTypes' /\ Cached' /\ (\A t \in Thread : Holding(t)') /\ Overfull'
  BY <1>1, QuietKeeps DEF EngineTypes
<1>3. \A s \in Slot : task[s] = "running" => task'[s] = "running" /\ kind'[s] = kind[s]
                                             /\ (s \in empty' => s \in empty)
  <2> USE DEF IInv, TypeOK
  <2>1. CASE Begin
    <3>1. queue # <<>> => task[Head(queue)] = "queued" /\ Head(queue) \in Slot
      BY HeadTailProperties, EmptySeq, LenProperties
    <3> QED BY <2>1, <3>1 DEF Begin, TaskStart, engineVars
  <2>2. ASSUME NEW r \in Slot, Handle(r)
        PROVE  \A s \in Slot : task[s] = "running" => task'[s] = "running" /\ kind'[s] = kind[s]
                                                      /\ (s \in empty' => s \in empty)
    <3>1. empty' = empty
      BY <2>2 DEF Handle, engineVars
    <3>2. ASSUME NEW e \in Kind, Admit(r, e) \/ Shed(r, e)
          PROVE  \A s \in Slot : task[s] = "running" => task'[s] = "running" /\ kind'[s] = kind[s]
      BY <3>2 DEF Admit, Shed, Idle
    <3>3. CASE BadBody(r) \/ Disconnect(r) \/ \E n \in BatchLen : RefuseBatch(r, n)
      BY <3>1, <3>3 DEF BadBody, Disconnect, RefuseBatch, Alive
    <3>4. CASE Respond(r)
      <4>1. task[r] # "running" /\ task' = [task EXCEPT ![r] = "none"] /\ kind' = kind
        BY <3>4, Zenon DEF Respond
      <4> QED BY <3>1, <4>1
    <3> QED BY <2>2, <3>1, <3>2, <3>3, <3>4 DEF Handle
  <2>3. ASSUME NEW r \in Slot, NEW n \in BatchLen, HandOver(r, n)
        PROVE  \A s \in Slot : task[s] = "running" => task'[s] = "running" /\ kind'[s] = kind[s]
                                                      /\ (s \in empty' => s \in empty)
    <3>1. task[r] = "none"
      BY <2>3 DEF HandOver, Spawn, SlotInv, Joined
    <3> QED BY <2>3, <3>1 DEF HandOver, Spawn
  <2> QED BY <2>1, <2>2, <2>3
<1>4. Inside'
  BY <1>1, <1>3 DEF Inside, registryVars
<1>5. Locked'
  <2> SUFFICES ASSUME NEW i \in Instance, user[i] # Unlocked
               PROVE  /\ stage[user[i]] = "using" /\ held[user[i]] = i
                      /\ Guarded(i) /\ user[i] \notin empty'
    BY <1>1 DEF Locked, Guarded, Backend, Instance, registryVars
  <2>1. user[i] \in Slot /\ stage[user[i]] = "using" /\ held[user[i]] = i
        /\ Guarded(i) /\ user[i] \notin empty
    BY DEF Locked, EngineTypes
  <2>2. task[user[i]] = "running"
    BY <2>1 DEF Inside
  <2> QED BY <2>1, <2>2, <1>3
<1> QED BY <1>2, <1>4, <1>5

-------------------------------------------------------------------------------
(* Steps of a thread that change its own place in the registry.            *)

(* What a step of one closure leaves of the others.                        *)
LEMMA OthersLocked ==
  ASSUME ServerInv, NEW r \in Thread,
         \A s \in Thread : s # r => stage'[s] = stage[s] /\ held'[s] = held[s],
         empty' \subseteq empty, UNCHANGED origin,
         user' \in [Instance -> Slot \cup {Unlocked}],
         \A i \in Instance : user'[i] # Unlocked => user'[i] = user[i] /\ user[i] # r
  PROVE  Locked'
<1> SUFFICES ASSUME NEW i \in Instance, user'[i] # Unlocked
             PROVE  /\ stage'[user'[i]] = "using" /\ held'[user'[i]] = i
                    /\ Guarded(i) /\ user'[i] \notin empty'
  BY DEF Locked, Guarded, Backend, Instance
<1>1. user'[i] = user[i] /\ user[i] # r /\ user[i] \in Thread
  BY DEF Thread
<1>2. stage[user[i]] = "using" /\ held[user[i]] = i /\ Guarded(i) /\ user[i] \notin empty
  BY <1>1 DEF ServerInv, Locked
<1> QED BY <1>1, <1>2

(* A thread that is not computing on an engine has none locked.            *)
LEMMA NotUser ==
  ASSUME ServerInv, NEW r \in Thread, stage[r] # "using"
  PROVE  \A i \in Instance : user[i] # Unlocked => user[i] # r
BY DEF ServerInv, Locked

(* The next name of the preload list, or the call of a closure.            *)
LEMMA CallKeeps ==
  ASSUME ServerInv, NEW t \in Thread, stage[t] = "idle",
         UNCHANGED <<models, lru, pinned, lock, held, loads>>,
         \/ UNCHANGED <<stage, want>>
         \/ \E k \in Name : /\ stage' = [stage EXCEPT ![t] = "touching"]
                            /\ want' = [want EXCEPT ![t] = k],
         UNCHANGED engineVars
  PROVE  EngineTypes' /\ Cached' /\ (\A u \in Thread : Holding(u)') /\ Overfull' /\ Locked'
<1> USE RegistryFacts DEF ServerInv, engineVars
<1>1. EngineTypes' /\ Cached'
  BY DEF EngineTypes, Cached, Instance
<1>2. \A u \in Thread : Holding(u)'
  BY DEF Holding, Owns
<1>3. Overfull'
  <2>1. lock # Unlocked => lock # t /\ lock \in Thread
    OBVIOUS
  <2> QED BY <2>1, OverfullKept
<1>4. Locked'
  <2>1. \A i \in Instance : user[i] # Unlocked => user[i] # t
    BY NotUser
  <2>2. \A s \in Thread : s # t => stage'[s] = stage[s] /\ held'[s] = held[s]
    OBVIOUS
  <2> QED BY <2>1, <2>2, OthersLocked DEF EngineTypes
<1> QED BY <1>1, <1>2, <1>3, <1>4

(* A load that fails, or the end of a call.                                *)
LEMMA LeaveKeeps ==
  ASSUME ServerInv, NEW t \in Thread, R!LoadFail(t) \/ R!Release(t), UNCHANGED origin
  PROVE  /\ Cached' /\ (\A u \in Thread : Holding(u)') /\ Overfull'
         /\ user' \in [Instance -> Slot \cup {Unlocked}] => EngineTypes'
         /\ stage'[t] = "idle"
         /\ \A s \in Thread : s # t => stage'[s] = stage[s] /\ held'[s] = held[s]
                                       /\ want'[s] = want[s]
<1> USE RegistryFacts DEF ServerInv
<1>1. /\ UNCHANGED <<models, lru, pinned, lock, loads>>
      /\ stage[t] \in {"loading", "using"}
      /\ stage' = [stage EXCEPT ![t] = "idle"]
      /\ want' = [want EXCEPT ![t] = NoKey]
      /\ held' = [held EXCEPT ![t] = 0]
  <2>1. CASE R!LoadFail(t)
    <3>1. held[t] = 0
      BY <2>1 DEF R!LoadFail, Holding, Owns
    <3> QED BY <2>1, <3>1 DEF R!LoadFail
  <2>2. CASE R!Release(t)
    BY <2>2 DEF R!Release
  <2> QED BY <2>1, <2>2
<1>2. Cached'
  BY <1>1 DEF Cached
<1>3. \A u \in Thread : Holding(u)'
  BY <1>1 DEF Holding, Owns
<1>4. Overfull'
  BY <1>1, OverfullKept
<1> QED BY <1>1, <1>2, <1>3, <1>4 DEF EngineTypes, Instance

(* A new instance: its number is new, so nothing else changes its name.    *)
LEMMA LoadKeeps ==
  ASSUME ServerInv, NEW t \in Thread, LoadEngine(t)
  PROVE  EngineTypes' /\ Cached' /\ (\A u \in Thread : Holding(u)') /\ Overfull'
         /\ Inside' /\ Locked'
<1> USE RegistryFacts, InstanceNumbers DEF ServerInv
<1>1. /\ stage[t] = "loading" /\ loads + 1 \in Instance /\ loads' = loads + 1
      /\ want[t] \in DOMAIN BackendOf /\ want[t] \in Name
      /\ origin' = [origin EXCEPT ![loads + 1] = want[t]]
      /\ held' = [held EXCEPT ![t] = loads + 1]
      /\ stage' = [stage EXCEPT ![t] = "inserting"]
      /\ UNCHANGED <<models, pinned, lock, want, user, empty, task, kind>>
  BY ServerAssumption DEF LoadEngine, R!Load, EngineTypes, Instance, BackendOf, vars
<1>2. EngineTypes'
  BY <1>1 DEF EngineTypes, Instance
<1>3. Cached'
  BY <1>1 DEF Cached, EngineTypes
<1>4. \A u \in Thread : Holding(u)'
  <2> SUFFICES ASSUME NEW u \in Thread PROVE Holding(u)'
    OBVIOUS
  <2>1. CASE u = t
    BY <1>1, <2>1 DEF Holding, Owns, EngineTypes, Instance
  <2>2. CASE u # t
    <3>1. stage'[u] = stage[u] /\ held'[u] = held[u] /\ want'[u] = want[u]
      BY <1>1, <2>2
    <3>2. Holding(u)
      OBVIOUS
    <3>3. Owns(u) => held[u] \in 1 .. loads + 1 /\ held[u] # loads + 1
      BY <3>2 DEF Holding
    <3>4. Owns(u) => origin'[held[u]] = origin[held[u]]
      BY <1>1, <3>3, <3>2 DEF EngineTypes, Holding
    <3> QED BY <1>1, <3>1, <3>2, <3>3, <3>4 DEF Holding, Owns
  <2> QED BY <2>1, <2>2
<1>5. Overfull'
  BY <1>1, OverfullKept
<1>6. Inside'
  BY <1>1 DEF Inside, Thread
<1>7. Locked'
  <2> SUFFICES ASSUME NEW i \in Instance, user[i] # Unlocked
               PROVE  /\ stage'[user[i]] = "using" /\ held'[user[i]] = i
                      /\ Guarded(i)' /\ user[i] \notin empty
    BY <1>1 DEF Locked, Instance
  <2>1. user[i] \in Thread /\ stage[user[i]] = "using" /\ held[user[i]] = i
        /\ Guarded(i) /\ user[i] \notin empty
    BY DEF Locked, EngineTypes, Thread
  <2>2. user[i] # t /\ i # loads + 1
    <3>1. Holding(user[i])
      BY <2>1
    <3>2. i \in 1 .. loads
      BY <2>1, <3>1 DEF Holding, Owns
    <3> QED BY <1>1, <2>1, <3>2
  <2>3. Guarded(i)'
    <3>1. origin'[i] = origin[i]
      BY <1>1, <2>2 DEF EngineTypes
    <3> QED BY <2>1, <3>1 DEF Guarded, Backend
  <2> QED BY <1>1, <2>1, <2>2, <2>3
<1> QED BY <1>2, <1>3, <1>4, <1>5, <1>6, <1>7

-------------------------------------------------------------------------------
(* The steps of a closure.                                                 *)

(* When a closure ends, its call has ended; the others go on.              *)
LEMMA EndInside ==
  ASSUME ServerInv, NEW r \in Slot, NEW result, EndAs(r, result),
         stage'[r] = "idle",
         \A s \in Thread : s # r => stage'[s] = stage[s] /\ want'[s] = want[s]
  PROVE  Inside'
<1>1. \A s \in Slot : s # r => task'[s] = task[s]
  BY DEF EndAs, TaskEnd, ServerInv, IInv, TypeOK
<1>2. kind' = kind
  BY DEF EndAs, TaskEnd
<1> QED BY <1>1, <1>2 DEF Inside, ServerInv, Thread

LEMMA FinishKeeps ==
  ASSUME ServerInv, NEW r \in Slot, NEW result, Finish(r, result), UNCHANGED origin,
         \/ user' = user /\ \A i \in Instance : user[i] # r
         \/ user' = [user EXCEPT ![held[r]] = Unlocked] /\ user[held[r]] = r
  PROVE  EngineTypes' /\ Cached' /\ (\A u \in Thread : Holding(u)') /\ Overfull'
         /\ Inside' /\ Locked'
<1> USE DEF ServerInv
<1>1. r \in Thread /\ R!Release(r) /\ EndAs(r, result)
  BY DEF Finish, Thread
<1>2. user' \in [Instance -> Slot \cup {Unlocked}]
  BY DEF EngineTypes
<1>3. /\ Cached' /\ (\A u \in Thread : Holding(u)') /\ Overfull' /\ EngineTypes'
      /\ stage'[r] = "idle"
      /\ \A s \in Thread : s # r => stage'[s] = stage[s] /\ held'[s] = held[s]
                                    /\ want'[s] = want[s]
  BY <1>1, <1>2, LeaveKeeps
<1>4. Inside'
  BY <1>1, <1>3, EndInside
<1>5. \A i \in Instance : user'[i] # Unlocked => user'[i] = user[i] /\ user[i] # r
  <2> SUFFICES ASSUME NEW i \in Instance, user'[i] # Unlocked
               PROVE  user'[i] = user[i] /\ user[i] # r
    OBVIOUS
  <2>1. user[i] = r => held[r] = i
    BY ServerAssumption DEF Locked
  <2> QED BY <2>1 DEF EngineTypes
<1>6. empty' \subseteq empty
  BY <1>1 DEF EndAs
<1>7. Locked'
  BY <1>1, <1>2, <1>3, <1>5, <1>6, OthersLocked
<1> QED BY <1>3, <1>4, <1>7

LEMMA ClosureKeeps ==
  ASSUME ServerInv, NEW r \in Slot, Closure(r)
  PROVE  EngineTypes' /\ Cached' /\ (\A u \in Thread : Holding(u)') /\ Overfull'
         /\ Inside' /\ Locked'
<1> USE RegistryFacts DEF ServerInv
<1>0. r \in Thread
  BY DEF Thread
<1>1. CASE Refuse(r)
  <2>1. UNCHANGED <<registryVars, origin, user>> /\ stage[r] = "idle"
    BY <1>1 DEF Refuse
  <2>2. PICK result : EndAs(r, result)
    BY <1>1 DEF Refuse
  <2>3. EngineTypes' /\ Cached' /\ (\A u \in Thread : Holding(u)') /\ Overfull'
    BY <2>1, QuietKeeps DEF EngineTypes
  <2>4. Inside'
    BY <2>1, <2>2, EndInside DEF registryVars
  <2>5. \A i \in Instance : user[i] # Unlocked => user[i] # r
    BY <1>0, <2>1, NotUser
  <2>6. Locked'
    BY <1>0, <2>1, <2>2, <2>5, OthersLocked DEF EngineTypes, EndAs, registryVars
  <2> QED BY <2>3, <2>4, <2>6
<1>2. ASSUME NEW k \in Name, LookUp(r, k)
      PROVE  EngineTypes' /\ Cached' /\ (\A u \in Thread : Holding(u)') /\ Overfull'
             /\ Inside' /\ Locked'
  <2>1. /\ stage[r] = "idle" /\ UNCHANGED <<models, lru, pinned, lock, held, loads>>
        /\ stage' = [stage EXCEPT ![r] = "touching"]
        /\ want' = [want EXCEPT ![r] = k]
        /\ UNCHANGED engineVars
        /\ UNCHANGED <<task, kind>> /\ task[r] = "running"
        /\ kind[r] = "media" => k \in MediaNames
    BY <1>2 DEF LookUp, R!Call, vars
  <2>2. EngineTypes' /\ Cached' /\ (\A u \in Thread : Holding(u)') /\ Overfull' /\ Locked'
    BY <1>0, <2>1, CallKeeps
  <2>3. Inside'
    BY <1>0, <2>1 DEF Inside, Thread
  <2> QED BY <2>2, <2>3
<1>3. CASE Fetch(r)
  BY <1>0, <1>3, FetchKeeps, FetchOverfull, FetchInside
<1>4. CASE LoadEngine(r)
  BY <1>0, <1>4, LoadKeeps
<1>5. CASE LoadError(r)
  <2>1. R!LoadFail(r) /\ EndAs(r, "failed") /\ UNCHANGED <<origin, user>> /\ stage[r] = "loading"
    BY <1>5 DEF LoadError, R!LoadFail
  <2>2. /\ Cached' /\ (\A u \in Thread : Holding(u)') /\ Overfull' /\ EngineTypes'
        /\ stage'[r] = "idle"
        /\ \A s \in Thread : s # r => stage'[s] = stage[s] /\ held'[s] = held[s]
                                      /\ want'[s] = want[s]
    BY <1>0, <2>1, LeaveKeeps DEF EngineTypes
  <2>3. Inside'
    BY <2>1, <2>2, EndInside
  <2>4. \A i \in Instance : user[i] # Unlocked => user[i] # r
    BY <1>0, <2>1, NotUser
  <2>5. Locked'
    BY <1>0, <2>1, <2>2, <2>4, OthersLocked DEF EngineTypes, EndAs
  <2> QED BY <2>2, <2>3, <2>5
<1>6. CASE NothingToDo(r)
  <2>1. Finish(r, "ok") /\ UNCHANGED <<origin, user>> /\ r \in empty
    BY <1>6 DEF NothingToDo
  <2>2. \A i \in Instance : user[i] # r
    BY <2>1, ServerAssumption DEF Locked
  <2> QED BY <2>1, <2>2, FinishKeeps
<1>7. CASE Compute(r)
  <2>1. UNCHANGED <<origin, user>> /\ ~ Guarded(held[r]) /\ \E result : Finish(r, result)
    BY <1>7 DEF Compute
  <2>2. \A i \in Instance : user[i] # r
    BY <2>1, ServerAssumption DEF Locked
  <2> QED BY <2>1, <2>2, FinishKeeps
<1>8. CASE LockEngine(r)
  <2>1. /\ stage[r] = "using" /\ r \notin empty /\ Guarded(held[r])
        /\ user[held[r]] = Unlocked /\ UNCHANGED origin
    BY <1>8 DEF LockEngine, Busy
  <2>2. CASE held[r] \in broken
    <3>1. user' = user /\ \E result : Finish(r, result)
      BY <1>8, <2>2 DEF LockEngine
    <3>2. \A i \in Instance : user[i] # r
      BY <2>1, ServerAssumption DEF Locked
    <3> QED BY <2>1, <3>1, <3>2, FinishKeeps
  <2>3. CASE held[r] \notin broken
    <3>1. /\ user' = [user EXCEPT ![held[r]] = r]
          /\ UNCHANGED <<vars, registryVars, empty>>
      BY <1>8, <2>3 DEF LockEngine
    <3>2. EngineTypes' /\ Cached' /\ (\A u \in Thread : Holding(u)') /\ Overfull'
      <4>1. user' \in [Instance -> Slot \cup {Unlocked}]
        BY <3>1 DEF EngineTypes
      <4> QED BY <2>1, <3>1, <4>1, QuietKeeps
    <3>3. Inside'
      BY <3>1 DEF Inside, vars, registryVars
    <3>4. Locked'
      <4> SUFFICES ASSUME NEW i \in Instance, user'[i] # Unlocked
                   PROVE  /\ stage'[user'[i]] = "using" /\ held'[user'[i]] = i
                          /\ Guarded(i)' /\ user'[i] \notin empty'
        BY DEF Locked, Instance
      <4>1. stage' = stage /\ held' = held /\ empty' = empty /\ Guarded(i)' = Guarded(i)
        BY <2>1, <3>1 DEF registryVars, Guarded, Backend
      <4>2. CASE i = held[r]
        BY <2>1, <3>1, <4>1, <4>2 DEF EngineTypes
      <4>3. CASE i # held[r]
        BY <2>1, <3>1, <4>1, <4>3 DEF EngineTypes, Locked
      <4> QED BY <4>2, <4>3
    <3> QED BY <3>2, <3>3, <3>4
  <2> QED BY <2>2, <2>3
<1>9. CASE ComputeGuarded(r) \/ Break(r)
  <2>1. /\ UNCHANGED origin /\ user[held[r]] = r
        /\ user' = [user EXCEPT ![held[r]] = Unlocked]
        /\ \E result : Finish(r, result)
    BY <1>9 DEF ComputeGuarded, Break, Using
  <2> QED BY <2>1, FinishKeeps
<1> QED BY <1>1, <1>2, <1>3, <1>4, <1>5, <1>6, <1>7, <1>8, <1>9 DEF Closure

-------------------------------------------------------------------------------
(* The invariant is inductive.                                             *)

LEMMA ServerInitInv == ServerInit => ServerInv
<1> SUFFICES ASSUME ServerInit PROVE ServerInv
  OBVIOUS
<1>1. IInv
  BY InitIInv DEF ServerInit
<1>2. RP!IInv
  BY RegistryInit DEF ServerInit
<1>3. EngineTypes
  BY ServerAssumption DEF ServerInit, R!Init, EngineTypes
<1>4. Cached /\ (\A t \in Thread : Holding(t)) /\ Overfull
  BY DEF ServerInit, R!Init, R!Thread, Thread, Cached, Holding, Owns, Overfull
<1>5. Inside /\ Locked
  BY DEF ServerInit, R!Init, R!Thread, Inside, Locked
<1> QED BY <1>1, <1>2, <1>3, <1>4, <1>5 DEF ServerInv

(* What ServerInv says beyond the two parts.                               *)
Composed ==
  /\ EngineTypes /\ Cached /\ (\A t \in Thread : Holding(t))
  /\ Overfull /\ Inside /\ Locked

LEMMA ComposedKept == ServerInv /\ [ServerNext]_serverVars => Composed'
<1> SUFFICES ASSUME ServerInv, [ServerNext]_serverVars PROVE Composed'
  OBVIOUS
<1> USE RegistryFacts DEF Composed
<1>1. CASE Boot
  <2>0. Main \in Thread /\ UNCHANGED engineVars /\ UNCHANGED vars
    BY <1>1 DEF Boot, Thread
  <2>1. CASE R!PreloadNext
    <3>1. /\ stage[Main] = "idle" /\ UNCHANGED <<models, lru, pinned, lock, held, loads>>
          /\ \/ UNCHANGED <<stage, want>>
             \/ \E k \in Name : /\ stage' = [stage EXCEPT ![Main] = "touching"]
                                /\ want' = [want EXCEPT ![Main] = k]
      <4>1. boot \in 1 .. Len(Preload) => Preload[boot] \in Name
        BY ServerAssumption, ElementOfSeq
      <4> QED BY <2>1, <4>1 DEF R!PreloadNext
    <3>2. EngineTypes' /\ Cached' /\ (\A u \in Thread : Holding(u)') /\ Overfull' /\ Locked'
      BY <2>0, <3>1, CallKeeps
    <3>3. Inside'
      BY <2>0, <3>1, ServerAssumption DEF ServerInv, Inside, Thread, vars
    <3> QED BY <3>2, <3>3
  <2>2. CASE R!LoadFail(Main) \/ R!Release(Main)
    <3>1. /\ Cached' /\ (\A u \in Thread : Holding(u)') /\ Overfull' /\ EngineTypes'
          /\ \A s \in Thread : s # Main => stage'[s] = stage[s] /\ held'[s] = held[s]
                                           /\ want'[s] = want[s]
      BY <2>0, <2>2, LeaveKeeps DEF ServerInv, EngineTypes, engineVars
    <3>2. \A i \in Instance : user[i] # Unlocked => user[i] # Main
      BY ServerAssumption DEF ServerInv, EngineTypes
    <3>3. Locked'
      BY <2>0, <3>1, <3>2, OthersLocked DEF ServerInv, EngineTypes, engineVars
    <3>4. Inside'
      BY <2>0, <3>1, ServerAssumption DEF ServerInv, Inside, Thread, vars
    <3> QED BY <3>1, <3>3, <3>4
  <2> QED BY <1>1, <2>1, <2>2 DEF Boot
<1>2. CASE Fetch(Main) \/ LoadEngine(Main)
  BY <1>2, FetchKeeps, FetchOverfull, FetchInside, LoadKeeps DEF Thread
<1>3. CASE Begin \/ \E r \in Slot : Handle(r) \/ \E n \in BatchLen : HandOver(r, n)
  BY <1>3, AdmissionKeeps
<1>4. ASSUME NEW r \in Slot, Closure(r) PROVE Composed'
  BY <1>4, ClosureKeeps
<1>5. CASE UNCHANGED serverVars
  <2>1. EngineTypes' /\ Cached' /\ (\A u \in Thread : Holding(u)') /\ Overfull'
    BY <1>5, QuietKeeps DEF serverVars, engineVars, ServerInv, EngineTypes
  <2>2. Inside' /\ Locked'
    BY <1>5 DEF serverVars, engineVars, vars, registryVars, ServerInv, Inside, Locked,
                Guarded, Backend, Instance
  <2> QED BY <2>1, <2>2
<1> QED BY <1>1, <1>2, <1>3, <1>4, <1>5 DEF ServerNext

LEMMA ServerNextInv == ServerInv /\ [ServerNext]_serverVars => ServerInv'
<1> SUFFICES ASSUME ServerInv, [ServerNext]_serverVars PROVE ServerInv'
  OBVIOUS
<1>1. IInv'
  <2>1. [Next]_vars
    BY AdmissionStep DEF serverVars
  <2> QED BY <2>1, NextIInv DEF ServerInv
<1>2. RP!IInv'
  <2>1. [R!Next]_registryVars
    BY RegistryStep DEF serverVars
  <2> QED BY <2>1, RegistryKept DEF ServerInv
<1> QED BY <1>1, <1>2, ComposedKept DEF ServerInv, Composed

(* The invariant holds of every reachable state of the server.             *)
THEOREM ServerInvariant == ServerSpec => []ServerInv
<1> QED BY ServerInitInv, ServerNextInv, PTL DEF ServerSpec

-------------------------------------------------------------------------------
(* What the runs check, for every instance.                                *)

(* The permits of the server are conserved while closures look models up,  *)
(* load them, wait for each other, fail and panic.                         *)
THEOREM ServerPermits == ServerSpec => []PermitConservation
<1>1. ServerInv => PermitConservation
  BY DEF ServerInv, IInv
<1> QED BY <1>1, ServerInvariant, PTL

(* Media closures, and text closures somebody waits for, hold a permit     *)
(* each, so there are at most max_inflight of them in the whole server.    *)
THEOREM ServerWork == ServerSpec => []WorkBounded
<1>1. ServerInv => WorkBounded
  BY WorkFollows DEF ServerInv
<1> QED BY <1>1, ServerInvariant, PTL

(* A mutex of an engine is never left behind: whoever has it is a closure  *)
(* that computes on this engine, also after panics and failures.           *)
THEOREM NoMutexLeft ==
  ServerSpec => [](\A i \in Instance : user[i] # Unlocked => task[user[i]] = "running" /\ Using(user[i]))
<1>1. ServerInv =>
        \A i \in Instance : user[i] # Unlocked => task[user[i]] = "running" /\ Using(user[i])
  BY DEF ServerInv, EngineTypes, Locked, Inside, Using
<1> QED BY <1>1, ServerInvariant, PTL

(* The cached models that count against the capacity; the one a thread in  *)
(* evict has just inserted counts for the thread.                          *)
Kept == IF lock = Unlocked THEN RP!Loaded ELSE Others(lock)

LEMMA KeptFits ==
  ASSUME ServerInv, MaxLoaded # 0
  PROVE  IsFiniteSet(Kept) /\ Cardinality(Kept) \in Nat
         /\ Capacity \in Nat /\ Cardinality(Kept) <= Capacity
<1> USE DEF ServerInv
<1>1. /\ IsFiniteSet(Kept) /\ IsFiniteSet(pinned)
      /\ Cardinality(Kept) \in Nat /\ Cardinality(pinned) \in Nat
  BY OthersFinite DEF Kept
<1>2. Kept \subseteq pinned \/ Cardinality(Kept) <= MaxLoaded
  <2>1. CASE lock = Unlocked
    <3>1. \A S : RP!Cardinality(S) = Cardinality(S)
      BY DEF RP!Cardinality, Cardinality
    <3> QED BY <2>1, <3>1 DEF Kept, RP!IInv, RP!WithinCapacity
  <2>2. CASE lock # Unlocked
    BY <2>2 DEF Kept, Overfull
  <2> QED BY <2>1, <2>2
<1>3. Kept \subseteq pinned => Cardinality(Kept) <= Cardinality(pinned)
  BY <1>1, FS_Subset
<1> HIDE DEF Kept
<1> QED BY <1>1, <1>2, <1>3, ServerAssumption DEF Capacity

(* The models in memory are those that may be cached and one for each      *)
(* thread of the pool that runs a closure: an evicted model stays only as  *)
(* long as somebody computes on it.                                        *)
THEOREM ResidentFew == ServerSpec => []ResidentBounded
<1>1. ServerInv => ResidentBounded
  <2> SUFFICES ASSUME ServerInv, R!Serving, MaxLoaded # 0
               PROVE  Cardinality(Resident) <= Capacity + Cardinality(Running)
    BY DEF ResidentBounded
  <2> USE RegistryFacts DEF ServerInv
  <2> DEFINE inCache == {models[k] : k \in Kept}
             inHand == {held[r] : r \in Running}
  <2>1. IsFiniteSet(Running)
    BY AdmissionAssumption, FS_Subset DEF Running
  <2>2. held[Main] = 0
    BY RegistryCalls DEF Holding, Owns, Thread, RP!IInv, RP!BootInv
  <2>3. \A r \in Slot : held[r] # 0 => r \in Running
    BY DEF Holding, Owns, Inside, Thread, Running
  <2>4. Resident \subseteq inCache \cup inHand
    <3> SUFFICES ASSUME NEW i \in Resident PROVE i \in inCache \cup inHand
      OBVIOUS
    <3>1. i # 0
      BY DEF Resident, Instance
    <3>2. CASE \E r \in Slot : held[r] = i
      BY <2>3, <3>1, <3>2
    <3>3. ASSUME NEW k \in Name, models[k] = i PROVE i \in inCache \cup inHand
      <4>1. CASE k \in Kept
        BY <3>3, <4>1
      <4>2. CASE k \notin Kept
        <5>1. lock # Unlocked /\ k = want[lock] /\ lock \in Thread
          BY <3>1, <3>3, <4>2 DEF Kept, Others, RP!Loaded
        <5>2. held[lock] = i
          BY <3>1, <3>3, <5>1 DEF Overfull
        <5>3. lock \in Slot
          BY <2>2, <3>1, <5>1, <5>2 DEF Thread
        <5> QED BY <2>3, <3>1, <5>2, <5>3
      <4> QED BY <4>1, <4>2
    <3> QED BY <2>2, <3>1, <3>2, <3>3 DEF Resident
  <2>5. IsFiniteSet(Kept) /\ Cardinality(Kept) \in Nat
        /\ Capacity \in Nat /\ Cardinality(Kept) <= Capacity
    BY KeptFits
  <2>6. IsFiniteSet(inCache) /\ Cardinality(inCache) <= Cardinality(Kept)
    <3>1. [k \in Kept |-> models[k]] \in Surjection(Kept, inCache)
      BY DEF Surjection
    <3> HIDE DEF inCache
    <3> QED BY <2>5, <3>1, FS_Surjection
  <2>7. IsFiniteSet(inHand) /\ Cardinality(inHand) <= Cardinality(Running)
    <3>1. [r \in Running |-> held[r]] \in Surjection(Running, inHand)
      BY DEF Surjection
    <3> HIDE DEF inHand
    <3> QED BY <2>1, <3>1, FS_Surjection
  <2> HIDE DEF inCache, inHand
  <2>8. Cardinality(inCache \cup inHand) <= Cardinality(inCache) + Cardinality(inHand)
        /\ IsFiniteSet(inCache \cup inHand)
    <3>1. /\ IsFiniteSet(inCache \cup inHand)
          /\ Cardinality(inCache \cup inHand)
               = Cardinality(inCache) + Cardinality(inHand) - Cardinality(inCache \cap inHand)
      BY <2>6, <2>7, FS_Union
    <3>2. Cardinality(inCache \cap inHand) \in Nat
      BY <2>6, FS_Subset, FS_CardinalityType
    <3>3. Cardinality(inCache) \in Nat /\ Cardinality(inHand) \in Nat
      BY <2>6, <2>7, FS_CardinalityType
    <3> QED BY <3>1, <3>2, <3>3
  <2>9. Cardinality(Resident) <= Cardinality(inCache \cup inHand)
    BY <2>4, <2>8, FS_Subset
  <2>10. /\ Cardinality(Resident) \in Nat /\ Cardinality(inCache \cup inHand) \in Nat
         /\ Cardinality(inCache) \in Nat /\ Cardinality(inHand) \in Nat
         /\ Cardinality(Running) \in Nat
    BY <2>1, <2>4, <2>6, <2>7, <2>8, FS_Subset, FS_CardinalityType
  <2> HIDE DEF Resident, Running, Kept, Capacity
  <2> QED BY <2>5, <2>6, <2>7, <2>8, <2>9, <2>10
<1> QED BY <1>1, ServerInvariant, PTL

-------------------------------------------------------------------------------
(* The catalog: what ListedLoads says of its tables, for every choice of   *)
(* features.                                                               *)

(* The empty string stands for no variant; no prover has a rule for it, so *)
(* that its name is what they see.                                         *)
Blank == ""

(* A row of the dense table, taken apart.                                  *)
CodeOf(i) == DenseModels[i].code

VariantOf(i) == DenseModels[i].variant

EngineOf(i) == DenseModels[i].backend

(* The codes of the dense table.                                           *)
LEMMA CodesAre ==
  /\ CodeOf(1) = "Qdrant/all-MiniLM-L6-v2-onnx"
  /\ CodeOf(2) = "Xenova/all-MiniLM-L6-v2"
  /\ CodeOf(3) = "Xenova/all-MiniLM-L12-v2"
  /\ CodeOf(4) = "Xenova/all-mpnet-base-v2"
  /\ CodeOf(5) = "Xenova/bge-small-en-v1.5"
  /\ CodeOf(6) = "Xenova/bge-base-en-v1.5"
  /\ CodeOf(7) = "Xenova/bge-large-en-v1.5"
  /\ CodeOf(8) = "Xenova/bge-small-zh-v1.5"
  /\ CodeOf(9) = "Xenova/bge-large-zh-v1.5"
  /\ CodeOf(10) = "BAAI/bge-m3"
  /\ CodeOf(11) = "Alibaba-NLP/gte-base-en-v1.5"
  /\ CodeOf(12) = "Alibaba-NLP/gte-large-en-v1.5"
  /\ CodeOf(13) = "nomic-ai/nomic-embed-text-v1"
  /\ CodeOf(14) = "nomic-ai/nomic-embed-text-v1.5"
  /\ CodeOf(15) = "mixedbread-ai/mxbai-embed-large-v1"
  /\ CodeOf(16) = "lightonai/modernbert-embed-large"
  /\ CodeOf(17) = "intfloat/multilingual-e5-small"
  /\ CodeOf(18) = "intfloat/multilingual-e5-base"
  /\ CodeOf(19) = "Qdrant/multilingual-e5-large-onnx"
  /\ CodeOf(20) = "Qdrant/paraphrase-multilingual-MiniLM-L12-v2-onnx-Q"
  /\ CodeOf(21) = "Xenova/paraphrase-multilingual-mpnet-base-v2"
  /\ CodeOf(22) = "jinaai/jina-embeddings-v2-base-code"
  /\ CodeOf(23) = "jinaai/jina-embeddings-v2-base-en"
  /\ CodeOf(24) = "onnx-community/embeddinggemma-300m-ONNX"
  /\ CodeOf(25) = "google/embeddinggemma-2"
  /\ CodeOf(26) = "vqtrs/embeddinggemma-2-coreml-fp16-3f978ddf"
  /\ CodeOf(27) = "vqtrs/embeddinggemma-2-mlx-regular-bf16-4f4634bb"
  /\ CodeOf(28) = "snowflake/snowflake-arctic-embed-xs"
  /\ CodeOf(29) = "Snowflake/snowflake-arctic-embed-m"
  /\ CodeOf(30) = "snowflake/snowflake-arctic-embed-l"
  /\ CodeOf(31) = "Qwen/Qwen3-Embedding-0.6B"
  /\ CodeOf(32) = "Qwen/Qwen3-Embedding-4B"
  /\ CodeOf(33) = "Qwen/Qwen3-Embedding-8B"
BY DEF DenseModels, Row, CodeOf

(* Its variants.                                                           *)
LEMMA VariantsAre ==
  /\ VariantOf(1) = "AllMiniLML6V2" /\ VariantOf(1) # Blank
  /\ VariantOf(2) = "AllMiniLML6V2Q" /\ VariantOf(2) # Blank
  /\ VariantOf(3) = "AllMiniLML12V2" /\ VariantOf(3) # Blank
  /\ VariantOf(4) = "AllMpnetBaseV2" /\ VariantOf(4) # Blank
  /\ VariantOf(5) = "BGESmallENV15" /\ VariantOf(5) # Blank
  /\ VariantOf(6) = "BGEBaseENV15" /\ VariantOf(6) # Blank
  /\ VariantOf(7) = "BGELargeENV15" /\ VariantOf(7) # Blank
  /\ VariantOf(8) = "BGESmallZHV15" /\ VariantOf(8) # Blank
  /\ VariantOf(9) = "BGELargeZHV15" /\ VariantOf(9) # Blank
  /\ VariantOf(10) = "BGEM3" /\ VariantOf(10) # Blank
  /\ VariantOf(11) = "GTEBaseENV15" /\ VariantOf(11) # Blank
  /\ VariantOf(12) = "GTELargeENV15" /\ VariantOf(12) # Blank
  /\ VariantOf(13) = "NomicEmbedTextV1" /\ VariantOf(13) # Blank
  /\ VariantOf(14) = "NomicEmbedTextV15" /\ VariantOf(14) # Blank
  /\ VariantOf(15) = "MxbaiEmbedLargeV1" /\ VariantOf(15) # Blank
  /\ VariantOf(16) = "ModernBertEmbedLarge" /\ VariantOf(16) # Blank
  /\ VariantOf(17) = "MultilingualE5Small" /\ VariantOf(17) # Blank
  /\ VariantOf(18) = "MultilingualE5Base" /\ VariantOf(18) # Blank
  /\ VariantOf(19) = "MultilingualE5Large" /\ VariantOf(19) # Blank
  /\ VariantOf(20) = "ParaphraseMLMiniLML12V2" /\ VariantOf(20) # Blank
  /\ VariantOf(21) = "ParaphraseMLMpnetBaseV2" /\ VariantOf(21) # Blank
  /\ VariantOf(22) = "JinaEmbeddingsV2BaseCode" /\ VariantOf(22) # Blank
  /\ VariantOf(23) = "JinaEmbeddingsV2BaseEN" /\ VariantOf(23) # Blank
  /\ VariantOf(24) = "EmbeddingGemma300M" /\ VariantOf(24) # Blank
  /\ VariantOf(25) = Blank
  /\ VariantOf(26) = Blank
  /\ VariantOf(27) = Blank
  /\ VariantOf(28) = "SnowflakeArcticEmbedXS" /\ VariantOf(28) # Blank
  /\ VariantOf(29) = "SnowflakeArcticEmbedM" /\ VariantOf(29) # Blank
  /\ VariantOf(30) = "SnowflakeArcticEmbedL" /\ VariantOf(30) # Blank
  /\ VariantOf(31) = Blank
  /\ VariantOf(32) = Blank
  /\ VariantOf(33) = Blank
BY DEF DenseModels, Row, VariantOf, Blank

(* Its backends.                                                           *)
LEMMA EnginesAre ==
  /\ EngineOf(1) = "Onnx"
  /\ EngineOf(2) = "Onnx"
  /\ EngineOf(3) = "Onnx"
  /\ EngineOf(4) = "Onnx"
  /\ EngineOf(5) = "Onnx"
  /\ EngineOf(6) = "Onnx"
  /\ EngineOf(7) = "Onnx"
  /\ EngineOf(8) = "Onnx"
  /\ EngineOf(9) = "Onnx"
  /\ EngineOf(10) = "Onnx"
  /\ EngineOf(11) = "Onnx"
  /\ EngineOf(12) = "Onnx"
  /\ EngineOf(13) = "Onnx"
  /\ EngineOf(14) = "Onnx"
  /\ EngineOf(15) = "Onnx"
  /\ EngineOf(16) = "Onnx"
  /\ EngineOf(17) = "Onnx"
  /\ EngineOf(18) = "Onnx"
  /\ EngineOf(19) = "Onnx"
  /\ EngineOf(20) = "Onnx"
  /\ EngineOf(21) = "Onnx"
  /\ EngineOf(22) = "Onnx"
  /\ EngineOf(23) = "Onnx"
  /\ EngineOf(24) = "Onnx"
  /\ EngineOf(25) = "EmbeddingGemma2"
  /\ EngineOf(26) = "EmbeddingGemma2CoreMl"
  /\ EngineOf(27) = "EmbeddingGemma2Mlx"
  /\ EngineOf(28) = "Onnx"
  /\ EngineOf(29) = "Onnx"
  /\ EngineOf(30) = "Onnx"
  /\ EngineOf(31) = "Qwen3"
  /\ EngineOf(32) = "Qwen3"
  /\ EngineOf(33) = "Qwen3"
BY DEF DenseModels, Row, EngineOf

(* The rows of the dense table, one by one.                                *)
LEMMA OneOf33 ==
  \A i \in 1 .. 33 :
    \/ i = 1 \/ i = 2 \/ i = 3 \/ i = 4 \/ i = 5 \/ i = 6 \/ i = 7 \/ i = 8 \/ i = 9
    \/ i = 10 \/ i = 11 \/ i = 12 \/ i = 13 \/ i = 14 \/ i = 15 \/ i = 16 \/ i = 17 \/ i = 18
    \/ i = 19 \/ i = 20 \/ i = 21 \/ i = 22 \/ i = 23 \/ i = 24 \/ i = 25 \/ i = 26 \/ i = 27
    \/ i = 28 \/ i = 29 \/ i = 30 \/ i = 31 \/ i = 32 \/ i = 33
OBVIOUS

(* Exactly the rows with a variant are for ONNX Runtime, and no model is   *)
(* called as a failed lookup is.                                           *)
LEMMA DenseEngines ==
  ASSUME NEW i \in 1 .. 33
  PROVE  /\ VariantOf(i) = Blank <=> EngineOf(i) # "Onnx"
         /\ EngineOf(i) \in {"Onnx", "Qwen3"} \cup Multimodal
         /\ CodeOf(i) # None
<1>1. VariantOf(i) = Blank <=> EngineOf(i) # "Onnx"
  BY ONLY VariantsAre, EnginesAre, OneOf33, i \in 1 .. 33, SMTT(30)
<1>2. EngineOf(i) \in {"Onnx", "Qwen3"} \cup Multimodal
  BY ONLY EnginesAre, OneOf33, i \in 1 .. 33, SMTT(30) DEF Multimodal
<1>3. CodeOf(i) # None
  BY ONLY CodesAre, OneOf33, i \in 1 .. 33, SMTT(30) DEF None
<1> QED BY ONLY <1>1, <1>2, <1>3

(* No two rows of the dense table share a name.                            *)
LEMMA DenseNames ==
  ASSUME NEW i \in 1 .. 33, NEW j \in 1 .. 33
  PROVE  /\ CodeOf(i) = CodeOf(j) => i = j
         /\ VariantOf(i) = VariantOf(j) => i = j \/ VariantOf(i) = Blank
         /\ CodeOf(i) = VariantOf(j) => VariantOf(j) = Blank
<1>1. CodeOf(i) = CodeOf(j) => i = j
  BY ONLY CodesAre, OneOf33, i \in 1 .. 33, j \in 1 .. 33, SMTT(60)
<1>2. VariantOf(i) = VariantOf(j) => i = j \/ VariantOf(i) = Blank
  BY ONLY VariantsAre, OneOf33, i \in 1 .. 33, j \in 1 .. 33, SMTT(60)
<1>3. CodeOf(i) = VariantOf(j) => VariantOf(j) = Blank
  BY ONLY CodesAre, VariantsAre, OneOf33, i \in 1 .. 33, j \in 1 .. 33, SMTT(60)
<1> QED BY ONLY <1>1, <1>2, <1>3

(* Names of the other tables: only the two of BGE-M3 are in the dense one. *)
OtherNames ==
  {"Qdrant/Splade_PP_en_v1", "SPLADEPPV1",
   "BAAI/bge-reranker-base", "BGERerankerBase",
   "rozgo/bge-reranker-v2-m3", "BGERerankerV2M3",
   "jinaai/jina-reranker-v1-turbo-en", "JINARerankerV1TurboEn",
   "jinaai/jina-reranker-v2-base-multilingual", "JINARerankerV2BaseMultiligual"}

LEMMA OtherNamesElsewhere ==
  ASSUME NEW i \in 1 .. 33
  PROVE  CodeOf(i) \notin OtherNames /\ (VariantOf(i) \notin OtherNames \/ VariantOf(i) = Blank)
<1>1. CodeOf(i) \notin OtherNames
  BY ONLY CodesAre, OneOf33, i \in 1 .. 33, SMTT(60) DEF OtherNames
<1>2. VariantOf(i) \notin OtherNames \/ VariantOf(i) = Blank
  BY ONLY VariantsAre, OneOf33, i \in 1 .. 33, SMTT(60) DEF OtherNames
<1> QED BY ONLY <1>1, <1>2

(* Find returns the row that answers if none before it does.               *)
LEMMA FindsFirst ==
  ASSUME NEW table, Len(table) \in Nat, NEW name, NEW i \in 1 .. Len(table),
         Answers(table[i], name), \A j \in 1 .. i - 1 : ~ Answers(table[j], name)
  PROVE  Find(table, name) = <<table[i]>>
<1> DEFINE I == {j \in 1 .. Len(table) : Answers(table[j], name)}
           first == CHOOSE x \in I : \A y \in I : x <= y
<1>1. i \in I /\ \A y \in I : i <= y
  OBVIOUS
<1>2. first \in I /\ \A y \in I : first <= y
  <2> HIDE DEF I
  <2> QED BY <1>1
<1>3. first = i
  <2>1. first <= i /\ i <= first
    BY ONLY <1>1, <1>2
  <2>2. first \in 1 .. Len(table)
    <3> HIDE DEF first
    <3> QED BY <1>2
  <2> HIDE DEF I, first
  <2> QED BY ONLY <2>1, <2>2, i \in 1 .. Len(table), Len(table) \in Nat
<1>4. Find(table, name) = IF first = 0 THEN <<>> ELSE <<table[first]>>
  BY <1>1 DEF Find, SelectInSeq, Min
<1> QED BY <1>3, <1>4

(* A row of the dense table answers to its names and to no other.          *)
LEMMA DenseAnswers ==
  ASSUME NEW i \in 1 .. 33, NEW name
  PROVE  Answers(DenseModels[i], name)
           <=> CodeOf(i) = name \/ (VariantOf(i) # Blank /\ VariantOf(i) = name)
BY DEF Answers, CodeOf, VariantOf, Blank

LEMMA DenseSize == Len(DenseModels) = 33 /\ DOMAIN DenseModels = 1 .. 33
BY DEF DenseModels

(* Each row of the dense table is found under each of its names.           *)
LEMMA DenseFound ==
  ASSUME NEW i \in 1 .. 33, NEW name, Answers(DenseModels[i], name)
  PROVE  /\ \A j \in 1 .. 33 : Answers(DenseModels[j], name) => j = i
         /\ Find(DenseModels, name) = <<DenseModels[i]>>
<1>1. \A j \in 1 .. 33 : Answers(DenseModels[j], name) => j = i
  BY DenseAnswers, DenseNames
<1>2. Len(DenseModels) \in Nat /\ i \in 1 .. Len(DenseModels)
  BY DenseSize
<1>3. \A j \in 1 .. i - 1 : ~ Answers(DenseModels[j], name)
  BY <1>1
<1>4. Find(DenseModels, name) = <<DenseModels[i]>>
  BY <1>2, <1>3, FindsFirst, Zenon
<1> QED BY <1>1, <1>4

(* What a name of a dense row is resolved to: the row, unless the build    *)
(* lacks the feature that its engine needs.                                *)
Built(i) == EngineOf(i) = "Onnx" \/ Feature[EngineOf(i)] \in Features

LEMMA DenseLoaded ==
  ASSUME NEW i \in 1 .. 33, NEW name, Answers(DenseModels[i], name)
  PROVE  Loaded("embedding", name) = IF Built(i) THEN CodeOf(i) ELSE None
<1>1. Find(DenseModels, name) = <<DenseModels[i]>>
  BY DenseFound
<1>2. EngineOf(i) = "Onnx" => Parses(DenseModels[i].variant)
  <2>1. DenseModels[i] \in ToSet(DenseModels)
    BY DenseSize DEF ToSet
  <2> QED BY <2>1 DEF Parses, EngineOf
<1>3. ResolveDense(name) = IF Built(i) THEN <<DenseModels[i]>> ELSE <<>>
  BY <1>1, <1>2 DEF ResolveDense, Built, EngineOf
<1>4. <<DenseModels[i]>> # <<>> /\ <<DenseModels[i]>>[1] = DenseModels[i]
  OBVIOUS
<1>5. Loaded("embedding", name)
        = IF ResolveDense(name) = <<>> THEN None ELSE ResolveDense(name)[1].code
  BY DEF Loaded
<1> QED BY <1>3, <1>4, <1>5 DEF CodeOf

Joined3(a, b, c, all) ==
  /\ Len(all) = 39 /\ DOMAIN all = 1 .. 39
  /\ \A i \in 1 .. 33 : all[i] = a[i]
  /\ \A i \in 1 .. 2 : all[33 + i] = b[i]
  /\ \A i \in 1 .. 4 : all[35 + i] = c[i]

(* Three sequences of these lengths, one behind the other.                 *)
LEMMA ThreeJoined ==
  ASSUME NEW U, NEW a \in Seq(U), NEW b \in Seq(U), NEW c \in Seq(U),
         Len(a) = 33, Len(b) = 2, Len(c) = 4
  PROVE  Joined3(a, b, c, (a \o b) \o c)
<1>1. PICK ab : ab = a \o b
  OBVIOUS
<1>2. ab \in Seq(U) /\ Len(ab) = Len(a) + Len(b)
  BY <1>1, ConcatProperties, Zenon
<1>3. \A i \in 1 .. Len(a) + Len(b) : ab[i] = IF i <= Len(a) THEN a[i] ELSE b[i - Len(a)]
  BY <1>1, ConcatProperties, Zenon
<1>4. PICK abc : abc = ab \o c
  OBVIOUS
<1>5. abc \in Seq(U) /\ Len(abc) = Len(ab) + Len(c)
  BY <1>2, <1>4, ConcatProperties, Zenon
<1>6. \A i \in 1 .. Len(ab) + Len(c) :
        abc[i] = IF i <= Len(ab) THEN ab[i] ELSE c[i - Len(ab)]
  <2>1. ab \in Seq(U) /\ c \in Seq(U)
    BY <1>2
  <2>2. \A i \in 1 .. Len(ab) + Len(c) :
          (ab \o c)[i] = IF i <= Len(ab) THEN ab[i] ELSE c[i - Len(ab)]
    BY ONLY <2>1, ConcatProperties, Zenon
  <2> QED BY ONLY <1>4, <2>2, Zenon
<1>7. Len(ab) = 35 /\ Len(abc) = 39
  BY <1>2, <1>5
<1>8. DOMAIN abc = 1 .. 39
  BY <1>5, <1>7
<1>9. ASSUME NEW i \in 1 .. 33
      PROVE  abc[i] = a[i]
  <2>1. i \in 1 .. Len(a) + Len(b) /\ i \in 1 .. Len(ab) + Len(c) /\ i <= Len(a) /\ i <= Len(ab)
    BY <1>7
  <2> QED BY <1>3, <1>6, <2>1, Zenon
<1>10. ASSUME NEW i \in 1 .. 2
       PROVE  abc[33 + i] = b[i]
  <2>1. 33 + i \in 1 .. Len(a) + Len(b) /\ 33 + i \in 1 .. Len(ab) + Len(c)
        /\ ~ (33 + i <= Len(a)) /\ 33 + i <= Len(ab) /\ (33 + i) - Len(a) = i
    BY <1>7
  <2> QED BY <1>3, <1>6, <2>1, Zenon
<1>11. ASSUME NEW i \in 1 .. 4
       PROVE  abc[35 + i] = c[i]
  <2>1. 35 + i \in 1 .. Len(ab) + Len(c)
        /\ ~ (35 + i <= Len(ab)) /\ (35 + i) - Len(ab) = i
    BY <1>7
  <2> QED BY <1>6, <2>1, Zenon
<1> QED BY ONLY <1>1, <1>4, <1>7, <1>8, <1>9, <1>10, <1>11 DEF Joined3

(* The rows that are listed: those of the dense table, then the others.    *)
LEMMA RowsAre ==
  /\ Len(Rows) = 39 /\ DOMAIN Rows = 1 .. 39
  /\ \A i \in 1 .. 33 : Rows[i] = Listed(DenseModels[i], "embedding")
  /\ \A i \in 1 .. 2 :
       Rows[33 + i] = Listed(SparseModels[i],
                             IF SparseModels[i].joint_dense THEN "dense+sparse" ELSE "sparse")
  /\ \A i \in 1 .. 4 : Rows[35 + i] = Listed(RerankModels[i], "rerank")
<1> DEFINE D == [i \in DOMAIN DenseModels |-> Listed(DenseModels[i], "embedding")]
           S == [i \in DOMAIN SparseModels |->
                   Listed(SparseModels[i],
                          IF SparseModels[i].joint_dense THEN "dense+sparse" ELSE "sparse")]
           R3 == [i \in DOMAIN RerankModels |-> Listed(RerankModels[i], "rerank")]
           U == UNION {{D[i] : i \in 1 .. 33}, {S[i] : i \in 1 .. 2}, {R3[i] : i \in 1 .. 4}}
<1>1. /\ DOMAIN DenseModels = 1 .. 33 /\ DOMAIN SparseModels = 1 .. 2
      /\ DOMAIN RerankModels = 1 .. 4
  BY DEF DenseModels, SparseModels, RerankModels
<1>2. D \in Seq(U) /\ Len(D) = 33
  BY <1>1
<1>3. S \in Seq(U) /\ Len(S) = 2
  BY <1>1
<1>4. R3 \in Seq(U) /\ Len(R3) = 4
  BY <1>1
<1>5. Rows = (D \o S) \o R3
  BY DEF Rows
<1>6. /\ \A i \in 1 .. 33 : D[i] = Listed(DenseModels[i], "embedding")
      /\ \A i \in 1 .. 2 :
           S[i] = Listed(SparseModels[i],
                         IF SparseModels[i].joint_dense THEN "dense+sparse" ELSE "sparse")
      /\ \A i \in 1 .. 4 : R3[i] = Listed(RerankModels[i], "rerank")
  BY <1>1
<1> HIDE DEF U, D, S, R3
<1>7. Joined3(D, S, R3, Rows)
  <2>1. D \in Seq(U) /\ S \in Seq(U) /\ R3 \in Seq(U)
    BY <1>2, <1>3, <1>4
  <2>2. Len(D) = 33 /\ Len(S) = 2 /\ Len(R3) = 4
    BY <1>2, <1>3, <1>4
  <2> QED BY ONLY <1>5, <2>1, <2>2, ThreeJoined, Zenon
<1> QED BY ONLY <1>6, <1>7 DEF Joined3

(* A row is found by each of its names, among all that are listed, unless  *)
(* one that is listed before it has the name too.                          *)
LEMMA ListFinds ==
  ASSUME NEW k \in 1 .. 39, NEW name, Answers(Rows[k], name),
         \A j \in 1 .. k - 1 : ~ Answers(Rows[j], name)
  PROVE  Find(Rows, name) = <<Rows[k]>>
<1>1. Len(Rows) \in Nat /\ k \in 1 .. Len(Rows)
  BY RowsAre
<1> QED BY <1>1, FindsFirst, Zenon

(* The listed row of a dense model answers as the model does.              *)
LEMMA ListedDense ==
  ASSUME NEW i \in 1 .. 33
  PROVE  /\ Rows[i].code = CodeOf(i) /\ Rows[i].variant = VariantOf(i)
         /\ Rows[i].task = "embedding"
         /\ \A name : Answers(Rows[i], name) <=> Answers(DenseModels[i], name)
<1>1. Rows[i] = Listed(DenseModels[i], "embedding")
  BY RowsAre
<1>2. /\ Rows[i].code = CodeOf(i) /\ Rows[i].variant = VariantOf(i)
      /\ Rows[i].task = "embedding"
  BY <1>1 DEF Listed, CodeOf, VariantOf
<1> QED BY <1>2 DEF Answers, CodeOf, VariantOf

(* What Misfits asks of one row.                                           *)
Needs(row) ==
  IF row.variant = "" THEN {Feature[Find(DenseModels, row.code)[1].backend]} ELSE {}

Fits(row) ==
  /\ \A n \in {row.code, row.variant} \ {""} : Loaded(row.task, n) = Loaded(row.task, row.code)
  /\ (Loaded(row.task, row.code) = None) = ~ (Needs(row) \subseteq Features)
  /\ Needs(row) \subseteq Features =>
       \A n \in {row.code, row.variant} \ {""} : Pulled(n) # None

LEMMA MisfitsAre == Misfits = {row \in ToSet(Rows) : ~ Fits(row)}
BY DEF Misfits, Fits, Needs

(* Every row of the dense table fits.                                      *)
LEMMA DenseFit ==
  ASSUME NEW i \in 1 .. 33
  PROVE  Fits(Rows[i])
<1> DEFINE names == {CodeOf(i), VariantOf(i)} \ {Blank}
<1>1. CodeOf(i) \notin {None} /\ Answers(DenseModels[i], CodeOf(i))
  BY DenseEngines, DenseAnswers
<1>2. ASSUME NEW n \in names
      PROVE  Answers(DenseModels[i], n)
  BY <1>2, DenseAnswers
<1>3. Loaded("embedding", CodeOf(i)) = IF Built(i) THEN CodeOf(i) ELSE None
  BY <1>1, DenseLoaded
<1>4. ASSUME NEW n \in names
      PROVE  Loaded("embedding", n) = IF Built(i) THEN CodeOf(i) ELSE None
  BY <1>2, DenseLoaded
<1>5. Needs(Rows[i]) = IF EngineOf(i) = "Onnx" THEN {} ELSE {Feature[EngineOf(i)]}
  <2>1. Find(DenseModels, Rows[i].code) = <<DenseModels[i]>>
    BY <1>1, ListedDense, DenseFound
  <2>2. Find(DenseModels, Rows[i].code)[1].backend = EngineOf(i)
    BY <2>1 DEF EngineOf
  <2>3. Rows[i].variant = "" <=> EngineOf(i) # "Onnx"
    BY ListedDense, DenseEngines DEF Blank
  <2> QED BY <2>2, <2>3 DEF Needs
<1>6. Needs(Rows[i]) \subseteq Features <=> Built(i)
  BY <1>5 DEF Built
<1>7. ASSUME NEW n \in names
      PROVE  Find(Rows, n) = <<Rows[i]>>
  <2>1. Answers(Rows[i], n)
    BY <1>2, <1>7, ListedDense
  <2>2. \A j \in 1 .. i - 1 : ~ Answers(Rows[j], n)
    <3> SUFFICES ASSUME NEW j \in 1 .. i - 1
                 PROVE  ~ Answers(Rows[j], n)
      OBVIOUS
    <3>1. j \in 1 .. 33 /\ j # i
      OBVIOUS
    <3> QED BY <3>1, <1>2, <1>7, ListedDense, DenseFound
  <2>3. i \in 1 .. 39
    OBVIOUS
  <2> QED BY <2>1, <2>2, <2>3, ListFinds
<1>8. ASSUME NEW n \in names, Built(i)
      PROVE  Pulled(n) # None
  <2>1. Find(Rows, n) = <<Rows[i]>> /\ Find(Rows, n) # <<>> /\ Find(Rows, n)[1] = Rows[i]
    BY <1>7, <1>8
  <2>2. Pulled(n) = Loaded("embedding", CodeOf(i))
    BY <2>1, ListedDense DEF Pulled
  <2> QED BY <2>2, <1>1, <1>3, <1>8
<1>9. {Rows[i].code, Rows[i].variant} \ {""} = names /\ Rows[i].task = "embedding"
      /\ Rows[i].code = CodeOf(i)
  BY ListedDense DEF Blank
<1>10. \A n \in names : Loaded("embedding", n) = Loaded("embedding", CodeOf(i))
  BY <1>3, <1>4
<1>11. (Loaded("embedding", CodeOf(i)) = None) <=> ~ Built(i)
  BY <1>1, <1>3
<1> HIDE DEF names
<1> QED BY <1>6, <1>8, <1>9, <1>10, <1>11 DEF Fits

(* The rows behind the dense table.                                        *)
CodeAt(k) == Rows[k].code

VariantAt(k) == Rows[k].variant

TaskAt(k) == Rows[k].task

LEMMA RestAre ==
  /\ CodeAt(34) = "Qdrant/Splade_PP_en_v1" /\ VariantAt(34) = "SPLADEPPV1"
  /\ TaskAt(34) = "sparse"
  /\ CodeAt(35) = "BAAI/bge-m3" /\ VariantAt(35) = "BGEM3" /\ TaskAt(35) = "dense+sparse"
  /\ CodeAt(36) = "BAAI/bge-reranker-base" /\ VariantAt(36) = "BGERerankerBase"
  /\ CodeAt(37) = "rozgo/bge-reranker-v2-m3" /\ VariantAt(37) = "BGERerankerV2M3"
  /\ CodeAt(38) = "jinaai/jina-reranker-v1-turbo-en" /\ VariantAt(38) = "JINARerankerV1TurboEn"
  /\ CodeAt(39) = "jinaai/jina-reranker-v2-base-multilingual"
  /\ VariantAt(39) = "JINARerankerV2BaseMultiligual"
  /\ TaskAt(36) = "rerank" /\ TaskAt(37) = "rerank" /\ TaskAt(38) = "rerank"
  /\ TaskAt(39) = "rerank"
  /\ \A k \in 34 .. 39 : VariantAt(k) # Blank
<1>1. /\ Rows[33 + 1] = Listed(SparseModels[1], "sparse")
      /\ Rows[33 + 2] = Listed(SparseModels[2], "dense+sparse")
  <2>1. ~ SparseModels[1].joint_dense /\ SparseModels[2].joint_dense
    BY DEF SparseModels, SparseRow
  <2> QED BY <2>1, RowsAre
<1>2. /\ Rows[35 + 1] = Listed(RerankModels[1], "rerank")
      /\ Rows[35 + 2] = Listed(RerankModels[2], "rerank")
      /\ Rows[35 + 3] = Listed(RerankModels[3], "rerank")
      /\ Rows[35 + 4] = Listed(RerankModels[4], "rerank")
  BY RowsAre
<1>3. /\ Rows[34] = Listed(SparseModels[1], "sparse")
      /\ Rows[35] = Listed(SparseModels[2], "dense+sparse")
      /\ Rows[36] = Listed(RerankModels[1], "rerank")
      /\ Rows[37] = Listed(RerankModels[2], "rerank")
      /\ Rows[38] = Listed(RerankModels[3], "rerank")
      /\ Rows[39] = Listed(RerankModels[4], "rerank")
  BY ONLY <1>1, <1>2
<1>4. /\ CodeAt(34) = SparseModels[1].code /\ VariantAt(34) = SparseModels[1].variant
      /\ CodeAt(35) = SparseModels[2].code /\ VariantAt(35) = SparseModels[2].variant
      /\ CodeAt(36) = RerankModels[1].code /\ VariantAt(36) = RerankModels[1].variant
      /\ CodeAt(37) = RerankModels[2].code /\ VariantAt(37) = RerankModels[2].variant
      /\ CodeAt(38) = RerankModels[3].code /\ VariantAt(38) = RerankModels[3].variant
      /\ CodeAt(39) = RerankModels[4].code /\ VariantAt(39) = RerankModels[4].variant
  BY ONLY <1>3 DEF CodeAt, VariantAt, Listed
<1>5. /\ TaskAt(34) = "sparse" /\ TaskAt(35) = "dense+sparse"
      /\ TaskAt(36) = "rerank" /\ TaskAt(37) = "rerank" /\ TaskAt(38) = "rerank"
      /\ TaskAt(39) = "rerank"
  BY ONLY <1>3 DEF TaskAt, Listed
<1>6. /\ CodeAt(34) = "Qdrant/Splade_PP_en_v1" /\ VariantAt(34) = "SPLADEPPV1"
      /\ CodeAt(35) = "BAAI/bge-m3" /\ VariantAt(35) = "BGEM3"
  BY <1>4 DEF SparseModels, SparseRow
<1>7. /\ CodeAt(36) = "BAAI/bge-reranker-base" /\ VariantAt(36) = "BGERerankerBase"
      /\ CodeAt(37) = "rozgo/bge-reranker-v2-m3" /\ VariantAt(37) = "BGERerankerV2M3"
      /\ CodeAt(38) = "jinaai/jina-reranker-v1-turbo-en"
      /\ VariantAt(38) = "JINARerankerV1TurboEn"
      /\ CodeAt(39) = "jinaai/jina-reranker-v2-base-multilingual"
      /\ VariantAt(39) = "JINARerankerV2BaseMultiligual"
  BY <1>4 DEF RerankModels, RerankRow
<1>8. \A k \in 34 .. 39 : VariantAt(k) # Blank
  <2>1. /\ VariantAt(34) # Blank /\ VariantAt(35) # Blank /\ VariantAt(36) # Blank
        /\ VariantAt(37) # Blank /\ VariantAt(38) # Blank /\ VariantAt(39) # Blank
    BY ONLY <1>6, <1>7 DEF Blank
  <2>2. \A k \in 34 .. 39 : k = 34 \/ k = 35 \/ k = 36 \/ k = 37 \/ k = 38 \/ k = 39
    OBVIOUS
  <2> QED BY ONLY <2>1, <2>2
<1> QED BY ONLY <1>5, <1>6, <1>7, <1>8

(* A row behind the dense table answers to its two names and to no other.  *)
LEMMA RestAnswers ==
  ASSUME NEW k \in 34 .. 39, NEW name
  PROVE  Answers(Rows[k], name) <=> CodeAt(k) = name \/ VariantAt(k) = name
BY RestAre DEF Answers, CodeAt, VariantAt, Blank

(* No model of the dense table has a name that only the others have.       *)
LEMMA NotDense ==
  ASSUME NEW name \in OtherNames, NEW j \in 1 .. 33
  PROVE  ~ Answers(Rows[j], name)
BY OtherNamesElsewhere, ListedDense, DenseAnswers

(* A row behind the dense table fits if its engine loads it under both of  *)
(* its names, and whatever pull makes of them can be loaded.               *)
LEMMA RestFits ==
  ASSUME NEW k \in 34 .. 39,
         Loaded(TaskAt(k), VariantAt(k)) = Loaded(TaskAt(k), CodeAt(k)),
         Loaded(TaskAt(k), CodeAt(k)) # None,
         Pulled(CodeAt(k)) # None, Pulled(VariantAt(k)) # None
  PROVE  Fits(Rows[k])
<1>1. Needs(Rows[k]) = {}
  BY RestAre DEF Needs, VariantAt, Blank
<1>2. \A n \in {CodeAt(k), VariantAt(k)} \ {""} :
        Loaded(TaskAt(k), n) = Loaded(TaskAt(k), CodeAt(k)) /\ Pulled(n) # None
  OBVIOUS
<1>3. Fits(Rows[k]) =
        /\ \A n \in {CodeAt(k), VariantAt(k)} \ {""} :
             Loaded(TaskAt(k), n) = Loaded(TaskAt(k), CodeAt(k))
        /\ (Loaded(TaskAt(k), CodeAt(k)) = None) = ~ (Needs(Rows[k]) \subseteq Features)
        /\ Needs(Rows[k]) \subseteq Features =>
             \A n \in {CodeAt(k), VariantAt(k)} \ {""} : Pulled(n) # None
  BY DEF Fits, CodeAt, VariantAt, TaskAt
<1> QED BY <1>1, <1>2, <1>3

(* What pull downloads for a name that one row behind the dense table has, *)
(* and none before it.                                                     *)
LEMMA RestPulled ==
  ASSUME NEW k \in 34 .. 39, NEW name \in OtherNames, CodeAt(k) = name \/ VariantAt(k) = name,
         \A j \in 34 .. k - 1 : CodeAt(j) # name /\ VariantAt(j) # name
  PROVE  Pulled(name) = Loaded(TaskAt(k), CodeAt(k))
<1>1. Answers(Rows[k], name) /\ k \in 1 .. 39
  BY RestAnswers
<1>2. \A j \in 1 .. k - 1 : ~ Answers(Rows[j], name)
  <2> SUFFICES ASSUME NEW j \in 1 .. k - 1
               PROVE  ~ Answers(Rows[j], name)
    OBVIOUS
  <2>1. CASE j \in 1 .. 33
    BY <2>1, NotDense
  <2>2. CASE j \in 34 .. k - 1
    BY <2>2, RestAnswers
  <2>3. j \in 1 .. 33 \/ j \in 34 .. k - 1
    OBVIOUS
  <2> QED BY <2>1, <2>2, <2>3
<1>3. Find(Rows, name) = <<Rows[k]>>
  BY <1>1, <1>2, ListFinds
<1>4. Find(Rows, name) # <<>> /\ Find(Rows, name)[1] = Rows[k]
  BY <1>3
<1> QED BY <1>4 DEF Pulled, CodeAt, TaskAt

(* Every row behind the dense table fits.                                  *)
LEMMA SparseFit == Fits(Rows[34])
<1>1. Loaded("sparse", "Qdrant/Splade_PP_en_v1") = "SPLADEPPV1"
  BY DEF Loaded, ResolveSparse
<1>2. Loaded("sparse", "SPLADEPPV1") = "SPLADEPPV1"
  BY DEF Loaded, ResolveSparse
<1>3. CodeAt(34) \in OtherNames /\ VariantAt(34) \in OtherNames
  BY RestAre DEF OtherNames
<1>4. Pulled(CodeAt(34)) = "SPLADEPPV1" /\ Pulled(VariantAt(34)) = "SPLADEPPV1"
  BY <1>1, <1>3, RestPulled, RestAre
<1>5. "SPLADEPPV1" # None
  BY DEF None
<1> QED BY <1>1, <1>2, <1>4, <1>5, RestFits, RestAre

LEMMA JointFit == Fits(Rows[35])
<1>1. Loaded("dense+sparse", "BAAI/bge-m3") = "BGEM3Q"
  BY DEF Loaded, ResolveM3
<1>2. Loaded("dense+sparse", "BGEM3") = "BGEM3Q"
  BY DEF Loaded, ResolveM3
<1>3. /\ CodeOf(10) = "BAAI/bge-m3" /\ VariantOf(10) = "BGEM3" /\ EngineOf(10) = "Onnx"
      /\ VariantOf(10) # Blank
  BY ONLY CodesAre, VariantsAre, EnginesAre
<1>4. Fits(Rows[10]) /\ Rows[10].code = "BAAI/bge-m3" /\ Rows[10].variant = "BGEM3"
  BY <1>3, DenseFit, ListedDense
<1>5. Needs(Rows[10]) = {}
  BY <1>4 DEF Needs
<1>6. Pulled("BAAI/bge-m3") # None /\ Pulled("BGEM3") # None
  <2>1. "BAAI/bge-m3" # "" /\ "BGEM3" # ""
    OBVIOUS
  <2>2. \A n \in {"BAAI/bge-m3", "BGEM3"} \ {""} : Pulled(n) # None
    BY <1>4, <1>5 DEF Fits
  <2> QED BY <2>1, <2>2
<1>7. "BGEM3Q" # None
  BY DEF None
<1> QED BY <1>1, <1>2, <1>6, <1>7, RestFits, RestAre

LEMMA RerankFit ==
  ASSUME NEW k \in 36 .. 39
  PROVE  Fits(Rows[k])
<1>1. TaskAt(k) = "rerank" /\ CodeAt(k) \in OtherNames /\ VariantAt(k) \in OtherNames
  BY RestAre DEF OtherNames
<1>2. \A n : Loaded("rerank", n) = ResolveReranker(n)
  BY DEF Loaded
<1>3. /\ ResolveReranker(CodeAt(k)) = VariantAt(k)
      /\ ResolveReranker(VariantAt(k)) = VariantAt(k)
      /\ VariantAt(k) # None
  <2>1. k = 36 \/ k = 37 \/ k = 38 \/ k = 39
    OBVIOUS
  <2>2. CASE k = 36
    BY ONLY <2>2, RestAre DEF ResolveReranker, None
  <2>3. CASE k = 37
    BY ONLY <2>3, RestAre DEF ResolveReranker, None
  <2>4. CASE k = 38
    BY ONLY <2>4, RestAre DEF ResolveReranker, None
  <2>5. CASE k = 39
    BY ONLY <2>5, RestAre DEF ResolveReranker, None
  <2> QED BY <2>1, <2>2, <2>3, <2>4, <2>5
<1>4. ASSUME NEW j \in 34 .. k - 1
      PROVE  /\ CodeAt(j) \notin {CodeAt(k), VariantAt(k)}
             /\ VariantAt(j) \notin {CodeAt(k), VariantAt(k)}
  <2>1. k = 36 \/ k = 37 \/ k = 38 \/ k = 39
    OBVIOUS
  <2>2. j = 34 \/ j = 35 \/ j = 36 \/ j = 37 \/ j = 38
    OBVIOUS
  <2>3. j # k
    OBVIOUS
  <2> QED BY ONLY <2>1, <2>2, <2>3, RestAre
<1>5. Pulled(CodeAt(k)) = VariantAt(k) /\ Pulled(VariantAt(k)) = VariantAt(k)
  BY <1>1, <1>2, <1>3, <1>4, RestPulled
<1> QED BY <1>1, <1>2, <1>3, <1>5, RestFits

(* No row misfits, in any build.                                           *)
LEMMA NoMisfits == Misfits = {}
<1>1. \A row \in ToSet(Rows) : \E k \in 1 .. 39 : row = Rows[k]
  BY RowsAre DEF ToSet
<1>2. ASSUME NEW k \in 1 .. 39
      PROVE  Fits(Rows[k])
  <2>1. k \in 1 .. 33 \/ k = 34 \/ k = 35 \/ k \in 36 .. 39
    OBVIOUS
  <2> QED BY <2>1, DenseFit, SparseFit, JointFit, RerankFit
<1> QED BY <1>1, <1>2, MisfitsAre

(* What is built in for each endpoint is a name that its engine loads.     *)
LEMMA BuiltInsLoad ==
  /\ Loaded("embedding", BuiltIn.model) # None
  /\ Loaded("rerank", BuiltIn.rerank_model) # None
  /\ Loaded("sparse", BuiltIn.sparse_model) # None
  /\ Loaded("dense+sparse", BuiltIn.m3_model) # None
<1>1. /\ BuiltIn.model = "Qdrant/all-MiniLM-L6-v2-onnx"
      /\ BuiltIn.rerank_model = "BAAI/bge-reranker-base"
      /\ BuiltIn.sparse_model = "Qdrant/Splade_PP_en_v1"
      /\ BuiltIn.m3_model = "BAAI/bge-m3"
  BY DEF BuiltIn
<1>2. CodeOf(1) = "Qdrant/all-MiniLM-L6-v2-onnx" /\ EngineOf(1) = "Onnx"
  BY ONLY CodesAre, EnginesAre
<1>3. Loaded("embedding", CodeOf(1)) = CodeOf(1) /\ CodeOf(1) # None
  BY <1>2, DenseAnswers, DenseLoaded, DenseEngines DEF Built
<1>4. Loaded("rerank", "BAAI/bge-reranker-base") = "BGERerankerBase"
  BY DEF Loaded, ResolveReranker
<1>5. Loaded("sparse", "Qdrant/Splade_PP_en_v1") = "SPLADEPPV1"
  BY DEF Loaded, ResolveSparse
<1>6. Loaded("dense+sparse", "BAAI/bge-m3") = "BGEM3Q"
  BY DEF Loaded, ResolveM3
<1>7. "BGERerankerBase" # None /\ "SPLADEPPV1" # None /\ "BGEM3Q" # None
  BY DEF None
<1> QED BY <1>1, <1>2, <1>3, <1>4, <1>5, <1>6, <1>7

(* ListedLoads, of every build: whichever features it has, each listed     *)
(* name loads what its row says, and what is built in can be loaded.       *)
THEOREM ListedLoadsAlways == ServerSpec => []ListedLoads
<1>1. ListedLoads
  BY NoMisfits, BuiltInsLoad DEF ListedLoads
<1> QED BY <1>1, PTL

(* A name that the check of media lets pass, and that resolves at all,     *)
(* resolves to a backend with towers: the check reads the table by the     *)
(* codes alone and up to case, the resolver by both names and literally.   *)
LEMMA MediaResolves ==
  ASSUME NEW k \in MediaNames, k \in DOMAIN BackendOf
  PROVE  BackendOf[k] \in Multimodal
<1>1. ResolveDense(k) # <<>> /\ BackendOf[k] = ResolveDense(k)[1].backend
  BY DEF BackendOf
<1>2. Find(DenseModels, k) # <<>>
  BY <1>1 DEF ResolveDense
<1>3. Folded(k) = k
  BY <1>2, FoldAssumption DEF Folded
<1> DEFINE I == {i \in 1 .. 33 : DenseModels[i].code = k}
           first == CHOOSE x \in I : \A y \in I : x <= y
<1>4. I # {} /\ DenseModels[first].backend \in Multimodal
  <2>1. MediaModel(k)
    BY DEF MediaNames
  <2>2. SelectInSeq(DenseModels, LAMBDA row : row.code = Folded(k))
          = IF I # {} THEN first ELSE 0
    BY <1>3, DenseSize DEF SelectInSeq, Min
  <2> QED BY <2>1, <2>2 DEF MediaModel
<1>5. first \in 1 .. 33 /\ CodeOf(first) = k
  <2>1. \E x \in I : \A y \in I : x <= y
    <3>1. PICK x : x \in I
      BY <1>4
    <3>2. \A y \in I : y = x
      BY <3>1, DenseNames DEF CodeOf
    <3>3. x <= x
      BY <3>1
    <3> QED BY ONLY <3>1, <3>2, <3>3
  <2>2. first \in I
    <3> HIDE DEF I
    <3> QED BY <2>1
  <2> QED BY <2>2 DEF CodeOf
<1> HIDE DEF I, first
<1>6. Find(DenseModels, k) = <<DenseModels[first]>>
  BY <1>5, DenseAnswers, DenseFound
<1>7. ResolveDense(k)[1] = DenseModels[first]
  BY <1>1, <1>6 DEF ResolveDense
<1> QED BY <1>1, <1>4, <1>7

(* A closure computes on an engine that was loaded for its own name, and   *)
(* media on one with the towers for it, whatever names requests contain.   *)
THEOREM RightEngineAlways == ServerSpec => []RightEngine
<1>1. ServerInv => RightEngine
  <2> SUFFICES ASSUME ServerInv, NEW r \in Slot, stage[r] = "using"
               PROVE  /\ origin[held[r]] = want[r]
                      /\ kind[r] = "media" => Backend(held[r]) \in Multimodal
    BY DEF RightEngine
  <2>1. origin[held[r]] = want[r] /\ want[r] \in DOMAIN BackendOf
    BY DEF ServerInv, Thread, Holding, Owns
  <2>2. kind[r] = "media" => want[r] \in MediaNames
    BY DEF ServerInv, Inside
  <2> QED BY <2>1, <2>2, MediaResolves DEF Backend
<1> QED BY <1>1, ServerInvariant, PTL
===============================================================================
