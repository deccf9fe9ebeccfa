---------------------------- MODULE RegistryProofs ----------------------------
(***************************************************************************)
(* Theorems about Registry, and that it implements LruCache, for every set *)
(* of keys and requests, every preload list and every capacity.            *)
(***************************************************************************)
EXTENDS Registry, SequenceTheorems, FiniteSetTheorems, TLAPS

-------------------------------------------------------------------------------
(* The list operations.                                                    *)

Distinct(s) == \A i, j \in DOMAIN s : s[i] = s[j] => i = j

Occurs(s, k) == \E i \in DOMAIN s : s[i] = k

(* Removing one position shifts the later ones down.                       *)
LEMMA RemoveAtShifts ==
  ASSUME NEW S, NEW s \in Seq(S), NEW p \in 1 .. Len(s)
  PROVE  /\ RemoveAt(s, p) \in Seq(S)
         /\ Len(RemoveAt(s, p)) = Len(s) - 1
         /\ \A i \in 1 .. Len(s) - 1 :
              RemoveAt(s, p)[i] = IF i < p THEN s[i] ELSE s[i + 1]
<1> DEFINE u == SubSeq(s, 1, p - 1)
           v == SubSeq(s, p + 1, Len(s))
<1>0. Len(s) \in Nat /\ p \in Nat /\ \A i \in 1 .. Len(s) : s[i] \in S
  BY LenProperties, ElementOfSeq
<1>1. /\ u \in Seq(S) /\ Len(u) = p - 1
      /\ \A i \in 1 .. p - 1 : u[i] = s[i]
  <2>1. \A i \in 1 .. p - 1 : s[i] \in S
    BY <1>0
  <2>2. /\ SubSeq(s, 1, p - 1) \in Seq(S)
        /\ Len(SubSeq(s, 1, p - 1)) = IF 1 <= p - 1 THEN (p - 1) - 1 + 1 ELSE 0
        /\ \A i \in 1 .. (p - 1) - 1 + 1 : SubSeq(s, 1, p - 1)[i] = s[1 + i - 1]
    <3> HIDE DEF u
    <3> QED BY <2>1, <1>0, SubSeqProperties, Z3
  <2> QED BY <2>2, <1>0
<1>2. /\ v \in Seq(S) /\ Len(v) = Len(s) - p
      /\ \A i \in 1 .. Len(s) - p : v[i] = s[p + i]
  <2>1. \A i \in p + 1 .. Len(s) : s[i] \in S
    BY <1>0
  <2>2. /\ SubSeq(s, p + 1, Len(s)) \in Seq(S)
        /\ Len(SubSeq(s, p + 1, Len(s))) =
             IF p + 1 <= Len(s) THEN Len(s) - (p + 1) + 1 ELSE 0
        /\ \A i \in 1 .. Len(s) - (p + 1) + 1 :
             SubSeq(s, p + 1, Len(s))[i] = s[(p + 1) + i - 1]
    BY <2>1, <1>0, SubSeqProperties, Z3
  <2> QED BY <2>2, <1>0
<1>3. RemoveAt(s, p) = u \o v
  BY DEF RemoveAt
<1> HIDE DEF u, v
<1>4. /\ u \o v \in Seq(S)
      /\ Len(u \o v) = Len(u) + Len(v)
      /\ \A i \in 1 .. Len(u) + Len(v) :
           (u \o v)[i] = IF i <= Len(u) THEN u[i] ELSE v[i - Len(u)]
  BY <1>1, <1>2, ConcatProperties
<1> QED BY <1>0, <1>1, <1>2, <1>3, <1>4

(* ... and so takes exactly that element out of a list without duplicates. *)
LEMMA RemoveAtDistinct ==
  ASSUME NEW S, NEW s \in Seq(S), NEW p \in 1 .. Len(s), Distinct(s)
  PROVE  /\ RemoveAt(s, p) \in Seq(S)
         /\ Distinct(RemoveAt(s, p))
         /\ \A k : Occurs(RemoveAt(s, p), k) <=> Occurs(s, k) /\ k # s[p]
<1> DEFINE r == RemoveAt(s, p)
<1>1. /\ r \in Seq(S) /\ Len(r) = Len(s) - 1
      /\ \A i \in 1 .. Len(s) - 1 : r[i] = IF i < p THEN s[i] ELSE s[i + 1]
  BY RemoveAtShifts
<1> HIDE DEF r
<1>2. Len(s) \in Nat /\ DOMAIN s = 1 .. Len(s) /\ DOMAIN r = 1 .. Len(s) - 1
  BY <1>1, LenProperties
<1>3. Distinct(r)
  <2> SUFFICES ASSUME NEW i \in 1 .. Len(s) - 1, NEW j \in 1 .. Len(s) - 1,
                      r[i] = r[j]
               PROVE  i = j
    BY <1>2 DEF Distinct
  <2>1. \A m \in 1 .. Len(s), n \in 1 .. Len(s) : s[m] = s[n] => m = n
    BY <1>2 DEF Distinct
  <2>2. (IF i < p THEN i ELSE i + 1) = (IF j < p THEN j ELSE j + 1)
    BY <1>1, <1>2, <2>1
  <2> QED BY <1>2, <2>2
<1>4. ASSUME NEW k, Occurs(r, k) PROVE Occurs(s, k) /\ k # s[p]
  <2>1. PICK i \in 1 .. Len(s) - 1 : r[i] = k
    BY <1>2, <1>4 DEF Occurs
  <2>2. CASE i < p
    BY <1>1, <1>2, <2>1, <2>2 DEF Occurs, Distinct
  <2>3. CASE i >= p
    BY <1>1, <1>2, <2>1, <2>3 DEF Occurs, Distinct
  <2> QED BY <2>1, <2>2, <2>3
<1>5. ASSUME NEW k, Occurs(s, k), k # s[p] PROVE Occurs(r, k)
  <2>1. PICK i \in 1 .. Len(s) : s[i] = k
    BY <1>2, <1>5 DEF Occurs
  <2>2. CASE i < p
    <3>1. i \in 1 .. Len(s) - 1 /\ r[i] = k
      BY <1>1, <1>2, <2>1, <2>2
    <3> QED BY <1>2, <3>1 DEF Occurs
  <2>3. CASE i > p
    <3>1. i - 1 \in 1 .. Len(s) - 1 /\ r[i - 1] = k
      BY <1>1, <1>2, <2>1, <2>3
    <3> QED BY <1>2, <3>1 DEF Occurs
  <2> QED BY <1>5, <2>1, <2>2, <2>3
<1> QED BY <1>1, <1>3, <1>4, <1>5 DEF r

(* Appending a key the list does not hold.                                 *)
LEMMA AppendDistinct ==
  ASSUME NEW S, NEW s \in Seq(S), NEW e \in S, Distinct(s), ~ Occurs(s, e)
  PROVE  /\ Append(s, e) \in Seq(S)
         /\ Distinct(Append(s, e))
         /\ \A k : Occurs(Append(s, e), k) <=> Occurs(s, k) \/ k = e
<1> DEFINE r == Append(s, e)
<1>1. /\ r \in Seq(S) /\ Len(r) = Len(s) + 1
      /\ \A i \in 1 .. Len(s) : r[i] = s[i]
      /\ r[Len(s) + 1] = e
  BY AppendProperties
<1> HIDE DEF r
<1>2. Len(s) \in Nat /\ DOMAIN s = 1 .. Len(s) /\ DOMAIN r = 1 .. Len(s) + 1
  BY <1>1, LenProperties
<1>3. Distinct(r)
  BY <1>1, <1>2 DEF Distinct, Occurs
<1>4. \A k : Occurs(r, k) <=> Occurs(s, k) \/ k = e
  BY <1>1, <1>2 DEF Occurs
<1> QED BY <1>1, <1>3, <1>4 DEF r

LEMMA PositionOccurs ==
  ASSUME NEW S, NEW s \in Seq(S), NEW k, Distinct(s), Occurs(s, k)
  PROVE  Position(s, k) \in 1 .. Len(s) /\ s[Position(s, k)] = k
<1>1. Len(s) \in Nat /\ DOMAIN s = 1 .. Len(s)
  BY LenProperties
<1>2. PICK i \in DOMAIN s : s[i] = k
  BY DEF Occurs
<1>3. \A j \in 1 .. i - 1 : s[j] # k
  BY <1>1, <1>2 DEF Distinct
<1> QED BY <1>1, <1>2, <1>3 DEF Position

(* move_to_back only reorders.                                             *)
LEMMA MoveToBackKeeps ==
  ASSUME NEW S, NEW s \in Seq(S), NEW e \in S, Distinct(s)
  PROVE  /\ MoveToBack(s, e) \in Seq(S)
         /\ Distinct(MoveToBack(s, e))
         /\ \A k : Occurs(MoveToBack(s, e), k) <=> Occurs(s, k)
<1>1. CASE ~ Occurs(s, e)
  BY <1>1 DEF MoveToBack, Occurs
<1>2. CASE Occurs(s, e)
  <2> DEFINE p == Position(s, e)
             r == RemoveAt(s, p)
  <2>1. p \in 1 .. Len(s) /\ s[p] = e
    BY <1>2, PositionOccurs
  <2> HIDE DEF p
  <2>2. /\ r \in Seq(S) /\ Distinct(r)
        /\ \A k : Occurs(r, k) <=> Occurs(s, k) /\ k # e
    BY <2>1, RemoveAtDistinct
  <2>3. MoveToBack(s, e) = Append(r, e)
    BY <1>2 DEF MoveToBack, Occurs, p
  <2> HIDE DEF r
  <2>4. /\ Append(r, e) \in Seq(S) /\ Distinct(Append(r, e))
        /\ \A k : Occurs(Append(r, e), k) <=> Occurs(r, k) \/ k = e
    BY <2>2, AppendDistinct
  <2> QED BY <1>2, <2>2, <2>3, <2>4
<1> QED BY <1>1, <1>2

(* A nonempty set of numbers has a smallest element.                       *)
LEMMA SmallestExists ==
  ASSUME NEW T \in SUBSET Nat, T # {}
  PROVE  \E m \in T : \A n \in T : m <= n
<1>1. IsWellFoundedOn(OpToRel(<, Nat), Nat)
  BY NatLessThanWellFounded
<1>2. PICK m \in T : \A n \in T : ~ (<<n, m>> \in OpToRel(<, Nat))
  BY <1>1, WFMin
<1>3. \A n \in T : ~ (n < m)
  BY <1>2 DEF OpToRel
<1> QED BY <1>3

(* The victim of evict is a listed key that is not pinned.                 *)
LEMMA VictimListed ==
  ASSUME lru \in Seq(Key), Victims # {}
  PROVE  /\ FirstVictim \in 1 .. Len(lru)
         /\ lru[FirstVictim] \in Key
         /\ lru[FirstVictim] \notin pinned
<1>1. Victims \subseteq 1 .. Len(lru) /\ Len(lru) \in Nat
  BY LenProperties DEF Victims
<1>2. \E m \in Victims : \A n \in Victims : m <= n
  BY <1>1, SmallestExists
<1>3. FirstVictim \in Victims
  BY <1>2 DEF FirstVictim
<1> QED BY <1>1, <1>3, ElementOfSeq DEF Victims

-------------------------------------------------------------------------------
(* The inductive invariant.                                                *)

(* While try_main preloads, no request runs and whatever is cached is      *)
(* pinned, so evict finds no victim and no pinned model can get lost; once *)
(* the server serves, the main thread makes no more calls.                 *)
BootInv ==
  /\ Serving => stage[Main] = "idle"
  /\ ~ Serving => /\ Loaded \subseteq pinned
                  /\ \A r \in Request : stage[r] = "idle"
  /\ stage[Main] # "idle" => /\ boot \in 1 .. Len(Preload)
                             /\ want[Main] = Preload[boot]
  /\ \A t \in Thread : stage[t] = "pinning" => t = Main /\ want[t] \in Loaded
  /\ stage[Main] \in {"evicting", "using"} => want[Main] \in pinned
  /\ \A i \in DOMAIN Preload : i < boot => Preload[i] \in pinned

(* A thread on its way to insert owns the instance it loaded.              *)
HeldInv == \A t \in Thread : stage[t] = "inserting" => held[t] # 0

PinnedLoaded == pinned \subseteq Loaded

IInv ==
  /\ TypeOK
  /\ LruMatchesModels
  /\ WithinCapacity
  /\ PinnedLoaded
  /\ BootInv
  /\ HeldInv

(* LruMatchesModels in terms of the list lemmas.                           *)
LEMMA LruMatchesDef ==
  LruMatchesModels <=> /\ Distinct(lru)
                       /\ \A k \in Key : models[k] # 0 <=> Occurs(lru, k)
BY DEF LruMatchesModels, Distinct, Occurs

(* However many names there are, the list names finitely many.             *)
LEMMA LoadedFinite == TypeOK /\ LruMatchesModels => IsFiniteSet(Loaded)
<1> SUFFICES ASSUME TypeOK, LruMatchesModels PROVE IsFiniteSet(Loaded)
  OBVIOUS
<1>1. /\ Len(lru) \in Nat /\ lru \in [1 .. Len(lru) -> Key]
      /\ DOMAIN lru = 1 .. Len(lru)
  BY LenProperties DEF TypeOK
<1>2. lru \in [1 .. Len(lru) -> Loaded]
  BY <1>1 DEF LruMatchesModels, Loaded
<1>3. \A k \in Loaded : \E i \in 1 .. Len(lru) : lru[i] = k
  BY <1>1 DEF LruMatchesModels, Loaded
<1>4. lru \in Surjection(1 .. Len(lru), Loaded)
  BY <1>2, <1>3 DEF Surjection
<1>5. IsFiniteSet(1 .. Len(lru))
  BY <1>1, FS_Interval
<1> QED BY <1>4, <1>5, FS_Surjection

LEMMA InitIInv == Init => IInv
<1> SUFFICES ASSUME Init PROVE IInv
  OBVIOUS
<1> USE DEF Init
<1>0. /\ Preload \in Seq(Key) /\ Len(Preload) \in Nat
      /\ DOMAIN Preload = 1 .. Len(Preload)
  BY RegistryAssumption, LenProperties
<1>1. TypeOK
  BY <1>0, RegistryAssumption DEF TypeOK, Stage, Thread
<1>2. LruMatchesModels
  BY DEF LruMatchesModels
<1>3. WithinCapacity
  BY DEF WithinCapacity, Loaded
<1>4. PinnedLoaded /\ HeldInv
  BY DEF PinnedLoaded, HeldInv
<1>5. BootInv
  BY <1>0 DEF BootInv, Loaded, Thread
<1> QED BY <1>1, <1>2, <1>3, <1>4, <1>5 DEF IInv

(* One lemma per action: it preserves the invariant.                       *)

LEMMA ConstantFacts ==
  /\ Preload \in Seq(Key) /\ Len(Preload) \in Nat
  /\ DOMAIN Preload = 1 .. Len(Preload)
  /\ \A i \in 1 .. Len(Preload) : Preload[i] \in Key
  /\ NoKey \notin Key /\ Main \in Thread /\ Request \subseteq Thread
  /\ Main \notin Request /\ Unlocked \notin Thread /\ MaxLoads \in Nat
  /\ \A t \in Thread : t # Main => t \in Request
BY RegistryAssumption, LenProperties, ElementOfSeq DEF Thread

LEMMA PreloadNextIInv == IInv /\ PreloadNext => IInv'
<1> SUFFICES ASSUME IInv, PreloadNext PROVE IInv'
  OBVIOUS
<1> USE ConstantFacts DEF IInv
<1>1. LruMatchesModels' /\ WithinCapacity' /\ PinnedLoaded'
  BY DEF PreloadNext, LruMatchesModels, WithinCapacity, PinnedLoaded, Loaded
<1>2. HeldInv'
  BY DEF PreloadNext, HeldInv, TypeOK
<1>3. /\ boot \in 1 .. Len(Preload) /\ stage[Main] = "idle"
      /\ UNCHANGED <<models, lru, pinned, lock, held, loads>>
  BY DEF PreloadNext
<1>4. CASE /\ boot > 1 /\ Preload[boot] = Preload[1]
           /\ boot' = boot + 1
           /\ UNCHANGED <<stage, want>>
  <2>1. TypeOK'
    BY <1>3, <1>4 DEF TypeOK, Stage
  <2>2. \A i \in DOMAIN Preload : i < boot' => Preload[i] \in pinned'
    <3>1. Preload[1] \in pinned
      BY <1>3, <1>4 DEF BootInv
    <3> QED BY <1>3, <1>4, <3>1 DEF BootInv
  <2>3. BootInv'
    BY <1>3, <1>4, <2>2 DEF BootInv, Serving, Loaded
  <2> QED BY <1>1, <1>2, <2>1, <2>3
<1>5. CASE /\ stage' = [stage EXCEPT ![Main] = "touching"]
           /\ want' = [want EXCEPT ![Main] = Preload[boot]]
           /\ UNCHANGED boot
  <2>1. TypeOK'
    BY <1>3, <1>5 DEF TypeOK, Stage
  <2>2. BootInv'
    BY <1>3, <1>5 DEF BootInv, TypeOK, Serving, Loaded
  <2> QED BY <1>1, <1>2, <2>1, <2>2
<1> QED BY <1>4, <1>5 DEF PreloadNext

LEMMA CallIInv ==
  ASSUME NEW r \in Request, NEW k \in Key, IInv, Call(r, k)
  PROVE  IInv'
<1> USE ConstantFacts DEF IInv
<1>1. TypeOK'
  BY DEF TypeOK, Call, Stage
<1>2. LruMatchesModels' /\ WithinCapacity' /\ PinnedLoaded'
  BY DEF Call, LruMatchesModels, WithinCapacity, PinnedLoaded, Loaded
<1>3. HeldInv'
  BY DEF Call, HeldInv, TypeOK
<1>4. BootInv'
  BY DEF Call, BootInv, TypeOK, Serving, Loaded
<1> QED BY <1>1, <1>2, <1>3, <1>4

LEMMA TouchIInv ==
  ASSUME NEW t \in Thread, IInv, Touch(t)
  PROVE  IInv'
<1> USE ConstantFacts DEF IInv
<1>0. want[t] \in Key /\ stage[t] = "touching"
  BY DEF Touch, TypeOK
<1>1. CASE models[want[t]] # 0
  <2>1. /\ lru' = MoveToBack(lru, want[t])
        /\ held' = [held EXCEPT ![t] = models[want[t]]]
        /\ stage' = [stage EXCEPT
                       ![t] = IF Pinning(t) THEN "pinning" ELSE "using"]
        /\ UNCHANGED <<models, pinned, lock, want, loads, boot>>
    BY <1>1 DEF Touch
  <2>2. /\ lru' \in Seq(Key) /\ Distinct(lru')
        /\ \A k : Occurs(lru', k) <=> Occurs(lru, k)
    BY <1>0, <2>1, MoveToBackKeeps, LruMatchesDef DEF TypeOK
  <2>3. TypeOK'
    BY <1>0, <2>1, <2>2 DEF TypeOK, Stage
  <2>4. LruMatchesModels'
    BY <2>1, <2>2, LruMatchesDef DEF LruMatchesModels, Distinct, Occurs
  <2>5. WithinCapacity' /\ PinnedLoaded'
    BY <2>1 DEF WithinCapacity, PinnedLoaded, Loaded
  <2>6. HeldInv'
    BY <1>0, <2>1 DEF HeldInv, TypeOK
  <2>7. BootInv'
    BY <1>0, <1>1, <2>1 DEF BootInv, TypeOK, Serving, Loaded, Pinning
  <2> QED BY <2>3, <2>4, <2>5, <2>6, <2>7
<1>2. CASE models[want[t]] = 0
  <2>1. /\ stage' = [stage EXCEPT ![t] = "loading"]
        /\ UNCHANGED <<lru, held, models, pinned, lock, want, loads, boot>>
    BY <1>2 DEF Touch
  <2>2. TypeOK'
    BY <1>0, <2>1 DEF TypeOK, Stage
  <2>3. LruMatchesModels' /\ WithinCapacity' /\ PinnedLoaded'
    BY <2>1 DEF LruMatchesModels, WithinCapacity, PinnedLoaded, Loaded
  <2>4. HeldInv'
    BY <1>0, <2>1 DEF HeldInv, TypeOK
  <2>5. BootInv'
    BY <1>0, <2>1 DEF BootInv, TypeOK, Serving, Loaded
  <2> QED BY <2>2, <2>3, <2>4, <2>5
<1> QED BY <1>1, <1>2

LEMMA PinHitIInv ==
  ASSUME NEW t \in Thread, IInv, PinHit(t)
  PROVE  IInv'
<1> USE ConstantFacts DEF IInv
<1>1. t = Main /\ want[t] \in Loaded /\ want[t] \in Key
  BY DEF PinHit, BootInv, Loaded
<1>2. TypeOK'
  BY <1>1 DEF PinHit, TypeOK, Stage
<1>3. LruMatchesModels' /\ WithinCapacity' /\ PinnedLoaded'
  BY <1>1 DEF PinHit, LruMatchesModels, WithinCapacity, PinnedLoaded, Loaded
<1>4. HeldInv'
  BY DEF PinHit, HeldInv, TypeOK
<1>5. BootInv'
  BY <1>1 DEF PinHit, BootInv, TypeOK, Serving, Loaded
<1> QED BY <1>2, <1>3, <1>4, <1>5

LEMMA LoadIInv ==
  ASSUME NEW t \in Thread, IInv, Load(t)
  PROVE  IInv'
<1> USE ConstantFacts DEF IInv
<1>1. TypeOK'
  BY DEF Load, TypeOK, Stage
<1>2. LruMatchesModels' /\ WithinCapacity' /\ PinnedLoaded'
  BY DEF Load, LruMatchesModels, WithinCapacity, PinnedLoaded, Loaded
<1>3. HeldInv'
  BY DEF Load, HeldInv, TypeOK
<1>4. BootInv'
  BY DEF Load, BootInv, TypeOK, Serving, Loaded
<1> QED BY <1>1, <1>2, <1>3, <1>4

LEMMA LoadFailIInv ==
  ASSUME NEW t \in Thread, IInv, LoadFail(t)
  PROVE  IInv'
<1> USE ConstantFacts DEF IInv
<1>1. TypeOK'
  BY DEF LoadFail, TypeOK, Stage
<1>2. LruMatchesModels' /\ WithinCapacity' /\ PinnedLoaded'
  BY DEF LoadFail, LruMatchesModels, WithinCapacity, PinnedLoaded, Loaded
<1>3. HeldInv'
  BY DEF LoadFail, HeldInv, TypeOK
<1>4. BootInv'
  <2>1. CASE t = Main
    BY <2>1 DEF LoadFail, BootInv, TypeOK, Serving, Loaded
  <2>2. CASE t # Main
    BY <2>2 DEF LoadFail, BootInv, TypeOK, Serving, Loaded
  <2> QED BY <2>1, <2>2
<1> QED BY <1>1, <1>2, <1>3, <1>4

LEMMA InsertExistingIInv ==
  ASSUME NEW t \in Thread, IInv, InsertExisting(t)
  PROVE  IInv'
<1> USE ConstantFacts DEF IInv
<1>0. want[t] \in Key /\ stage[t] = "inserting" /\ models[want[t]] # 0
  BY DEF InsertExisting, TypeOK
<1>1. /\ lru' \in Seq(Key) /\ Distinct(lru')
      /\ \A k : Occurs(lru', k) <=> Occurs(lru, k)
  BY <1>0, MoveToBackKeeps, LruMatchesDef DEF InsertExisting, TypeOK
<1>2. TypeOK'
  BY <1>0, <1>1 DEF InsertExisting, TypeOK, Stage
<1>3. LruMatchesModels'
  BY <1>1, LruMatchesDef
    DEF InsertExisting, LruMatchesModels, Distinct, Occurs
<1>4. WithinCapacity' /\ PinnedLoaded'
  BY <1>0 DEF InsertExisting, WithinCapacity, PinnedLoaded, Loaded
<1>5. HeldInv'
  BY <1>0 DEF InsertExisting, HeldInv, TypeOK
<1>6. BootInv'
  BY <1>0 DEF InsertExisting, BootInv, TypeOK, Serving, Loaded, Pinning
<1> QED BY <1>2, <1>3, <1>4, <1>5, <1>6

LEMMA InsertNewIInv ==
  ASSUME NEW t \in Thread, IInv, InsertNew(t)
  PROVE  IInv'
<1> USE ConstantFacts DEF IInv
<1>0. /\ want[t] \in Key /\ stage[t] = "inserting" /\ models[want[t]] = 0
      /\ held[t] # 0 /\ lock = Unlocked
  BY DEF InsertNew, TypeOK, HeldInv
<1>1. /\ lru' \in Seq(Key) /\ Distinct(lru')
      /\ \A k : Occurs(lru', k) <=> Occurs(lru, k) \/ k = want[t]
  BY <1>0, AppendDistinct, LruMatchesDef DEF InsertNew, TypeOK
<1>2. TypeOK'
  BY <1>0, <1>1 DEF InsertNew, TypeOK, Stage
<1>3. LruMatchesModels'
  <2>1. \A k \in Key : models'[k] # 0 <=> Occurs(lru', k)
    BY <1>0, <1>1, LruMatchesDef DEF InsertNew, TypeOK
  <2> QED BY <1>1, <2>1 DEF LruMatchesModels, Distinct, Occurs
<1>4. WithinCapacity' /\ PinnedLoaded'
  BY <1>0 DEF InsertNew, WithinCapacity, PinnedLoaded, Loaded, TypeOK
<1>5. HeldInv'
  BY <1>0 DEF InsertNew, HeldInv, TypeOK
<1>6. BootInv'
  BY <1>0 DEF InsertNew, BootInv, TypeOK, Serving, Loaded, Pinning
<1> QED BY <1>2, <1>3, <1>4, <1>5, <1>6

LEMMA EvictOneIInv ==
  ASSUME NEW t \in Thread, IInv, EvictOne(t)
  PROVE  IInv'
<1> USE ConstantFacts DEF IInv
<1> DEFINE v == lru[FirstVictim]
<1>1. /\ FirstVictim \in 1 .. Len(lru) /\ v \in Key /\ v \notin pinned
  BY VictimListed DEF EvictOne, TypeOK
<1>2. /\ lru' \in Seq(Key) /\ Distinct(lru')
      /\ \A k : Occurs(lru', k) <=> Occurs(lru, k) /\ k # v
  BY <1>1, RemoveAtDistinct, LruMatchesDef DEF EvictOne, TypeOK
<1>3. /\ models' = [models EXCEPT ![v] = 0]
      /\ UNCHANGED <<pinned, lock, stage, want, held, loads, boot>>
      /\ lock = t
  BY DEF EvictOne, TypeOK
<1>4. Occurs(lru, v)
  BY <1>1, LenProperties DEF Occurs, TypeOK
<1> HIDE DEF v
<1>5. Serving
  BY <1>1, <1>4, LruMatchesDef DEF BootInv, Loaded
<1>6. TypeOK'
  BY <1>1, <1>2, <1>3 DEF TypeOK, Stage
<1>7. LruMatchesModels'
  <2>1. \A k \in Key : models'[k] # 0 <=> Occurs(lru', k)
    BY <1>1, <1>2, <1>3, LruMatchesDef DEF TypeOK
  <2> QED BY <1>2, <2>1 DEF LruMatchesModels, Distinct, Occurs
<1>8. WithinCapacity' /\ PinnedLoaded'
  BY <1>1, <1>3 DEF WithinCapacity, PinnedLoaded, Loaded, TypeOK
<1>9. HeldInv'
  BY <1>3 DEF HeldInv
<1>10. BootInv'
  BY <1>3, <1>5 DEF BootInv, Serving, TypeOK
<1> QED BY <1>6, <1>7, <1>8, <1>9, <1>10

LEMMA EvictDoneIInv ==
  ASSUME NEW t \in Thread, IInv, EvictDone(t)
  PROVE  IInv'
<1> USE ConstantFacts DEF IInv
<1>1. lock = t /\ stage[t] = "evicting"
  BY DEF EvictDone, TypeOK
<1>2. TypeOK'
  BY <1>1 DEF EvictDone, TypeOK, Stage
<1>3. LruMatchesModels' /\ PinnedLoaded'
  BY DEF EvictDone, LruMatchesModels, PinnedLoaded, Loaded
<1>4. WithinCapacity'
  <2>1. CASE ~ OverCapacity
    <3>1. MaxLoaded # 0 => ~ (Cardinality(Loaded) > MaxLoaded)
      BY <2>1 DEF OverCapacity
    <3>2. Cardinality(Loaded) \in Nat
      BY LoadedFinite, FS_CardinalityType
    <3>3. MaxLoaded # 0 => Cardinality(Loaded) <= MaxLoaded
      BY <3>1, <3>2, RegistryAssumption
    <3> QED BY <3>3 DEF EvictDone, WithinCapacity, Loaded
  <2>2. CASE Victims = {}
    <3>1. Loaded \subseteq pinned
      BY <2>2 DEF Victims, LruMatchesModels, Loaded
    <3> QED BY <3>1 DEF EvictDone, WithinCapacity, Loaded
  <2> QED BY <2>1, <2>2 DEF EvictDone
<1>5. HeldInv'
  BY <1>1 DEF EvictDone, HeldInv, TypeOK
<1>6. BootInv'
  BY <1>1 DEF EvictDone, BootInv, TypeOK, Serving, Loaded
<1> QED BY <1>2, <1>3, <1>4, <1>5, <1>6

LEMMA ReleaseIInv ==
  ASSUME NEW t \in Thread, IInv, Release(t)
  PROVE  IInv'
<1> USE ConstantFacts DEF IInv
<1>1. LruMatchesModels' /\ WithinCapacity' /\ PinnedLoaded'
  BY DEF Release, LruMatchesModels, WithinCapacity, PinnedLoaded, Loaded
<1>2. HeldInv'
  BY DEF Release, HeldInv, TypeOK
<1>3. CASE t = Main
  <2>1. TypeOK'
    BY <1>3 DEF Release, TypeOK, Stage, BootInv
  <2>2. BootInv'
    BY <1>3 DEF Release, BootInv, TypeOK, Serving, Loaded
  <2> QED BY <1>1, <1>2, <2>1, <2>2
<1>4. CASE t # Main
  <2>1. TypeOK'
    BY <1>4 DEF Release, TypeOK, Stage
  <2>2. BootInv'
    BY <1>4 DEF Release, BootInv, TypeOK, Serving, Loaded
  <2> QED BY <1>1, <1>2, <2>1, <2>2
<1> QED BY <1>3, <1>4

LEMMA NextIInv == IInv /\ [Next]_vars => IInv'
<1> SUFFICES ASSUME IInv, [Next]_vars PROVE IInv'
  OBVIOUS
<1>1. CASE PreloadNext
  BY <1>1, PreloadNextIInv
<1>2. ASSUME NEW r \in Request, NEW k \in Key, Call(r, k) PROVE IInv'
  BY <1>2, CallIInv
<1>3. ASSUME NEW t \in Thread, Step(t) PROVE IInv'
  BY <1>3, TouchIInv, PinHitIInv, LoadIInv, LoadFailIInv, InsertExistingIInv,
     InsertNewIInv, EvictOneIInv, EvictDoneIInv, ReleaseIInv DEF Step, Evict
<1>4. CASE UNCHANGED vars
  BY <1>4 DEF vars, IInv, TypeOK, LruMatchesModels, WithinCapacity,
              PinnedLoaded, BootInv, HeldInv, Loaded, Serving
<1> QED BY <1>1, <1>2, <1>3, <1>4 DEF Next

(* The invariant holds of every reachable state.                           *)
THEOREM Inductive == Spec => []IInv
<1>1. Init => IInv
  BY InitIInv
<1>2. IInv /\ [Next]_vars => IInv'
  BY NextIInv
<1> QED BY <1>1, <1>2, PTL DEF Spec

-------------------------------------------------------------------------------
(* The properties the runs check, for every instance.                      *)

(* Every variable of the registry stays in its type.                       *)
THEOREM TypeCorrect == Spec => []TypeOK
<1>1. IInv => TypeOK
  BY DEF IInv
<1> QED BY <1>1, Inductive, PTL

(* The recency list and the map agree whenever the mutex could be looked   *)
(* at, in the middle of evict too.                                         *)
THEOREM LruAgrees == Spec => []LruMatchesModels
<1>1. IInv => LruMatchesModels
  BY DEF IInv
<1> QED BY <1>1, Inductive, PTL

(* insert never returns with more than max_loaded models cached unless all *)
(* that is left is pinned.                                                 *)
THEOREM CapacityKept == Spec => []WithinCapacity
<1>1. IInv => WithinCapacity
  BY DEF IInv
<1> QED BY <1>1, Inductive, PTL

(* What the server preloaded is still loaded after any number of requests. *)
THEOREM WarmKept == Spec => []WarmStayLoaded
<1>1. IInv => WarmStayLoaded
  BY ConstantFacts DEF IInv, BootInv, PinnedLoaded, WarmStayLoaded, Loaded
<1> QED BY <1>1, Inductive, PTL

(* No step exchanges the instance of a cached model for another one.       *)
THEOREM InstanceKept == Spec => CachedInstanceStable
<1> DEFINE Stable == \A k \in Key : models[k] # 0 => models'[k] \in {0, models[k]}
<1>1. IInv /\ [Next]_vars => [Stable]_vars
  <2> SUFFICES ASSUME IInv, [Next]_vars, vars' # vars PROVE Stable
    OBVIOUS
  <2> USE DEF IInv, TypeOK
  <2>1. CASE PreloadNext
    BY <2>1 DEF PreloadNext
  <2>2. ASSUME NEW r \in Request, NEW k \in Key, Call(r, k) PROVE Stable
    BY <2>2 DEF Call
  <2>3. ASSUME NEW t \in Thread, InsertNew(t) PROVE Stable
    BY <2>3 DEF InsertNew
  <2>4. ASSUME NEW t \in Thread, EvictOne(t) PROVE Stable
    BY <2>4 DEF EvictOne
  <2>5. ASSUME NEW t \in Thread,
               Touch(t) \/ PinHit(t) \/ Load(t) \/ LoadFail(t)
                 \/ InsertExisting(t) \/ EvictDone(t) \/ Release(t)
        PROVE  Stable
    BY <2>5 DEF Touch, PinHit, Load, LoadFail, InsertExisting, EvictDone, Release
  <2> QED BY <2>1, <2>2, <2>3, <2>4, <2>5 DEF Next, Step, Evict
<1> QED BY <1>1, Inductive, PTL DEF Spec, CachedInstanceStable
-------------------------------------------------------------------------------
(* The registry implements LruCache.  Recency is the order of a list.      *)

(* j stands behind k: it has been used since k was.                        *)
After(s, j, k) == \E m, n \in DOMAIN s : m < n /\ s[m] = k /\ s[n] = j

(* What NewerInList says of the list s.                                    *)
NewerOf(s) ==
  [k \in Key |->
     IF \E i \in DOMAIN s : s[i] = k
     THEN {s[j] : j \in {i \in DOMAIN s : i > Position(s, k)}}
     ELSE {}]

LEMMA NewerOfAfter ==
  ASSUME NEW s \in Seq(Key), Distinct(s)
  PROVE  NewerOf(s) = [k \in Key |-> {j \in Key : After(s, j, k)}]
<1>0. Len(s) \in Nat /\ DOMAIN s = 1 .. Len(s) /\ \A i \in 1 .. Len(s) : s[i] \in Key
  BY LenProperties, ElementOfSeq
<1>1. ASSUME NEW k \in Key PROVE NewerOf(s)[k] = {j \in Key : After(s, j, k)}
  <2>1. CASE ~ Occurs(s, k)
    BY <2>1 DEF NewerOf, Occurs, After
  <2>2. CASE Occurs(s, k)
    <3> DEFINE p == Position(s, k)
    <3>1. p \in 1 .. Len(s) /\ s[p] = k
      BY <2>2, PositionOccurs
    <3>2. NewerOf(s)[k] = {s[j] : j \in {i \in DOMAIN s : i > p}}
      BY <2>2 DEF NewerOf, Occurs
    <3> HIDE DEF p
    <3>3. \A m \in DOMAIN s : s[m] = k => m = p
      BY <1>0, <3>1 DEF Distinct
    <3>4. \A j : j \in NewerOf(s)[k] <=> \E n \in DOMAIN s : n > p /\ s[n] = j
      BY <3>2
    <3>5. \A j : After(s, j, k) <=> \E n \in DOMAIN s : n > p /\ s[n] = j
      BY <1>0, <3>1, <3>3 DEF After
    <3>6. \A j : After(s, j, k) => j \in Key
      BY <1>0 DEF After
    <3> QED BY <3>4, <3>5, <3>6
  <2> QED BY <2>1, <2>2
<1> QED BY <1>1 DEF NewerOf

LEMMA AppendAfter ==
  ASSUME NEW S, NEW s \in Seq(S), NEW e \in S, ~ Occurs(s, e)
  PROVE  \A j, k : After(Append(s, e), j, k) <=>
                     After(s, j, k) \/ (j = e /\ Occurs(s, k))
<1> DEFINE r == Append(s, e)
<1>1. /\ r \in Seq(S) /\ Len(r) = Len(s) + 1
      /\ \A i \in 1 .. Len(s) : r[i] = s[i]
      /\ r[Len(s) + 1] = e
  BY AppendProperties
<1> HIDE DEF r
<1>2. Len(s) \in Nat /\ DOMAIN s = 1 .. Len(s) /\ DOMAIN r = 1 .. Len(s) + 1
  BY <1>1, LenProperties
<1>3. ASSUME NEW j, NEW k, After(r, j, k)
      PROVE  After(s, j, k) \/ (j = e /\ Occurs(s, k))
  <2>1. PICK m \in DOMAIN r, n \in DOMAIN r : m < n /\ r[m] = k /\ r[n] = j
    BY <1>3 DEF After
  <2>2. m \in 1 .. Len(s) /\ s[m] = k
    BY <1>1, <1>2, <2>1
  <2>3. CASE n = Len(s) + 1
    BY <1>1, <1>2, <2>1, <2>2, <2>3 DEF Occurs
  <2>4. CASE n \in 1 .. Len(s)
    BY <1>1, <1>2, <2>1, <2>2, <2>4 DEF After
  <2> QED BY <1>2, <2>3, <2>4
<1>4. ASSUME NEW j, NEW k, After(s, j, k) PROVE After(r, j, k)
  <2>1. PICK m \in DOMAIN s, n \in DOMAIN s : m < n /\ s[m] = k /\ s[n] = j
    BY <1>4 DEF After
  <2>2. m \in DOMAIN r /\ n \in DOMAIN r /\ r[m] = k /\ r[n] = j
    BY <1>1, <1>2, <2>1
  <2> QED BY <2>1, <2>2 DEF After
<1>5. ASSUME NEW k, Occurs(s, k) PROVE After(r, e, k)
  <2>1. PICK m \in DOMAIN s : s[m] = k
    BY <1>5 DEF Occurs
  <2>2. m \in DOMAIN r /\ Len(s) + 1 \in DOMAIN r /\ m < Len(s) + 1 /\ r[m] = k
    BY <1>1, <1>2, <2>1
  <2> QED BY <1>1, <2>2 DEF After
<1> QED BY <1>3, <1>4, <1>5 DEF r

LEMMA RemoveAtAfter ==
  ASSUME NEW S, NEW s \in Seq(S), NEW p \in 1 .. Len(s), Distinct(s)
  PROVE  \A j, k : After(RemoveAt(s, p), j, k) <=>
                     After(s, j, k) /\ j # s[p] /\ k # s[p]
<1> DEFINE r == RemoveAt(s, p)
<1>1. /\ r \in Seq(S) /\ Len(r) = Len(s) - 1
      /\ \A i \in 1 .. Len(s) - 1 : r[i] = IF i < p THEN s[i] ELSE s[i + 1]
  BY RemoveAtShifts
<1> HIDE DEF r
<1>2. Len(s) \in Nat /\ DOMAIN s = 1 .. Len(s) /\ DOMAIN r = 1 .. Len(s) - 1
  BY <1>1, LenProperties
<1>3. \A m, n \in 1 .. Len(s) : s[m] = s[n] => m = n
  BY <1>2 DEF Distinct
<1>4. ASSUME NEW j, NEW k, After(r, j, k)
      PROVE  After(s, j, k) /\ j # s[p] /\ k # s[p]
  <2>1. PICK m \in DOMAIN r, n \in DOMAIN r : m < n /\ r[m] = k /\ r[n] = j
    BY <1>4 DEF After
  <2> DEFINE a == IF m < p THEN m ELSE m + 1
             b == IF n < p THEN n ELSE n + 1
  <2>2. a \in 1 .. Len(s) /\ b \in 1 .. Len(s) /\ a < b /\ a # p /\ b # p
    BY <1>2, <2>1
  <2>3. s[a] = k /\ s[b] = j
    BY <1>1, <1>2, <2>1
  <2> HIDE DEF a, b
  <2> QED BY <1>2, <1>3, <2>2, <2>3 DEF After
<1>5. ASSUME NEW j, NEW k, After(s, j, k), j # s[p], k # s[p]
      PROVE  After(r, j, k)
  <2>1. PICK m \in DOMAIN s, n \in DOMAIN s : m < n /\ s[m] = k /\ s[n] = j
    BY <1>5 DEF After
  <2>2. m # p /\ n # p
    BY <1>5, <2>1
  <2> DEFINE a == IF m < p THEN m ELSE m - 1
             b == IF n < p THEN n ELSE n - 1
  <2>3. a \in 1 .. Len(s) - 1 /\ b \in 1 .. Len(s) - 1 /\ a < b
    BY <1>2, <2>1, <2>2
  <2>4. r[a] = k /\ r[b] = j
    BY <1>1, <1>2, <2>1, <2>2, <2>3
  <2> HIDE DEF a, b
  <2> QED BY <1>2, <2>3, <2>4 DEF After
<1> QED BY <1>4, <1>5 DEF r

(* move_to_back makes its key the most recent and leaves the order of the  *)
(* others alone.                                                           *)
LEMMA MoveToBackAfter ==
  ASSUME NEW S, NEW s \in Seq(S), NEW e \in S, Distinct(s), Occurs(s, e)
  PROVE  \A j, k : After(MoveToBack(s, e), j, k) <=>
                     /\ k # e
                     /\ (j # e /\ After(s, j, k)) \/ (j = e /\ Occurs(s, k))
<1> DEFINE p == Position(s, e)
           r == RemoveAt(s, p)
<1>1. p \in 1 .. Len(s) /\ s[p] = e
  BY PositionOccurs
<1> HIDE DEF p
<1>2. /\ r \in Seq(S) /\ Distinct(r)
      /\ \A k : Occurs(r, k) <=> Occurs(s, k) /\ k # e
  BY <1>1, RemoveAtDistinct
<1>3. \A j, k : After(r, j, k) <=> After(s, j, k) /\ j # e /\ k # e
  BY <1>1, RemoveAtAfter
<1>4. MoveToBack(s, e) = Append(r, e)
  BY DEF MoveToBack, Occurs, p
<1> HIDE DEF r
<1>5. \A j, k : After(Append(r, e), j, k) <=>
                  After(r, j, k) \/ (j = e /\ Occurs(r, k))
  BY <1>2, AppendAfter
<1> QED BY <1>2, <1>3, <1>4, <1>5

-------------------------------------------------------------------------------
(* What the steps need besides the invariant of RegistryProofs: a thread   *)
(* on its way to insert owns one of the instances, and a thread that was   *)
(* given something owns it.                                                *)
GivenInv ==
  \A t \in Thread :
    /\ stage[t] = "inserting" => held[t] \in 1 .. MaxLoads
    /\ stage[t] \in {"pinning", "evicting", "using"} => held[t] # 0

LInv == IInv /\ GivenInv

LEMMA InitLInv == Init => LInv
BY InitIInv DEF LInv, GivenInv, Init

LEMMA NextLInv == LInv /\ [Next]_vars => LInv'
<1> SUFFICES ASSUME LInv, [Next]_vars PROVE LInv'
  OBVIOUS
<1>1. IInv'
  BY NextIInv DEF LInv
<1> USE ConstantFacts DEF LInv, IInv, TypeOK
<1>2. CASE PreloadNext
  BY <1>1, <1>2 DEF PreloadNext, GivenInv
<1>3. ASSUME NEW r \in Request, NEW k \in Key, Call(r, k) PROVE LInv'
  BY <1>1, <1>3 DEF Call, GivenInv
<1>4. ASSUME NEW t \in Thread, Step(t) PROVE GivenInv'
  <2>1. CASE Touch(t)
    BY <2>1 DEF Touch, GivenInv
  <2>2. CASE PinHit(t)
    BY <2>2 DEF PinHit, GivenInv
  <2>3. CASE Load(t)
    BY <2>3 DEF Load, GivenInv
  <2>4. CASE LoadFail(t)
    BY <2>4 DEF LoadFail, GivenInv
  <2>5. CASE InsertExisting(t)
    BY <2>5 DEF InsertExisting, GivenInv
  <2>6. CASE InsertNew(t)
    BY <2>6 DEF InsertNew, GivenInv
  <2>7. CASE EvictOne(t)
    BY <2>7 DEF EvictOne, GivenInv
  <2>8. CASE EvictDone(t)
    BY <2>8 DEF EvictDone, GivenInv
  <2>9. CASE Release(t)
    BY <2>9 DEF Release, GivenInv
  <2> QED BY <1>4, <2>1, <2>2, <2>3, <2>4, <2>5, <2>6, <2>7, <2>8, <2>9 DEF Step, Evict
<1>5. CASE UNCHANGED vars
  BY <1>1, <1>5 DEF vars, GivenInv
<1> QED BY <1>1, <1>2, <1>3, <1>4, <1>5 DEF Next

-------------------------------------------------------------------------------
(* The steps of Registry are steps of LruCache.                            *)

(* What LruCache sees of a state.                                          *)
LEMMA Seen ==
  ASSUME LInv
  PROVE  /\ lru \in Seq(Key) /\ Distinct(lru)
         /\ \A k \in Key : Occurs(lru, k) <=> models[k] # 0
         /\ Cache!Cached = Loaded
         /\ NewerInList = [k \in Key |-> {j \in Key : After(lru, j, k)}]
<1>1. lru \in Seq(Key) /\ Distinct(lru) /\ \A k \in Key : Occurs(lru, k) <=> models[k] # 0
  BY LruMatchesDef DEF LInv, IInv, TypeOK
<1>2. NewerInList = NewerOf(lru)
  BY DEF NewerInList, NewerOf
<1> QED BY <1>1, <1>2, NewerOfAfter DEF Cache!Cached, Loaded

LEMMA SeenNext ==
  ASSUME LInv'
  PROVE  NewerInList' = [k \in Key |-> {j \in Key : After(lru', j, k)}]
<1>1. lru' \in Seq(Key) /\ Distinct(lru')
  BY DEF LInv, IInv, TypeOK, LruMatchesModels, Distinct
<1>2. NewerInList' = NewerOf(lru')
  BY DEF NewerInList, NewerOf
<1> QED BY <1>1, <1>2, NewerOfAfter

(* A step that changes neither the map nor what anybody was given.         *)
LEMMA Stutters ==
  ASSUME LInv, UNCHANGED <<models, lru, pinned>>,
         \A t \in Thread : Given'[t] = Given[t]
  PROVE  UNCHANGED Cache!vars
<1>1. Given' = Given
  BY DEF Given
<1>2. NewerInList' = NewerInList
  BY DEF NewerInList
<1> QED BY <1>1, <1>2 DEF Cache!vars

(* One thread is given something, or gives it back.                        *)
LEMMA GivenTo ==
  ASSUME NEW t \in Thread, NEW i,
         \A u \in Thread : u # t => stage'[u] = stage[u] /\ held'[u] = held[u],
         Given'[t] = i
  PROVE  Given' = [Given EXCEPT ![t] = i]
BY DEF Given

(* A key that is listed becomes the most recent one.                       *)
LEMMA MovedIsNewest ==
  ASSUME LInv, LInv', NEW k \in Key, models[k] # 0, lru' = MoveToBack(lru, k)
  PROVE  Cache!Newest(Loaded, k)
<1>1. \A i, j : After(lru', i, j) <=>
                  /\ j # k
                  /\ (i # k /\ After(lru, i, j)) \/ (i = k /\ Occurs(lru, j))
  BY Seen, MoveToBackAfter
<1>2. ASSUME NEW j \in Key
      PROVE  NewerInList'[j] =
               IF j = k \/ j \notin Loaded THEN {} ELSE NewerInList[j] \cup {k}
  <2>1. NewerInList'[j] = {i \in Key : After(lru', i, j)}
        /\ NewerInList[j] = {i \in Key : After(lru, i, j)}
    BY Seen, SeenNext
  <2>2. CASE j = k
    BY <1>1, <2>1, <2>2
  <2>3. CASE j \notin Loaded
    <3>1. ~ Occurs(lru, j) /\ \A i : ~ After(lru, i, j)
      BY <2>3, Seen DEF Loaded, Occurs, After
    <3> QED BY <1>1, <2>1, <2>3, <3>1
  <2>4. CASE j # k /\ j \in Loaded
    <3>1. Occurs(lru, j)
      BY <2>4, Seen DEF Loaded
    <3>2. \A i : After(lru', i, j) <=> (i # k /\ After(lru, i, j)) \/ i = k
      BY <1>1, <2>4, <3>1
    <3> QED BY <2>1, <2>4, <3>2
  <2> QED BY <2>2, <2>3, <2>4
<1>3. NewerInList' = [j \in Key |-> NewerInList'[j]]
  BY SeenNext
<1> QED BY <1>2, <1>3 DEF Cache!Newest

(* A key that is appended becomes the most recent one.                     *)
LEMMA AddedIsNewest ==
  ASSUME LInv, LInv', NEW k \in Key, models[k] = 0, lru' = Append(lru, k)
  PROVE  Cache!Newest(Loaded \cup {k}, k)
<1>0. ~ Occurs(lru, k)
  BY Seen
<1>1. \A i, j : After(lru', i, j) <=>
                  After(lru, i, j) \/ (i = k /\ Occurs(lru, j))
  BY <1>0, Seen, AppendAfter
<1>2. ASSUME NEW j \in Key
      PROVE  NewerInList'[j] = IF j = k \/ j \notin Loaded \cup {k}
                               THEN {} ELSE NewerInList[j] \cup {k}
  <2>1. NewerInList'[j] = {i \in Key : After(lru', i, j)}
        /\ NewerInList[j] = {i \in Key : After(lru, i, j)}
    BY Seen, SeenNext
  <2>2. CASE j \notin Loaded
    <3>1. ~ Occurs(lru, j) /\ \A i : ~ After(lru, i, j)
      BY <2>2, Seen DEF Loaded, Occurs, After
    <3> QED BY <1>1, <2>1, <2>2, <3>1
  <2>3. CASE j \in Loaded
    <3>1. Occurs(lru, j) /\ j # k
      BY <2>3, <1>0, Seen DEF Loaded
    <3> QED BY <1>1, <2>1, <2>3, <3>1
  <2> QED BY <2>2, <2>3
<1>3. NewerInList' = [j \in Key |-> NewerInList'[j]]
  BY SeenNext
<1> QED BY <1>2, <1>3 DEF Cache!Newest
-------------------------------------------------------------------------------
(* One lemma per action that LruCache sees.                                *)

LEMMA TouchMaps ==
  ASSUME LInv, LInv', NEW t \in Thread, Touch(t)
  PROVE  Cache!Next \/ UNCHANGED Cache!vars
<1> DEFINE k == want[t]
<1>0. k \in Key /\ stage[t] = "touching" /\ Given[t] = 0
  BY ConstantFacts DEF LInv, IInv, TypeOK, Touch, Given
<1>1. CASE models[k] # 0
  <2>1. /\ lru' = MoveToBack(lru, k)
        /\ held' = [held EXCEPT ![t] = models[k]]
        /\ stage' = [stage EXCEPT ![t] = IF Pinning(t) THEN "pinning" ELSE "using"]
        /\ UNCHANGED <<models, pinned>>
    BY <1>1 DEF Touch
  <2> HIDE DEF k
  <2>2. Given' = [Given EXCEPT ![t] = models[k]]
    <3>1. Given'[t] = models[k]
      BY <2>1 DEF Given, LInv, IInv, TypeOK
    <3> QED BY <2>1, <3>1, GivenTo DEF LInv, IInv, TypeOK
  <2>3. Cache!Newest(Loaded, k)
    BY <1>0, <1>1, <2>1, MovedIsNewest
  <2>4. Cache!Use(t, k)
    BY <1>0, <1>1, <2>1, <2>2, <2>3, Seen DEF Cache!Use, Cache!MayPin, Loaded
  <2> QED BY <1>0, <2>4 DEF Cache!Next
<1>2. CASE models[k] = 0
  <2>1. /\ stage' = [stage EXCEPT ![t] = "loading"]
        /\ UNCHANGED <<models, lru, pinned, held>>
    BY <1>2 DEF Touch
  <2>2. \A u \in Thread : Given'[u] = Given[u]
    BY <1>0, <2>1 DEF Given, LInv, IInv, TypeOK
  <2> QED BY <2>1, <2>2, Stutters
<1> QED BY <1>1, <1>2

LEMMA PinHitMaps ==
  ASSUME LInv, LInv', NEW t \in Thread, PinHit(t)
  PROVE  Cache!Next
<1>1. want[t] \in Loaded /\ want[t] \in Key
  BY DEF PinHit, LInv, IInv, BootInv, Loaded
<1>2. Given' = Given
  <2>1. \A u \in Thread : Given'[u] = Given[u]
    BY DEF PinHit, Given, LInv, IInv, TypeOK
  <2> QED BY <2>1 DEF Given
<1>3. NewerInList' = NewerInList
  BY DEF PinHit, NewerInList
<1>4. Cache!Pin(want[t])
  BY <1>1, <1>2, <1>3, Seen DEF PinHit, Cache!Pin
<1> QED BY <1>1, <1>4 DEF Cache!Next

LEMMA InsertExistingMaps ==
  ASSUME LInv, LInv', NEW t \in Thread, InsertExisting(t)
  PROVE  Cache!Next
<1> DEFINE k == want[t]
<1>0. k \in Key /\ models[k] # 0 /\ stage[t] = "inserting" /\ Given[t] = 0
  BY DEF LInv, IInv, TypeOK, InsertExisting, Given
<1>1. /\ lru' = MoveToBack(lru, k)
      /\ held' = [held EXCEPT ![t] = models[k]]
      /\ stage' = [stage EXCEPT ![t] = "using"]
      /\ pinned' \in {pinned, pinned \cup {k}}
      /\ UNCHANGED models
  BY DEF InsertExisting
<1> HIDE DEF k
<1>2. Given' = [Given EXCEPT ![t] = models[k]]
  <2>1. Given'[t] = models[k]
    BY <1>1 DEF Given, LInv, IInv, TypeOK
  <2> QED BY <1>1, <2>1, GivenTo DEF LInv, IInv, TypeOK
<1>3. Cache!Newest(Loaded, k)
  BY <1>0, <1>1, MovedIsNewest
<1>4. Cache!Use(t, k)
  BY <1>0, <1>1, <1>2, <1>3, Seen DEF Cache!Use, Cache!MayPin, Loaded
<1> QED BY <1>0, <1>4 DEF Cache!Next

LEMMA InsertNewMaps ==
  ASSUME LInv, LInv', NEW t \in Thread, InsertNew(t)
  PROVE  Cache!Next
<1> DEFINE k == want[t]
<1>0. /\ k \in Key /\ models[k] = 0 /\ stage[t] = "inserting" /\ Given[t] = 0
      /\ held[t] \in 1 .. MaxLoads
  BY DEF LInv, IInv, TypeOK, GivenInv, InsertNew, Given
<1>1. /\ lru' = Append(lru, k)
      /\ models' = [models EXCEPT ![k] = held[t]]
      /\ stage' = [stage EXCEPT ![t] = "evicting"]
      /\ pinned' \in {pinned, pinned \cup {k}}
      /\ UNCHANGED held
  BY DEF InsertNew
<1> HIDE DEF k
<1>2. Given' = [Given EXCEPT ![t] = held[t]]
  <2>1. Given'[t] = held[t]
    BY <1>1 DEF Given, LInv, IInv, TypeOK
  <2> QED BY <1>1, <2>1, GivenTo DEF LInv, IInv, TypeOK
<1>3. Cache!Newest(Loaded \cup {k}, k)
  BY <1>0, <1>1, AddedIsNewest
<1>4. Cache!Add(t, k)
  BY <1>0, <1>1, <1>2, <1>3, Seen DEF Cache!Add, Cache!MayPin, Loaded
<1> QED BY <1>0, <1>4 DEF Cache!Next

(* The first victim of the list is the key used longest ago: whatever else *)
(* could be evicted stands behind it.                                      *)
LEMMA EvictOneMaps ==
  ASSUME LInv, LInv', NEW t \in Thread, EvictOne(t)
  PROVE  Cache!Next
<1> DEFINE f == FirstVictim
           v == lru[f]
<1>0. Len(lru) \in Nat /\ DOMAIN lru = 1 .. Len(lru)
  BY LenProperties DEF LInv, IInv, TypeOK
<1>1. f \in 1 .. Len(lru) /\ v \in Key /\ v \notin pinned
  BY VictimListed DEF EvictOne, LInv, IInv, TypeOK
<1>2. \A i \in DOMAIN lru : lru[i] \notin pinned => f <= i
  <2>1. Victims \subseteq 1 .. Len(lru)
    BY <1>0 DEF Victims
  <2>2. \E m \in Victims : \A n \in Victims : m <= n
    BY <1>0, <2>1, SmallestExists DEF EvictOne
  <2>3. \A n \in Victims : f <= n
    BY <2>2 DEF FirstVictim
  <2> QED BY <2>3 DEF Victims
<1>3. /\ lru' = RemoveAt(lru, f)
      /\ models' = [models EXCEPT ![v] = 0]
      /\ UNCHANGED <<pinned, stage, held>>
      /\ MaxLoaded # 0 /\ Cardinality(Loaded) > MaxLoaded
  BY DEF EvictOne, OverCapacity
<1> HIDE DEF f
<1>4. Occurs(lru, v) /\ v \in Loaded
  BY <1>0, <1>1, Seen DEF Occurs, Loaded
<1>5. (Loaded \ pinned) \ {v} \subseteq NewerInList[v]
  <2> SUFFICES ASSUME NEW j \in Loaded, j \notin pinned, j # v
               PROVE  j \in NewerInList[v]
    OBVIOUS
  <2>1. PICK n \in DOMAIN lru : lru[n] = j
    BY Seen DEF Occurs, Loaded
  <2>2. f <= n /\ f # n
    BY <1>2, <2>1
  <2>3. After(lru, j, v)
    BY <1>0, <1>1, <2>1, <2>2 DEF After
  <2>4. j \in Key
    BY DEF Loaded
  <2> QED BY <1>1, <2>3, <2>4, Seen
<1> HIDE DEF v
<1>6. NewerInList' = [j \in Key |-> IF j = v THEN {} ELSE NewerInList[j] \ {v}]
  <2>1. \A i, j : After(lru', i, j) <=> After(lru, i, j) /\ i # v /\ j # v
    BY <1>1, <1>3, Seen, RemoveAtAfter DEF v
  <2>2. ASSUME NEW j \in Key
        PROVE  NewerInList'[j] = IF j = v THEN {} ELSE NewerInList[j] \ {v}
    <3>1. NewerInList'[j] = {i \in Key : After(lru', i, j)}
          /\ NewerInList[j] = {i \in Key : After(lru, i, j)}
      BY Seen, SeenNext
    <3> QED BY <2>1, <3>1
  <2>3. NewerInList' = [j \in Key |-> NewerInList'[j]]
    BY SeenNext
  <2> QED BY <2>2, <2>3
<1>7. Given' = Given
  BY <1>3 DEF Given
<1>8. Cache!Cardinality(Loaded) = Cardinality(Loaded)
  BY DEF Cache!Cardinality, Cache!IsFiniteSet, Cardinality, IsFiniteSet
<1>9. Cache!Drop(v)
  BY <1>1, <1>3, <1>4, <1>5, <1>6, <1>7, <1>8, Seen DEF Cache!Drop
<1> QED BY <1>1, <1>9 DEF Cache!Next

LEMMA ReleaseMaps ==
  ASSUME LInv, LInv', NEW t \in Thread, Release(t)
  PROVE  Cache!Next
<1>1. Given[t] # 0
  BY DEF Release, Given, LInv, GivenInv
<1>2. Given' = [Given EXCEPT ![t] = 0]
  <2>1. Given'[t] = 0
    BY DEF Release, Given, LInv, IInv, TypeOK
  <2>2. \A u \in Thread : u # t => stage'[u] = stage[u] /\ held'[u] = held[u]
    BY DEF Release, LInv, IInv, TypeOK
  <2> QED BY <2>1, <2>2, GivenTo
<1>3. NewerInList' = NewerInList
  BY DEF Release, NewerInList
<1>4. Cache!Return(t)
  BY <1>1, <1>2, <1>3 DEF Release, Cache!Return
<1> QED BY <1>4 DEF Cache!Next

(* The steps that LruCache does not see.                                   *)
LEMMA OthersStutter ==
  ASSUME LInv,
         \/ PreloadNext
         \/ \E r \in Request, k \in Key : Call(r, k)
         \/ \E t \in Thread : Load(t) \/ LoadFail(t) \/ EvictDone(t)
  PROVE  UNCHANGED Cache!vars
<1> USE ConstantFacts DEF LInv, IInv, TypeOK, Given
<1>1. CASE PreloadNext
  <2>1. UNCHANGED <<models, lru, pinned, held>>
        /\ \A t \in Thread : stage'[t] # stage[t] =>
             stage[t] = "idle" /\ stage'[t] = "touching"
    BY <1>1 DEF PreloadNext
  <2>2. \A t \in Thread : Given'[t] = Given[t]
    BY <2>1
  <2> QED BY <2>1, <2>2, Stutters
<1>2. ASSUME NEW r \in Request, NEW k \in Key, Call(r, k)
      PROVE  UNCHANGED Cache!vars
  <2>1. UNCHANGED <<models, lru, pinned>> /\ \A t \in Thread : Given'[t] = Given[t]
    BY <1>2 DEF Call
  <2> QED BY <2>1, Stutters
<1>3. ASSUME NEW t \in Thread, Load(t) \/ LoadFail(t) \/ EvictDone(t)
      PROVE  UNCHANGED Cache!vars
  <2>1. UNCHANGED <<models, lru, pinned>>
    BY <1>3 DEF Load, LoadFail, EvictDone
  <2>2. CASE Load(t)
    <3>1. \A u \in Thread : Given'[u] = Given[u]
      BY <2>2 DEF Load
    <3> QED BY <2>1, <3>1, Stutters
  <2>3. CASE LoadFail(t)
    <3>1. \A u \in Thread : Given'[u] = Given[u]
      BY <2>3 DEF LoadFail
    <3> QED BY <2>1, <3>1, Stutters
  <2>4. CASE EvictDone(t)
    <3>1. \A u \in Thread : Given'[u] = Given[u]
      BY <2>4 DEF EvictDone
    <3> QED BY <2>1, <3>1, Stutters
  <2> QED BY <1>3, <2>2, <2>3, <2>4
<1> QED BY <1>1, <1>2, <1>3

-------------------------------------------------------------------------------
LEMMA InitMaps == Init => Cache!Init
<1> SUFFICES ASSUME Init PROVE Cache!Init
  OBVIOUS
<1>1. NewerInList = [k \in Key |-> {}]
  BY DEF Init, NewerInList
<1>2. Given = [t \in Thread |-> 0]
  BY DEF Init, Given
<1> QED BY <1>1, <1>2 DEF Init, Cache!Init

LEMMA NextMaps == LInv /\ LInv' /\ [Next]_vars => [Cache!Next]_(Cache!vars)
<1> SUFFICES ASSUME LInv, LInv', [Next]_vars PROVE Cache!Next \/ UNCHANGED Cache!vars
  OBVIOUS
<1>1. CASE UNCHANGED vars
  BY <1>1 DEF vars, Cache!vars, Given, NewerInList
<1>2. CASE PreloadNext \/ \E r \in Request, k \in Key : Call(r, k)
  BY <1>2, OthersStutter
<1>3. ASSUME NEW t \in Thread, Step(t) PROVE Cache!Next \/ UNCHANGED Cache!vars
  BY <1>3, OthersStutter, TouchMaps, PinHitMaps, InsertExistingMaps,
     InsertNewMaps, EvictOneMaps, ReleaseMaps DEF Step, Evict
<1> QED BY <1>1, <1>2, <1>3 DEF Next

(* The registry is an LRU cache: a call is answered with the instance that *)
(* is cached for its name, which becomes the most recent one, only the     *)
(* name used longest ago is dropped, never a pinned one, and only while    *)
(* more than max_loaded are cached, however calls interleave.              *)
THEOREM RegistryIsLruCache == Spec => ImplementsLruCache
<1>1. Init => LInv
  BY InitLInv
<1>2. LInv /\ [Next]_vars => LInv'
  BY NextLInv
<1>3. Init => Cache!Init
  BY InitMaps
<1>4. LInv /\ LInv' /\ [Next]_vars => [Cache!Next]_(Cache!vars)
  BY NextMaps
<1> QED BY <1>1, <1>2, <1>3, <1>4, PTL DEF Spec, ImplementsLruCache, Cache!Spec
===============================================================================
