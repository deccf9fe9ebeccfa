------------------------------ MODULE VideoProofs ------------------------------
(***************************************************************************)
(* Theorems about Video for every set of threads, number of rounds and     *)
(* subprocesses, limit of output and size of the pipe.                     *)
(***************************************************************************)
EXTENDS Video, FiniteSetTheorems, TLAPS

-------------------------------------------------------------------------------
(* The inductive invariant.                                                *)

Running == {"poll", "kill", "wait", "join", "check"}
Inside  == Running \cup {"spawn", "drop"}

TypeOK ==
  /\ sequence \in 0 .. MaxSequence
  /\ dirs \subseteq 0 .. MaxSequence - 1
  /\ leftover \subseteq dirs
  /\ pc \in [Call -> Inside \cup {"idle", "create"}]
  /\ tries \in [Call -> 0 .. Attempts]
  /\ dir \in [Call -> 0 .. MaxSequence]
  /\ stage \in [Call -> Nat]
  /\ verdict \in [Call -> {"none", "late", "success", "failure"}]
  /\ child \in [Call -> {"none", "running", "ended"}]
  /\ exit \in [Call -> {"none", "success", "failure"}]
  /\ made \in [Call -> Nat]
  /\ pipe \in [Call -> Nat]
  /\ got \in [Call -> Nat]
  /\ reader \in [Call -> {"none", "reading", "ended"}]
  /\ lost \subseteq Call

(* A call has a directory from its creation to its drop: its own, with a   *)
(* number that has been given out.  What else there is was left before.    *)
Places ==
  /\ \A c \in Call : dir[c] # None <=> pc[c] \in Inside
  /\ \A c \in Call : dir[c] # None => dir[c] \in dirs \ leftover /\ dir[c] < sequence
  /\ \A c, d \in Call : c # d /\ dir[c] # None => dir[c] # dir[d]
  /\ dirs \subseteq leftover \cup {dir[c] : c \in Call}

(* The rounds that a call has lost, it has lost to directories left over.  *)
Rounds ==
  \A c \in Call :
    pc[c] = "create" => Attempts - tries[c] <= Cardinality(leftover \cap 0 .. sequence - 1)

(* Where the subprocess and the reader are follows from where the call is. *)
Control(c) ==
  /\ pc[c] \in {"idle", "create", "spawn", "drop"} => reader[c] = "none"
  /\ pc[c] \in {"poll", "kill", "wait", "join"} => reader[c] \in {"reading", "ended"}
  /\ pc[c] = "check" => reader[c] = "none"
  /\ c \in lost => pc[c] \in {"drop", "idle"}
  /\ pc[c] \in {"idle", "create", "spawn", "drop", "join", "check"} => child[c] = "none" \/ c \in lost
  /\ pc[c] \in {"poll", "kill"} => child[c] \in {"running", "ended"}
  /\ pc[c] = "wait" => child[c] = "ended"

(* Units are in the pipe or read, while the reader reads; when it has      *)
(* stopped, all are read or one too many.  The verdict "success" is the    *)
(* subprocess's own.                                                       *)
Units(c) ==
  /\ reader[c] = "reading" => made[c] = got[c] + pipe[c]
  /\ pc[c] \in Running /\ reader[c] # "reading" => got[c] = made[c] \/ got[c] = Cap + 1
  /\ pc[c] = "spawn" => made[c] = 0 /\ got[c] = 0 /\ pipe[c] = 0
  /\ reader[c] # "reading" => pipe[c] = 0
  /\ pc[c] \in {"idle", "create", "drop"} => made[c] = 0 /\ got[c] = 0
  /\ verdict[c] = "success" => exit[c] = "success" /\ pc[c] \in {"wait", "join", "check"}
  /\ pc[c] = "kill" => verdict[c] = "late"

IInv == TypeOK /\ Places /\ Rounds /\ \A c \in Call : Control(c) /\ Units(c)

-------------------------------------------------------------------------------
(* Directories.                                                            *)

LEMMA InitIInv == Init => IInv
<1> SUFFICES ASSUME Init PROVE IInv
  OBVIOUS
<1>1. TypeOK
  BY VideoAssumption DEF Init, TypeOK, None, Inside, Running
<1>2. Places /\ Rounds
  <2>1. Places
    BY DEF Init, Places, Inside, Running
  <2>2. Rounds
    BY DEF Init, Rounds
  <2> QED BY <2>1, <2>2
<1>3. \A c \in Call : Control(c) /\ Units(c)
  BY DEF Init, Control, Units, Running
<1> QED BY <1>1, <1>2, <1>3 DEF IInv

(* Steps that leave the directories and the stage of creation alone.       *)
LEMMA DirsKept ==
  ASSUME IInv, NEW c \in Call, UNCHANGED <<directories, tries, dir>>,
         pc' \in [Call -> Inside \cup {"idle", "create"}],
         \A d \in Call : pc'[d] \in Inside <=> pc[d] \in Inside,
         \A d \in Call : pc'[d] = "create" => pc[d] = "create"
  PROVE  Places' /\ Rounds'
<1>1. Places'
  BY DEF IInv, Places, directories, None
<1>2. Rounds'
  BY DEF IInv, Rounds, directories
<1> QED BY <1>1, <1>2

(* What is counted as left over below the next number only grows with it.  *)
LEMMA LeftoverGrows ==
  ASSUME TypeOK, sequence' = sequence + 1, UNCHANGED leftover, sequence' \in 0 .. MaxSequence
  PROVE  /\ Cardinality(leftover \cap 0 .. sequence - 1) \in Nat
         /\ Cardinality((leftover \cap 0 .. sequence - 1)') \in Nat
         /\ Cardinality(leftover \cap 0 .. sequence - 1) <= Cardinality((leftover \cap 0 .. sequence - 1)')
         /\ sequence \in leftover =>
              Cardinality((leftover \cap 0 .. sequence - 1)') = Cardinality(leftover \cap 0 .. sequence - 1) + 1
<1> DEFINE Below == leftover \cap 0 .. sequence - 1
           Upto  == leftover \cap 0 .. sequence
<1>1. (leftover \cap 0 .. sequence - 1)' = Upto
  BY DEF TypeOK
<1>2. IsFiniteSet(0 .. sequence)
  BY FS_Interval DEF TypeOK
<1>3. IsFiniteSet(Upto) /\ IsFiniteSet(Below)
  BY <1>2, FS_Subset DEF TypeOK
<1>4. Below \subseteq Upto
  BY DEF TypeOK
<1>5. Cardinality(Below) \in Nat /\ Cardinality(Upto) \in Nat /\ Cardinality(Below) <= Cardinality(Upto)
  BY <1>3, <1>4, FS_Subset, FS_CardinalityType
<1>6. ASSUME sequence \in leftover PROVE Cardinality(Upto) = Cardinality(Below) + 1
  <2>1. Upto = Below \cup {sequence} /\ sequence \notin Below
    BY <1>6 DEF TypeOK
  <2> QED BY <2>1, <1>3, FS_AddElement
<1> HIDE DEF Below, Upto
<1> QED BY <1>1, <1>5, <1>6 DEF Below

-------------------------------------------------------------------------------
(* The steps of a call.                                                    *)

LEMMA BeginIInv ==
  ASSUME IInv, NEW c \in Call, Begin(c)
  PROVE  IInv'
<1> USE DEF IInv
<1>1. TypeOK'
  BY VideoAssumption DEF TypeOK, Begin, Goto, directories, process, output
<1>2. Places'
  BY DEF TypeOK, Places, Begin, Goto, directories, Inside, Running
<1>3. Rounds'
  <2>1. Cardinality(leftover \cap 0 .. sequence - 1) \in Nat
    <3>1. IsFiniteSet(0 .. sequence - 1)
      BY FS_Interval DEF TypeOK
    <3> QED BY <3>1, FS_Subset, FS_CardinalityType
  <2> QED BY <2>1, VideoAssumption, SMTT(30) DEF TypeOK, Rounds, Begin, Goto, directories
<1>4. \A d \in Call : Control(d)' /\ Units(d)'
  BY DEF TypeOK, Control, Units, Begin, Goto, process, output, Running
<1> QED BY <1>1, <1>2, <1>3, <1>4

(* A number that is taken is taken by a directory left over.               *)
LEMMA CreateIInv ==
  ASSUME IInv, NEW c \in Call, Create(c)
  PROVE  IInv'
<1> USE DEF IInv
<1>0. /\ pc[c] = "create" /\ tries[c] \in 1 .. Attempts /\ sequence \in 0 .. MaxSequence - 1
      /\ sequence' = sequence + 1 /\ tries' = [tries EXCEPT ![c] = tries[c] - 1]
      /\ UNCHANGED <<leftover, stage, verdict, child, exit, made, pipe, got, reader, lost>>
      /\ \/ sequence \in dirs /\ UNCHANGED <<dirs, dir, pc>>
         \/ /\ sequence \notin dirs /\ dirs' = dirs \cup {sequence}
            /\ dir' = [dir EXCEPT ![c] = sequence] /\ pc' = [pc EXCEPT ![c] = "spawn"]
  BY VideoAssumption DEF TypeOK, Create, Goto, process, output
<1>1. TypeOK'
  <2>1. tries' \in [Call -> 0 .. Attempts] /\ sequence' \in 0 .. MaxSequence
    BY <1>0, VideoAssumption DEF TypeOK
  <2>2. /\ dirs' \subseteq 0 .. MaxSequence - 1 /\ leftover' \subseteq dirs'
        /\ pc' \in [Call -> Inside \cup {"idle", "create"}] /\ dir' \in [Call -> 0 .. MaxSequence]
    BY <1>0, VideoAssumption DEF TypeOK, Inside
  <2> QED BY <1>0, <2>1, <2>2 DEF TypeOK
<1>2. sequence \in dirs => sequence \in leftover
  BY DEF TypeOK, Places, None, Create
<1>3. Places'
  <2>1. CASE sequence \in dirs
    <3>1. \A d \in Call : dir[d] < sequence => dir[d] < sequence'
      BY <1>0 DEF TypeOK
    <3> QED BY <1>0, <2>1, <3>1 DEF Places
  <2>2. CASE sequence \notin dirs
    <3>1. /\ sequence' = sequence + 1 /\ leftover' = leftover /\ dirs' = dirs \cup {sequence}
          /\ dir' = [dir EXCEPT ![c] = sequence] /\ pc' = [pc EXCEPT ![c] = "spawn"]
          /\ sequence \in 0 .. MaxSequence - 1 /\ sequence \notin leftover /\ dir[c] = None
      BY <1>0, <2>2 DEF TypeOK, Places, Inside, Running
    <3>2. \A d \in Call : dir'[d] # None <=> pc'[d] \in Inside
      BY <3>1 DEF TypeOK, Places, None, Inside
    <3>3. \A d \in Call : dir'[d] # None => dir'[d] \in dirs' \ leftover' /\ dir'[d] < sequence'
      BY <3>1 DEF TypeOK, Places, None
    <3>4. \A d, e \in Call : d # e /\ dir'[d] # None => dir'[d] # dir'[e]
      BY <3>1 DEF TypeOK, Places, None
    <3>5. dirs' \subseteq leftover' \cup {dir'[d] : d \in Call}
      <4> SUFFICES ASSUME NEW x \in dirs', x \notin leftover PROVE \E d \in Call : x = dir'[d]
        BY <3>1
      <4>1. CASE x = sequence
        BY <3>1, <4>1 DEF TypeOK
      <4>2. CASE x \in dirs
        <5>1. PICK d \in Call : x = dir[d]
          BY <4>2 DEF Places
        <5>2. d # c
          BY <3>1, <5>1, <4>2 DEF TypeOK, None
        <5> QED BY <3>1, <5>1, <5>2 DEF TypeOK
      <4> QED BY <3>1, <4>1, <4>2
    <3> QED BY <3>2, <3>3, <3>4, <3>5 DEF Places
  <2> QED BY <2>1, <2>2
<1>4. Rounds'
  <2> SUFFICES ASSUME NEW d \in Call, pc'[d] = "create"
               PROVE  Attempts - tries'[d] <= Cardinality((leftover \cap 0 .. sequence - 1)')
    BY DEF Rounds
  <2> DEFINE Old == Cardinality(leftover \cap 0 .. sequence - 1)
             New == Cardinality((leftover \cap 0 .. sequence - 1)')
  <2>1. /\ Old \in Nat /\ New \in Nat /\ Old <= New
        /\ sequence \in leftover => New = Old + 1
    BY <1>0, <1>1, LeftoverGrows DEF TypeOK
  <2>2. pc[d] = "create" /\ Attempts - tries[d] <= Old
    BY <1>0 DEF TypeOK, Rounds
  <2> HIDE DEF Old, New
  <2>3. CASE d = c
    <3>1. sequence \in leftover /\ tries'[c] = tries[c] - 1
      BY <1>2, <2>3 DEF TypeOK, Create, Goto
    <3> QED BY <2>1, <2>2, <2>3, <3>1, VideoAssumption DEF TypeOK, New
  <2>4. CASE d # c
    BY <2>1, <2>2, <2>4, VideoAssumption DEF TypeOK, Create, New
  <2> QED BY <2>3, <2>4
<1>5. \A d \in Call : Control(d)' /\ Units(d)'
  BY DEF TypeOK, Control, Units, Create, Goto, process, output, Running
<1> QED BY <1>1, <1>3, <1>4, <1>5

(* A call returns from before its directory is made.                       *)
LEMMA CreateEndsIInv ==
  ASSUME IInv, NEW c \in Call, CreateFails(c) \/ CreateError(c)
  PROVE  IInv'
<1> USE DEF IInv
<1>1. /\ Return(c) /\ pc[c] = "create" /\ UNCHANGED <<dirs, leftover, process, output, lost>>
      /\ sequence' = sequence \/ (sequence' = sequence + 1 /\ sequence < MaxSequence)
  BY DEF CreateFails, CreateError, directories
<1>2. TypeOK'
  BY <1>1, VideoAssumption DEF TypeOK, Return, Goto, process, output, None, Inside, Running
<1>3. dir' = dir
  BY <1>1 DEF TypeOK, Places, Return, Inside, Running, None
<1>4. Places'
  BY <1>1, <1>3 DEF TypeOK, Places, Return, Goto, Inside, Running
<1>5. Rounds'
  <2>1. CASE sequence' = sequence
    BY <1>1, <2>1 DEF TypeOK, Rounds, Return, Goto
  <2>2. CASE sequence' = sequence + 1
    <3> SUFFICES ASSUME NEW d \in Call, pc'[d] = "create"
                 PROVE  Attempts - tries'[d] <= Cardinality((leftover \cap 0 .. sequence - 1)')
      BY DEF Rounds
    <3> DEFINE Old == Cardinality(leftover \cap 0 .. sequence - 1)
               New == Cardinality((leftover \cap 0 .. sequence - 1)')
    <3>1. Old \in Nat /\ New \in Nat /\ Old <= New
      BY <1>1, <1>2, <2>2, LeftoverGrows DEF TypeOK
    <3>2. tries'[d] = tries[d] /\ Attempts - tries[d] <= Old
      BY <1>1 DEF TypeOK, Return, Goto, Rounds
    <3> HIDE DEF Old, New
    <3> QED BY <3>1, <3>2, VideoAssumption DEF TypeOK, New
  <2> QED BY <1>1, <2>1, <2>2
<1>6. \A d \in Call : Control(d)' /\ Units(d)'
  BY <1>1 DEF TypeOK, Control, Units, Return, Goto, process, output, Running
<1> QED BY <1>2, <1>4, <1>5, <1>6

(* Drop: its own directory, and no other, is removed.                      *)
LEMMA DropIInv ==
  ASSUME IInv, NEW c \in Call, Drop(c)
  PROVE  IInv'
<1> USE DEF IInv
<1>1. /\ pc[c] = "drop" /\ dirs' = dirs \ {dir[c]} /\ Return(c)
      /\ UNCHANGED <<sequence, leftover, child, exit, made, pipe, got, reader, lost>>
  BY DEF Drop, process, output
<1>2. dir[c] \in dirs \ leftover /\ dir[c] # None
  BY <1>1 DEF Places, Inside
<1>3. TypeOK'
  <2>1. dirs' \subseteq 0 .. MaxSequence - 1 /\ leftover' \subseteq dirs'
    BY <1>1, <1>2 DEF TypeOK
  <2> QED BY <1>1, <2>1, VideoAssumption DEF TypeOK, Return, Goto, None
<1>4. dir' = [dir EXCEPT ![c] = None] /\ pc' = [pc EXCEPT ![c] = "idle"]
  BY <1>1 DEF Return, Goto
<1>5. Places'
  <2>1. \A d \in Call : dir'[d] # None <=> pc'[d] \in Inside
    BY <1>4 DEF TypeOK, Places, Inside, Running
  <2>2. \A d \in Call : dir'[d] # None => dir'[d] \in dirs' \ leftover' /\ dir'[d] < sequence'
    BY <1>1, <1>2, <1>4 DEF TypeOK, Places
  <2>3. \A d, e \in Call : d # e /\ dir'[d] # None => dir'[d] # dir'[e]
    BY <1>4 DEF TypeOK, Places
  <2>4. dirs' \subseteq leftover' \cup {dir'[d] : d \in Call}
    <3> SUFFICES ASSUME NEW x \in dirs', x \notin leftover PROVE \E d \in Call : x = dir'[d]
      BY <1>1
    <3>1. PICK d \in Call : x = dir[d]
      BY <1>1 DEF Places
    <3>2. d # c
      BY <1>1, <3>1
    <3> QED BY <1>4, <3>1, <3>2 DEF TypeOK
  <2> QED BY <2>1, <2>2, <2>3, <2>4 DEF Places
<1>6. Rounds'
  BY <1>1 DEF TypeOK, Rounds, Return, Goto
<1>7. \A d \in Call : Control(d)' /\ Units(d)'
  BY <1>1 DEF TypeOK, Control, Units, Return, Goto, Running
<1> QED BY <1>3, <1>5, <1>6, <1>7

(* The other steps of a call, between its directory and its end.           *)
LEMMA InsideIInv ==
  ASSUME IInv, NEW c \in Call,
         Spawn(c) \/ SpawnFails(c) \/ ReaderFails(c) \/ Poll(c) \/ Kill(c) \/ Wait(c) \/ Join(c) \/ Check(c)
  PROVE  IInv'
<1> USE DEF IInv
<1>1. UNCHANGED <<directories, tries, dir>>
  BY DEF Spawn, SpawnFails, ReaderFails, Poll, Kill, Wait, Join, Check, locals
<1>2. \E where \in Inside : pc[c] \in Inside /\ pc' = [pc EXCEPT ![c] = where]
  BY DEF Spawn, SpawnFails, ReaderFails, Poll, Kill, Wait, Join, Check, Goto, Inside, Running
<1>3. Places' /\ Rounds'
  <2>1. /\ pc' \in [Call -> Inside \cup {"idle", "create"}]
        /\ \A d \in Call : pc'[d] \in Inside <=> pc[d] \in Inside
        /\ \A d \in Call : pc'[d] = "create" => pc[d] = "create"
    BY <1>2 DEF TypeOK, Inside, Running
  <2> QED BY <1>1, <2>1, DirsKept
<1>4. CASE Spawn(c)
  <2>1. TypeOK'
    BY <1>1, <1>2, <1>4 DEF TypeOK, Spawn, directories, locals, output
  <2>2. \A d \in Call : Control(d)' /\ Units(d)'
    BY <1>4 DEF TypeOK, Control, Units, Spawn, Goto, locals, Running
  <2> QED BY <1>3, <2>1, <2>2
<1>5. CASE SpawnFails(c) \/ ReaderFails(c)
  <2>1. TypeOK'
    BY <1>1, <1>2, <1>5 DEF TypeOK, SpawnFails, ReaderFails, directories, locals, process, output
  <2>2. \A d \in Call : Control(d)' /\ Units(d)'
    BY <1>5 DEF TypeOK, Control, Units, SpawnFails, ReaderFails, Goto, locals, process, output, Running
  <2> QED BY <1>3, <2>1, <2>2
<1>6. CASE Poll(c)
  <2>1. TypeOK'
    BY <1>1, <1>2, <1>6 DEF TypeOK, Poll, directories, process, output
  <2>2. \A d \in Call : Control(d)' /\ Units(d)'
    BY <1>6 DEF TypeOK, Control, Units, Poll, Goto, process, output, Running
  <2> QED BY <1>3, <2>1, <2>2
<1>7. CASE Kill(c)
  <2>1. TypeOK'
    BY <1>1, <1>2, <1>7 DEF TypeOK, Kill, directories, locals, output
  <2>2. \A d \in Call : Control(d)' /\ Units(d)'
    BY <1>7 DEF TypeOK, Control, Units, Kill, Goto, locals, output, Running
  <2> QED BY <1>3, <2>1, <2>2
<1>8. CASE Wait(c) \/ Join(c)
  <2>1. TypeOK'
    BY <1>1, <1>2, <1>8 DEF TypeOK, Wait, Join, directories, locals, output, process
  <2>2. \A d \in Call : Control(d)' /\ Units(d)'
    BY <1>8 DEF TypeOK, Control, Units, Wait, Join, Goto, locals, output, process, Running
  <2> QED BY <1>3, <2>1, <2>2
<1>9. CASE Check(c)
  <2>1. TypeOK'
    BY <1>1, <1>2, <1>9 DEF TypeOK, Check, directories
  <2>2. \A d \in Call : Control(d)' /\ Units(d)'
    BY <1>9 DEF TypeOK, Control, Units, Check, Goto, Running
  <2> QED BY <1>3, <2>1, <2>2
<1> QED BY <1>4, <1>5, <1>6, <1>7, <1>8, <1>9

-------------------------------------------------------------------------------
(* The subprocess, the reader thread and the process.                      *)

LEMMA OutsideIInv ==
  ASSUME IInv, NEW c \in Call, Write(c) \/ End(c) \/ Read(c)
  PROVE  IInv'
<1> USE DEF IInv
<1>1. UNCHANGED <<directories, pc, locals, lost>>
  BY DEF Write, End, Read
<1>2. Places' /\ Rounds'
  BY <1>1 DEF Places, Rounds, directories, locals
<1>3. CASE Write(c)
  <2>1. TypeOK'
    BY <1>1, <1>3 DEF TypeOK, Write, directories, locals, process
  <2>2. \A d \in Call : Control(d)' /\ Units(d)'
    <3>1. CASE child' = [child EXCEPT ![c] = "ended"] /\ reader[c] # "reading"
      BY <1>1, <1>3, <3>1 DEF TypeOK, Control, Units, Write, locals, process, Running
    <3>2. CASE reader[c] = "reading" /\ UNCHANGED process
      <4>1. pc[c] \in {"poll", "kill", "wait", "join"}
        BY <3>2 DEF TypeOK, Control, Inside, Running
      <4>2. /\ made' = [made EXCEPT ![c] = made[c] + 1] /\ pipe' = [pipe EXCEPT ![c] = pipe[c] + 1]
            /\ UNCHANGED <<pc, child, exit, verdict, got, reader, lost>>
        BY <1>1, <1>3, <3>2 DEF Write, locals, process
      <4>3. \A d \in Call : Control(d)'
        BY <4>2 DEF Control
      <4>4. ASSUME NEW d \in Call PROVE Units(d)'
        <5>1. CASE d # c
          BY <4>2, <5>1 DEF TypeOK, Units
        <5>2. CASE d = c
          <6>1. made'[c] = got'[c] + pipe'[c] /\ reader'[c] = "reading" /\ pc'[c] = pc[c]
            BY <3>2, <4>2 DEF TypeOK, Units
          <6> QED BY <4>1, <4>2, <5>2, <6>1 DEF Units
        <5> QED BY <5>1, <5>2
      <4> QED BY <4>3, <4>4
    <3> QED BY <1>3, <3>1, <3>2 DEF Write
  <2> QED BY <1>2, <2>1, <2>2
<1>4. CASE End(c)
  <2>1. TypeOK'
    BY <1>1, <1>4 DEF TypeOK, End, directories, locals, output
  <2>2. \A d \in Call : Control(d)' /\ Units(d)'
    BY <1>1, <1>4 DEF TypeOK, Control, Units, End, locals, output, Running
  <2> QED BY <1>2, <2>1, <2>2
<1>5. CASE Read(c)
  <2>1. TypeOK'
    BY <1>1, <1>5 DEF TypeOK, Read, directories, locals, process
  <2>2. \A d \in Call : Control(d)' /\ Units(d)'
    BY <1>1, <1>5 DEF TypeOK, Control, Units, Read, locals, process, Running
  <2> QED BY <1>2, <2>1, <2>2
<1> QED BY <1>3, <1>4, <1>5

LEMMA RestartIInv ==
  ASSUME IInv, Restart
  PROVE  IInv'
<1> USE DEF IInv
<1>1. TypeOK'
  BY VideoAssumption DEF TypeOK, Restart, None
<1>2. Places' /\ Rounds'
  BY DEF Places, Rounds, Restart, Inside, Running
<1>3. \A c \in Call : Control(c)' /\ Units(c)'
  BY DEF Control, Units, Restart, Running
<1> QED BY <1>1, <1>2, <1>3

LEMMA NextIInv == IInv /\ [Next]_vars => IInv'
<1> SUFFICES ASSUME IInv, [Next]_vars PROVE IInv'
  OBVIOUS
<1>1. ASSUME NEW c \in Call, Begin(c) \/ Decode(c) \/ Write(c) \/ End(c) \/ Read(c)
      PROVE  IInv'
  BY <1>1, BeginIInv, CreateIInv, CreateEndsIInv, InsideIInv, DropIInv, OutsideIInv DEF Decode
<1>2. CASE UNCHANGED vars
  <2>1. TypeOK' /\ Places'
    BY <1>2 DEF vars, IInv, TypeOK, Places
  <2>2. Rounds'
    BY <1>2 DEF vars, IInv, Rounds
  <2>3. \A c \in Call : Control(c)' /\ Units(c)'
    BY <1>2 DEF vars, IInv, Control, Units
  <2> QED BY <2>1, <2>2, <2>3 DEF IInv
<1> QED BY <1>1, <1>2, RestartIInv DEF Next

THEOREM Invariant == Spec => []IInv
<1> QED BY InitIInv, NextIInv, PTL DEF Spec

-------------------------------------------------------------------------------
(* What follows from it.                                                   *)

(* No two calls, and no call and an earlier process, share a directory,    *)
(* whatever the numbers that are found taken and the restarts.             *)
THEOREM ContainersOwn == Spec => []OwnContainer
<1>1. IInv => OwnContainer
  BY DEF IInv, OwnContainer, Places, Control, TypeOK, Inside, Running
<1> QED BY <1>1, Invariant, PTL

(* A call that has returned has left no directory, subprocess or thread.   *)
THEOREM NothingLeft == Spec => []LeavesNothing
<1>1. IInv => LeavesNothing
  BY DEF IInv, LeavesNothing, Places, Control, TypeOK, Inside, Running
<1> QED BY <1>1, Invariant, PTL

(* Accepted output is whole, for every limit and every size of the pipe.   *)
THEOREM OutputWhole == Spec => []WholeOutput
<1>1. IInv => WholeOutput
  BY VideoAssumption DEF IInv, WholeOutput, Accepted, Control, Units, TypeOK, Running
<1> QED BY <1>1, Invariant, PTL

(* Rounds are lost to leftovers only, so that a call that is refused has   *)
(* met as many of them as it has rounds.                                   *)
THEOREM LeftoversRefuse == Spec => OnlyLeftoversRefuse
<1>1. IInv /\ [Next]_vars => [\A c \in Call : CreateFails(c) => Cardinality(leftover) >= Attempts]_vars
  <2> SUFFICES ASSUME IInv, NEW c \in Call, CreateFails(c)
               PROVE  Cardinality(leftover) >= Attempts
    OBVIOUS
  <2>1. Attempts <= Cardinality(leftover \cap 0 .. sequence - 1)
    BY VideoAssumption DEF IInv, Rounds, CreateFails, TypeOK
  <2>2. IsFiniteSet(leftover)
    <3>1. IsFiniteSet(0 .. MaxSequence - 1)
      BY FS_Interval, VideoAssumption
    <3> QED BY <3>1, FS_Subset DEF IInv, TypeOK
  <2>3. /\ Cardinality(leftover \cap 0 .. sequence - 1) <= Cardinality(leftover)
        /\ Cardinality(leftover) \in Nat
        /\ Cardinality(leftover \cap 0 .. sequence - 1) \in Nat
    BY <2>2, FS_Subset, FS_CardinalityType
  <2> QED BY <2>1, <2>3, VideoAssumption
<1> QED BY <1>1, Invariant, PTL DEF Spec, OnlyLeftoversRefuse
===============================================================================
