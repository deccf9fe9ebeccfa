-------------------------- MODULE NativeWorkerProofs --------------------------
(***************************************************************************)
(* Theorems about NativeWorker for every set of callers, every size of a   *)
(* batch, every last request number and every size of the pipe.            *)
(***************************************************************************)
EXTENDS NativeWorker, SequenceTheorems, TLAPS

-------------------------------------------------------------------------------
(* The inductive invariant.                                                *)

(* Who is inside the mutex, where the control is, and what is left of the  *)
(* processes and the thread once stop has gone that far.                   *)
Control ==
  /\ at \in {"spawning", "starting", "free", "gone", "crashed"} => holder = NoCaller
  /\ at \in {"next", "awaiting"} => holder # NoCaller
  /\ at = "awaiting" => left > 0 /\ sequence > 0
  /\ at = "next" /\ broken => left > 0
  /\ at \in {"spawning", "starting", "awaiting"} => ~ broken
  /\ at \in {"kill", "wait", "join"} => broken \/ io = "none"
  /\ at \in {"kill", "wait"} => child # "reaped"
  /\ at = "wait" => ~ PeerAlive
  /\ at = "join" => child = "reaped" /\ io # "none"
  /\ at = "gone" \/ (at \in {"free", "next"} /\ broken)
       => child = "reaped" /\ io \in {"joined", "none"}
  /\ at \in {"free", "next"} /\ broken => io = "joined"
  /\ child = "reaped" => ~ PeerAlive /\ (at \in {"join", "gone", "crashed"} \/ broken)
  /\ at \in {"spawning", "starting"} => sequence = 0
  /\ at = "spawning" => io = "none"
  /\ io = "none" =>
       at \in {"spawning", "kill", "wait", "gone"} /\ holder = NoCaller /\ ~ broken
  /\ io = "joined" => at \in {"free", "next", "gone"} /\ broken
  /\ at \in {"spawning", "starting", "free", "next", "awaiting"} /\ ~ broken => send
  /\ io = "ended" => ~ send

(* What the I/O thread and Python work on is there.                        *)
Hands ==
  /\ io = "writing" => job # Junk /\ job > 0
  /\ peer = "computing" => stdin # <<>>

(* Lines that are no replies, and lines of which one is reply n.           *)
Noise(lines) == \A i \in 1 .. Len(lines) : lines[i] = Junk

Once(lines, n) ==
  \E i \in 1 .. Len(lines) :
    lines[i] = n /\ \A j \in 1 .. Len(lines) : j # i => lines[j] = Junk

(* Nothing is under way.                                                   *)
Still ==
  /\ requests = <<>> /\ stdin = <<>>
  /\ peer \in {"reading", "dead"}
  /\ Noise(stdout)

(* Request or greeting n is in exactly one place between the caller and    *)
(* Python, or its reply is in exactly one place on the way back ...        *)
UnderWay(n) ==
  \/ Still /\ io = "replying" /\ job = n /\ replies = <<>>
  \/ Still /\ io = "recv" /\ replies = <<n>>
  \/ /\ io \in {"none", "reading"} /\ requests = <<>> /\ stdin = <<>> /\ replies = <<>>
     /\ peer \in {"reading", "dead"}
     /\ Once(stdout, n)

Sent(n) ==
  \/ /\ io = "recv" /\ requests = <<n>> /\ replies = <<>> /\ stdin = <<>>
     /\ peer \in {"reading", "dead"} /\ Noise(stdout)
  \/ Still /\ io = "writing" /\ job = n /\ replies = <<>>
  \/ /\ io = "reading" /\ requests = <<>> /\ stdin = <<n>> /\ replies = <<>>
     /\ peer \in {"reading", "computing", "dead"}
     /\ Noise(stdout)

Loading ==
  /\ io \in {"none", "reading"} /\ requests = <<>> /\ stdin = <<>> /\ replies = <<>>
  /\ peer \in {"loading", "dead"}
  /\ Noise(stdout)

(* ... or the I/O thread has given up on it, and the caller will too.      *)
GivenUp ==
  /\ requests = <<>>
  /\ \/ io = "replying" /\ job = Junk /\ replies = <<>>
     \/ io = "recv" /\ replies = <<Junk>>

Flow ==
  /\ at \in {"free", "next"} /\ ~ broken => Still /\ io = "recv" /\ replies = <<>>
  /\ at = "awaiting" => Sent(sequence) \/ UnderWay(sequence) \/ GivenUp
  /\ at \in {"spawning", "starting"} => Loading \/ UnderWay(Hello) \/ GivenUp

IInv == TypeOK /\ Control /\ Hands /\ Flow

-------------------------------------------------------------------------------
(* Lines.                                                                  *)

(* A line printed after noise, or after a reply and noise.                 *)
LEMMA Printed ==
  ASSUME NEW lines \in Seq(Line), NEW line \in Line
  PROVE  /\ Append(lines, line) \in Seq(Line)
         /\ Noise(lines) /\ line = Junk => Noise(Append(lines, line))
         /\ Noise(lines) => Once(Append(lines, line), line)
         /\ \A n : Once(lines, n) /\ line = Junk => Once(Append(lines, line), n)
<1> DEFINE more == Append(lines, line)
<1>1. /\ more \in Seq(Line)
      /\ Len(more) = Len(lines) + 1
      /\ \A i \in 1 .. Len(lines) : more[i] = lines[i]
      /\ more[Len(lines) + 1] = line
      /\ Len(lines) \in Nat
  BY AppendProperties, LenProperties
<1> HIDE DEF more
<1>2. 1 .. Len(more) = 1 .. Len(lines) \cup {Len(lines) + 1}
  BY <1>1
<1>3. Noise(lines) /\ line = Junk => Noise(more)
  BY <1>1, <1>2 DEF Noise
<1>4. Noise(lines) => Once(more, line)
  BY <1>1, <1>2 DEF Noise, Once
<1>5. ASSUME NEW n, Once(lines, n), line = Junk PROVE Once(more, n)
  BY <1>1, <1>2, <1>5 DEF Once
<1> QED BY <1>1, <1>3, <1>4, <1>5 DEF more

(* A line read: noise, or the reply.                                       *)
LEMMA Consumed ==
  ASSUME NEW lines \in Seq(Line), lines # <<>>
  PROVE  /\ Head(lines) \in Line /\ Tail(lines) \in Seq(Line)
         /\ Noise(lines) => Head(lines) = Junk /\ Noise(Tail(lines))
         /\ \A n \in Nat : Once(lines, n) =>
              \/ Head(lines) = n /\ Noise(Tail(lines))
              \/ Head(lines) = Junk /\ Once(Tail(lines), n)
<1> DEFINE rest == Tail(lines)
<1>1. /\ Head(lines) = lines[1] /\ Head(lines) \in Line
      /\ rest \in Seq(Line)
      /\ Len(rest) = Len(lines) - 1
      /\ \A i \in 1 .. Len(lines) - 1 : rest[i] = lines[i + 1]
      /\ Len(lines) \in Nat \ {0}
  BY HeadTailProperties, LenProperties, EmptySeq
<1> HIDE DEF rest
<1>2. \A i \in 1 .. Len(rest) : i + 1 \in 1 .. Len(lines) /\ rest[i] = lines[i + 1]
  BY <1>1
<1>3. Noise(lines) => Head(lines) = Junk /\ Noise(rest)
  BY <1>1, <1>2 DEF Noise
<1>4. ASSUME NEW n \in Nat, Once(lines, n)
      PROVE  \/ Head(lines) = n /\ Noise(rest)
             \/ Head(lines) = Junk /\ Once(rest, n)
  <2>1. PICK i \in 1 .. Len(lines) :
          lines[i] = n /\ \A j \in 1 .. Len(lines) : j # i => lines[j] = Junk
    BY <1>4 DEF Once
  <2>2. CASE i = 1
    <3>1. Noise(rest)
      BY <2>1, <2>2, <1>2, <1>1 DEF Noise
    <3> QED BY <3>1, <2>1, <2>2, <1>1
  <2>3. CASE i # 1
    <3>1. i - 1 \in 1 .. Len(rest) /\ rest[i - 1] = n
      BY <2>1, <2>3, <1>1
    <3>2. \A j \in 1 .. Len(rest) : j # i - 1 => rest[j] = Junk
      BY <2>1, <1>2
    <3>3. Once(rest, n)
      BY <3>1, <3>2 DEF Once
    <3> QED BY <3>3, <2>1, <2>3, <1>1
  <2> QED BY <2>2, <2>3
<1> QED BY <1>1, <1>3, <1>4 DEF rest

(* One-place channels.                                                     *)
LEMMA OnePlace ==
  ASSUME NEW S, NEW x \in S
  PROVE  /\ Append(<<>>, x) = <<x>> /\ <<x>> \in Seq(S) /\ Len(<<x>>) = 1
         /\ Head(<<x>>) = x /\ Tail(<<x>>) = <<>> /\ <<x>> # <<>>
         /\ <<>> \in Seq(S) /\ Len(<<>>) = 0
OBVIOUS

LEMMA OneOrNone ==
  ASSUME NEW S, NEW s \in Seq(S), Len(s) <= 1, s # <<>>
  PROVE  Head(s) \in S /\ s = <<Head(s)>> /\ Tail(s) = <<>>
<1>1. Len(s) \in Nat \ {0}
  BY EmptySeq
<1>2. Len(s) = 1
  BY <1>1
<1>3. Head(s) \in S /\ Tail(s) \in Seq(S) /\ Len(Tail(s)) = 0
  BY <1>2, HeadTailProperties
<1>4. Tail(s) = <<>>
  BY <1>3, EmptySeq
<1>5. Head(s) = s[1]
  BY <1>2
<1>6. s = <<Head(s)>>
  BY <1>2, <1>3, <1>5, SeqEqual, OnePlace
<1> QED BY <1>3, <1>4, <1>6

-------------------------------------------------------------------------------
(* One lemma per group of actions.                                         *)

LEMMA InitIInv == Init => IInv
<1> SUFFICES ASSUME Init PROVE IInv
  OBVIOUS
<1>1. /\ <<>> \in Seq(1 .. MaxSequence) /\ <<>> \in Seq(Line)
      /\ Len(<<>>) = 0 /\ Len(<<>>) <= 1
  BY EmptySeq
<1>2. TypeOK
  <2>1. 0 \in 0 .. MaxChunks /\ 0 \in 0 .. MaxSequence /\ Junk \in Line
    BY NativeAssumption DEF Line
  <2>2. \A c \in Caller : phase[c] = "inside" <=> holder = c
    BY NativeAssumption DEF Init
  <2>3. phase \in [Caller -> {"idle", "waiting", "inside", "ok", "err"}]
    BY DEF Init
  <2> QED BY <1>1, <2>1, <2>2, <2>3 DEF Init, TypeOK
<1>3. Control /\ Hands
  BY DEF Init, Control, Hands
<1>4. Flow
  BY DEF Init, Flow, Loading, Noise
<1> QED BY <1>2, <1>3, <1>4 DEF IInv
LEMMA SpawnIoIInv ==
  ASSUME IInv, SpawnIo
  PROVE  IInv'
<1> USE NativeAssumption DEF IInv, SpawnIo, ownerVars, ioVars, peerVars, PeerAlive
<1>1. TypeOK'
  BY DEF TypeOK
<1>2. Control'
  BY DEF TypeOK, Control
<1>3. Hands'
  BY DEF TypeOK, Hands, Control
<1>4. Flow'
  BY DEF TypeOK, Control, Flow, Still, Loading, UnderWay, Sent, GivenUp
<1> QED BY <1>1, <1>2, <1>3, <1>4

LEMMA KillIInv ==
  ASSUME IInv, Kill
  PROVE  IInv'
<1> USE NativeAssumption DEF IInv, Kill, ownerVars, ioVars, peerVars, PeerAlive
<1>1. TypeOK'
  BY DEF TypeOK
<1>2. Control'
  BY DEF TypeOK, Control
<1>3. Hands'
  BY DEF TypeOK, Hands, Control
<1>4. Flow'
  BY DEF TypeOK, Control, Flow, Still, Loading, UnderWay, Sent, GivenUp
<1> QED BY <1>1, <1>2, <1>3, <1>4

LEMMA ReapIInv ==
  ASSUME IInv, Reap
  PROVE  IInv'
<1> USE NativeAssumption DEF IInv, Reap, ownerVars, ioVars, peerVars, PeerAlive
<1>1. TypeOK'
  BY DEF TypeOK
<1>2. Control'
  BY DEF TypeOK, Control
<1>3. Hands'
  BY DEF TypeOK, Hands, Control
<1>4. Flow'
  BY DEF TypeOK, Control, Flow, Still, Loading, UnderWay, Sent, GivenUp
<1> QED BY <1>1, <1>2, <1>3, <1>4

LEMMA JoinIInv ==
  ASSUME IInv, Join
  PROVE  IInv'
<1> USE NativeAssumption DEF IInv, Join, Leave, ownerVars, ioVars, peerVars, PeerAlive
<1>1. TypeOK'
  BY DEF TypeOK
<1>2. Control'
  BY DEF TypeOK, Control
<1>3. Hands'
  BY DEF TypeOK, Hands, Control
<1>4. Flow'
  BY DEF TypeOK, Control, Flow, Still, Loading, UnderWay, Sent, GivenUp
<1> QED BY <1>1, <1>2, <1>3, <1>4

LEMMA AskIInv ==
  ASSUME IInv, NEW c \in Caller, Ask(c)
  PROVE  IInv'
<1> USE NativeAssumption DEF IInv, Ask, Loaded, ownerVars, ioVars, peerVars, PeerAlive
<1>1. TypeOK'
  BY DEF TypeOK
<1>2. Control'
  BY DEF TypeOK, Control
<1>3. Hands'
  BY DEF TypeOK, Hands, Control
<1>4. Flow'
  BY DEF TypeOK, Control, Flow, Still, Loading, UnderWay, Sent, GivenUp
<1> QED BY <1>1, <1>2, <1>3, <1>4

LEMMA LockIInv ==
  ASSUME IInv, NEW c \in Caller, NEW n \in 1 .. MaxChunks, Lock(c, n)
  PROVE  IInv'
<1> USE NativeAssumption DEF IInv, Lock, ownerVars, ioVars, peerVars, PeerAlive
<1>1. TypeOK'
  BY DEF TypeOK, Control
<1>2. Control'
  BY DEF TypeOK, Control
<1>3. Hands'
  BY DEF TypeOK, Hands, Control
<1>4. Flow'
  BY DEF TypeOK, Control, Flow, Still, Loading, UnderWay, Sent, GivenUp
<1> QED BY <1>1, <1>2, <1>3, <1>4

LEMMA PredictIInv ==
  ASSUME IInv, Predict
  PROVE  IInv'
<1> USE NativeAssumption DEF IInv, Predict, Leave, BeginStop, ownerVars, ioVars, peerVars, PeerAlive
<1>1. TypeOK'
  <2>1. CASE broken
    BY <2>1 DEF TypeOK, Control
  <2>2. CASE ~ broken /\ sequence = MaxSequence
    <3>1. at' = "kill" /\ broken' = TRUE
          /\ UNCHANGED <<holder, phase, left, sequence, requests>>
      BY <2>2 DEF TypeOK
    <3> QED BY <3>1 DEF TypeOK
  <2>3. CASE ~ broken /\ sequence < MaxSequence
    <3>1. sequence' \in 1 .. MaxSequence
      BY <2>3 DEF TypeOK
    <3>2. requests' \in Seq(1 .. MaxSequence) /\ Len(requests') <= 1
      BY <2>3, <3>1, OnePlace
    <3> QED BY <2>3, <3>1, <3>2 DEF TypeOK
  <2> QED BY <2>1, <2>2, <2>3 DEF TypeOK
<1>2. Control'
  BY DEF TypeOK, Control
<1>3. Hands'
  BY DEF TypeOK, Hands, Control
<1>4. Flow'
  <2>1. CASE broken
    BY <2>1 DEF TypeOK, Control, Flow
  <2>2. CASE ~ broken /\ sequence = MaxSequence
    BY <2>2 DEF TypeOK, Control, Flow
  <2>3. CASE ~ broken /\ sequence < MaxSequence
    <3>1. requests' = <<sequence'>>
      <4>1. sequence \in Nat /\ sequence # MaxSequence
        BY <2>3 DEF TypeOK
      <4>2. sequence' = sequence + 1 /\ requests = <<>>
            /\ requests' = Append(requests, sequence')
        BY <2>3, <4>1
      <4> QED BY <4>1, <4>2, OnePlace
    <3>2. Sent(sequence)'
      BY <2>3, <3>1 DEF Flow, Still, Sent, Noise
    <3> QED BY <2>3, <3>2 DEF Flow
  <2> QED BY <2>1, <2>2, <2>3 DEF TypeOK
<1> QED BY <1>1, <1>2, <1>3, <1>4

LEMMA ReceiveIInv ==
  ASSUME IInv, Receive
  PROVE  IInv'
<1> USE NativeAssumption DEF IInv, Receive, Valid, Accept, BeginStop, ownerVars, ioVars, peerVars, PeerAlive
<1>1. TypeOK'
  <2>1. replies' \in Seq(Line) /\ Len(replies') <= 1
    BY OneOrNone, OnePlace DEF TypeOK
  <2>2. at' = "next" => left' \in 0 .. MaxChunks
    BY DEF TypeOK, Control
  <2>3. /\ at' \in {"free", "next", "gone", "kill"} /\ broken' \in BOOLEAN
        /\ left' \in 0 .. MaxChunks
    BY <2>2 DEF TypeOK
  <2>4. /\ holder' = holder /\ phase' = phase /\ sequence' = sequence /\ send' = send /\ requests' = requests
        /\ io' = io /\ job' = job /\ stdin' = stdin /\ stdout' = stdout /\ child' = child /\ peer' = peer
    OBVIOUS
  <2>5. TypeOK
    OBVIOUS
  <2> QED BY ONLY <2>1, <2>3, <2>4, <2>5 DEF TypeOK
<1>2. Control'
  BY DEF TypeOK, Control
<1>3. Hands'
  BY DEF TypeOK, Hands, Control
<1>4. Flow'
  <2> DEFINE n == IF at = "starting" THEN Hello ELSE sequence
  <2>1. replies = <<Head(replies)>> /\ replies' = <<>>
    BY OneOrNone DEF TypeOK
  <2>2. n \in Nat
    BY DEF Hello, TypeOK
  <2>3. ASSUME Head(replies) = n PROVE Still /\ io = "recv"
    <3>1. replies = <<n>>
      BY <2>1, <2>3
    <3>2. ~ Loading /\ ~ Sent(n) /\ ~ GivenUp
      BY <2>2, <3>1, OnePlace DEF Still, Loading, UnderWay, Sent, GivenUp
    <3>3. UnderWay(n)
      BY <3>2, <2>2 DEF Flow
    <3> QED BY <3>1, <3>3, OnePlace DEF UnderWay
  <2>4. CASE Head(replies) = n
    BY <2>1, <2>3, <2>4, <1>2 DEF Flow, Still, Noise, Control
  <2>5. CASE Head(replies) # n
    BY <2>5, <1>2 DEF Flow, Control
  <2> QED BY <2>4, <2>5
<1> QED BY <1>1, <1>2, <1>3, <1>4

LEMMA DeadlineIInv ==
  ASSUME IInv, Deadline
  PROVE  IInv'
<1> USE NativeAssumption DEF IInv, Deadline, BeginStop, ownerVars, ioVars, peerVars, PeerAlive
<1>1. TypeOK'
  BY DEF TypeOK
<1>2. Control'
  BY DEF TypeOK, Control
<1>3. Hands'
  BY DEF TypeOK, Hands, Control
<1>4. Flow'
  BY DEF TypeOK, Control, Flow, Still, Loading, UnderWay, Sent, GivenUp
<1> QED BY <1>1, <1>2, <1>3, <1>4

LEMMA DoneIInv ==
  ASSUME IInv, Done
  PROVE  IInv'
<1> USE NativeAssumption DEF IInv, Done, Leave, ownerVars, ioVars, peerVars, PeerAlive
<1>1. TypeOK'
  BY DEF TypeOK
<1>2. Control'
  BY DEF TypeOK, Control
<1>3. Hands'
  BY DEF TypeOK, Hands, Control
<1>4. Flow'
  BY DEF TypeOK, Control, Flow, Still, Loading, UnderWay, Sent, GivenUp
<1> QED BY <1>1, <1>2, <1>3, <1>4

LEMMA TakeIInv ==
  ASSUME IInv, NEW c \in Caller, Take(c)
  PROVE  IInv'
<1> USE NativeAssumption DEF IInv, Take, ownerVars, ioVars, peerVars, PeerAlive
<1>1. TypeOK'
  BY DEF TypeOK
<1>2. Control'
  BY DEF TypeOK, Control
<1>3. Hands'
  BY DEF TypeOK, Hands, Control
<1>4. Flow'
  BY DEF TypeOK, Control, Flow, Still, Loading, UnderWay, Sent, GivenUp
<1> QED BY <1>1, <1>2, <1>3, <1>4

LEMMA DropWorkerIInv ==
  ASSUME IInv, DropWorker
  PROVE  IInv'
<1> USE NativeAssumption DEF IInv, DropWorker, BeginStop, ownerVars, ioVars, peerVars, PeerAlive
<1>1. TypeOK'
  BY DEF TypeOK
<1>2. Control'
  BY DEF TypeOK, Control
<1>3. Hands'
  BY DEF TypeOK, Hands, Control
<1>4. Flow'
  BY DEF TypeOK, Control, Flow, Still, Loading, UnderWay, Sent, GivenUp
<1> QED BY <1>1, <1>2, <1>3, <1>4

LEMMA CrashIInv ==
  ASSUME IInv, Crash
  PROVE  IInv'
<1> USE NativeAssumption DEF IInv, Crash, ownerVars, ioVars, peerVars, PeerAlive
<1>1. TypeOK'
  BY DEF TypeOK
<1>2. Control'
  BY DEF TypeOK, Control
<1>3. Hands'
  BY DEF TypeOK, Hands, Control
<1>4. Flow'
  BY DEF TypeOK, Control, Flow, Still, Loading, UnderWay, Sent, GivenUp
<1> QED BY <1>1, <1>2, <1>3, <1>4

LEMMA IoReadIInv ==
  ASSUME IInv, IoRead
  PROVE  IInv'
<1> USE NativeAssumption DEF IInv, IoRead, ownerVars, ioVars, peerVars, PeerAlive
<1>1. TypeOK'
  BY Consumed DEF TypeOK, Line
<1>2. Control'
  BY DEF TypeOK, Control
<1>3. Hands'
  BY DEF TypeOK, Hands, Control
<1>4. Flow'
  <2> DEFINE n == IF at \in {"spawning", "starting"} THEN Hello ELSE sequence
  <2>1. n \in Nat
    BY DEF Hello, TypeOK
  <2>2. SUFFICES ASSUME at \in {"starting", "awaiting"} PROVE Flow'
    BY DEF Flow, Control
  <2>3. Loading \/ Sent(n) \/ UnderWay(n)
    BY <2>2 DEF Flow, GivenUp
  <2>4. replies = <<>> /\ requests = <<>>
    BY <2>3 DEF Still, Loading, UnderWay, Sent, GivenUp
  <2>5. CASE job' = Junk
    BY <2>4, <2>5, <2>2 DEF Flow, GivenUp
  <2>6. CASE job' # Junk
    <3>1. UnderWay(n) /\ Once(stdout, n)
      BY <2>3, <2>6, Consumed DEF Still, Loading, UnderWay, Sent, GivenUp, TypeOK
    <3>2. job' = n /\ Noise(stdout')
      BY <2>1, <2>6, <3>1, Consumed DEF TypeOK
    <3>3. UnderWay(n)'
      BY <3>1, <3>2 DEF UnderWay, Still, Hello
    <3> QED BY <2>2, <3>3 DEF Flow
  <2> QED BY <2>5, <2>6
<1> QED BY <1>1, <1>2, <1>3, <1>4

LEMMA IoReplyIInv ==
  ASSUME IInv, IoReply
  PROVE  IInv'
<1> USE NativeAssumption DEF IInv, IoReply, ownerVars, ioVars, peerVars, PeerAlive
<1>1. TypeOK'
  BY DEF TypeOK
<1>2. Control'
  BY DEF TypeOK, Control
<1>3. Hands'
  BY DEF TypeOK, Hands, Control
<1>4. Flow'
  <2> DEFINE n == IF at \in {"spawning", "starting"} THEN Hello ELSE sequence
  <2>1. replies = <<>> /\ replies' = <<job>>
    <3>1. replies = <<>>
      BY EmptySeq DEF TypeOK
    <3> QED BY <3>1, OnePlace
  <2>2. SUFFICES ASSUME at \in {"starting", "awaiting"} PROVE Flow'
    BY DEF Flow, Control
  <2>3. CASE job = Junk
    <3>1. requests = <<>>
      BY <2>2 DEF Flow, Still, Loading, UnderWay, Sent, GivenUp
    <3> QED BY <2>1, <2>2, <2>3, <3>1 DEF Flow, GivenUp
  <2>4. CASE job # Junk
    <3>1. UnderWay(n)
      BY <2>2, <2>4 DEF Flow, Still, Loading, UnderWay, Sent, GivenUp
    <3>2. UnderWay(n)'
      BY <2>1, <3>1 DEF UnderWay, Still, Hello, Noise
    <3> QED BY <2>2, <3>2 DEF Flow
  <2> QED BY <2>3, <2>4
<1> QED BY <1>1, <1>2, <1>3, <1>4

LEMMA IoRecvIInv ==
  ASSUME IInv, IoRecv
  PROVE  IInv'
<1> USE NativeAssumption DEF IInv, IoRecv, ownerVars, ioVars, peerVars, PeerAlive
<1>1. TypeOK'
  <2>1. requests # <<>> =>
          Head(requests) \in 1 .. MaxSequence /\ Tail(requests) = <<>>
    BY OneOrNone DEF TypeOK
  <2>2. <<>> \in Seq(1 .. MaxSequence) /\ Len(<<>>) <= 1
    BY EmptySeq
  <2> QED BY <2>1, <2>2 DEF TypeOK, Line
<1>2. Control'
  BY DEF TypeOK, Control
<1>3. Hands'
  BY DEF TypeOK, Hands, Control
<1>4. Flow'
  <2>1. CASE requests # <<>>
    <3>1. SUFFICES ASSUME at \in {"spawning", "starting", "free", "next", "awaiting"},
                          ~ broken
                   PROVE  Flow'
      BY DEF Flow, Control
    <3>2. at = "awaiting" /\ Sent(sequence) /\ requests = <<sequence>>
      BY <2>1, <3>1 DEF Flow, Still, Loading, UnderWay, Sent, GivenUp
    <3>3. job' = sequence /\ requests' = <<>>
      BY <2>1, <3>2, OnePlace
    <3>4. Sent(sequence)'
      BY <2>1, <3>2, <3>3 DEF Sent, Still, Noise
    <3> QED BY <3>2, <3>4 DEF Flow
  <2>2. CASE requests = <<>>
    BY <2>2 DEF Flow, Control
  <2> QED BY <2>1, <2>2
<1> QED BY <1>1, <1>2, <1>3, <1>4

LEMMA IoWriteIInv ==
  ASSUME IInv, IoWrite
  PROVE  IInv'
<1> USE NativeAssumption DEF IInv, IoWrite, ownerVars, ioVars, peerVars, PeerAlive
<1>1. TypeOK'
  <2>1. CASE PeerAlive
    <3>1. job \in 1 .. MaxSequence
      BY DEF TypeOK, Hands, Line
    <3>2. stdin' \in Seq(1 .. MaxSequence)
      <4>1. Append(stdin, job) \in Seq(1 .. MaxSequence)
        BY <3>1, AppendProperties DEF TypeOK
      <4> QED BY <2>1, <4>1
    <3> QED BY <2>1, <3>2 DEF TypeOK
  <2>2. CASE ~ PeerAlive
    BY <2>2 DEF TypeOK, Line
  <2> QED BY <2>1, <2>2
<1>2. Control'
  BY DEF TypeOK, Control
<1>3. Hands'
  BY DEF TypeOK, Hands, Control
<1>4. Flow'
  <2>1. SUFFICES ASSUME at = "awaiting" PROVE Flow'
    BY DEF Flow, Still, Loading, UnderWay, Sent, GivenUp
  <2>2. Sent(sequence) /\ Still /\ job = sequence /\ replies = <<>>
    BY <2>1 DEF Flow, Still, Loading, UnderWay, Sent, GivenUp
  <2>3. CASE PeerAlive
    <3>1. stdin' = <<sequence>>
      BY <2>2, <2>3, OnePlace DEF Still
    <3>2. Sent(sequence)'
      BY <2>2, <2>3, <3>1 DEF Sent, Still, Noise
    <3> QED BY <2>1, <3>2 DEF Flow
  <2>4. CASE ~ PeerAlive
    <3>1. GivenUp'
      BY <2>2, <2>4 DEF GivenUp, Still
    <3> QED BY <2>1, <3>1 DEF Flow
  <2> QED BY <2>3, <2>4
<1> QED BY <1>1, <1>2, <1>3, <1>4

LEMMA PeerHelloIInv ==
  ASSUME IInv, PeerHello
  PROVE  IInv'
<1> USE NativeAssumption DEF IInv, PeerHello, Emit, ownerVars, ioVars, peerVars, PeerAlive
<1>1. TypeOK'
  <2>1. Hello \in Line
    BY DEF Line, Hello
  <2>2. stdout' \in Seq(Line)
    BY <2>1, Printed DEF TypeOK
  <2> QED BY <2>2 DEF TypeOK
<1>2. Control'
  BY DEF TypeOK, Control
<1>3. Hands'
  BY DEF TypeOK, Hands, Control
<1>4. Flow'
  <2>1. CASE at \in {"spawning", "starting"} /\ ~ GivenUp
    <3>1. Loading
      BY <2>1 DEF Flow, Still, Loading, UnderWay, Sent, GivenUp
    <3>2. Once(stdout', Hello)
      <4>1. Hello \in Line
        BY DEF Line, Hello
      <4> QED BY <3>1, <4>1, Printed DEF Loading, TypeOK
    <3>3. UnderWay(Hello)'
      BY <3>1, <3>2 DEF Loading, UnderWay, Hello
    <3> QED BY <2>1, <3>3 DEF Flow, Hello
  <2>2. CASE GivenUp
    BY <2>2 DEF Flow, Still, GivenUp
  <2>3. CASE at \notin {"spawning", "starting"} /\ ~ GivenUp
    BY <2>3 DEF Flow, Still, Loading, UnderWay, Sent, GivenUp
  <2> QED BY <2>1, <2>2, <2>3
<1> QED BY <1>1, <1>2, <1>3, <1>4

LEMMA PeerReadIInv ==
  ASSUME IInv, PeerRead
  PROVE  IInv'
<1> USE NativeAssumption DEF IInv, PeerRead, ownerVars, ioVars, peerVars, PeerAlive
<1>1. TypeOK'
  BY DEF TypeOK
<1>2. Control'
  BY DEF TypeOK, Control
<1>3. Hands'
  BY DEF TypeOK, Hands, Control
<1>4. Flow'
  BY DEF TypeOK, Control, Flow, Still, Loading, UnderWay, Sent, GivenUp
<1> QED BY <1>1, <1>2, <1>3, <1>4

LEMMA PeerReplyIInv ==
  ASSUME IInv, PeerReply
  PROVE  IInv'
<1> USE NativeAssumption DEF IInv, PeerReply, Emit, ownerVars, ioVars, peerVars, PeerAlive
<1>1. TypeOK'
  <2>1. Head(stdin) \in 1 .. MaxSequence /\ stdin' \in Seq(1 .. MaxSequence)
    BY HeadTailProperties DEF TypeOK, Hands
  <2>2. stdout' \in Seq(Line)
    <3>1. Head(stdin) \in Line
      BY <2>1 DEF Line
    <3> QED BY <3>1, Printed DEF TypeOK
  <2> QED BY <2>1, <2>2 DEF TypeOK
<1>2. Control'
  BY DEF TypeOK, Control
<1>3. Hands'
  BY DEF TypeOK, Hands, Control
<1>4. Flow'
  <2>1. CASE at = "awaiting" /\ ~ GivenUp
    <3>1. Sent(sequence) /\ stdin = <<sequence>> /\ Noise(stdout) /\ io = "reading"
          /\ requests = <<>> /\ replies = <<>>
      BY <2>1 DEF Flow, Still, Loading, UnderWay, Sent, GivenUp
    <3>2. stdin' = <<>> /\ stdout' = Append(stdout, sequence) /\ sequence \in Line
      BY <3>1, OnePlace DEF TypeOK, Line
    <3>3. Once(stdout', sequence)
      BY <3>1, <3>2, Printed DEF TypeOK
    <3>4. UnderWay(sequence)'
      BY <3>1, <3>2, <3>3 DEF UnderWay
    <3> QED BY <2>1, <3>4 DEF Flow
  <2>2. CASE GivenUp
    BY <2>2 DEF Flow, Still, GivenUp
  <2>3. CASE at # "awaiting" /\ ~ GivenUp
    BY <2>3 DEF Flow, Still, Loading, UnderWay, Sent, GivenUp
  <2> QED BY <2>1, <2>2, <2>3
<1> QED BY <1>1, <1>2, <1>3, <1>4

LEMMA PeerNoiseIInv ==
  ASSUME IInv, PeerNoise
  PROVE  IInv'
<1> USE NativeAssumption DEF IInv, PeerNoise, Emit, ownerVars, ioVars, peerVars, PeerAlive
<1>1. TypeOK'
  <2>1. Junk \in Line
    BY DEF Line, Hello
  <2>2. stdout' \in Seq(Line)
    BY <2>1, Printed DEF TypeOK
  <2> QED BY <2>2 DEF TypeOK
<1>2. Control'
  BY DEF TypeOK, Control
<1>3. Hands'
  BY DEF TypeOK, Hands, Control
<1>4. Flow'
  <2>1. /\ Noise(stdout) => Noise(stdout')
        /\ \A n : Once(stdout, n) => Once(stdout', n)
    BY Printed DEF TypeOK, Line
  <2>2. /\ Still => Still'
        /\ Loading => Loading'
        /\ GivenUp => GivenUp'
    BY <2>1 DEF Still, Loading, GivenUp
  <2>3. \A n : /\ Sent(n) => Sent(n)'
               /\ UnderWay(n) => UnderWay(n)'
    BY <2>1, <2>2 DEF Sent, UnderWay
  <2> QED BY <2>2, <2>3 DEF Flow, Hello
<1> QED BY <1>1, <1>2, <1>3, <1>4

LEMMA PeerExitIInv ==
  ASSUME IInv, PeerExit
  PROVE  IInv'
<1> USE NativeAssumption DEF IInv, PeerExit, ownerVars, ioVars, peerVars, PeerAlive
<1>1. TypeOK'
  BY DEF TypeOK
<1>2. Control'
  BY DEF TypeOK, Control
<1>3. Hands'
  BY DEF TypeOK, Hands, Control
<1>4. Flow'
  BY DEF TypeOK, Control, Flow, Still, Loading, UnderWay, Sent, GivenUp
<1> QED BY <1>1, <1>2, <1>3, <1>4

LEMMA ChildExitIInv ==
  ASSUME IInv, ChildExit
  PROVE  IInv'
<1> USE NativeAssumption DEF IInv, ChildExit, ownerVars, ioVars, peerVars, PeerAlive
<1>1. TypeOK'
  BY DEF TypeOK
<1>2. Control'
  BY DEF TypeOK, Control
<1>3. Hands'
  BY DEF TypeOK, Hands, Control
<1>4. Flow'
  BY DEF TypeOK, Control, Flow, Still, Loading, UnderWay, Sent, GivenUp
<1> QED BY <1>1, <1>2, <1>3, <1>4

LEMMA WatchOwnerIInv ==
  ASSUME IInv, WatchOwner
  PROVE  IInv'
<1> USE NativeAssumption DEF IInv, WatchOwner, ownerVars, ioVars, peerVars, PeerAlive
<1>1. TypeOK'
  BY DEF TypeOK
<1>2. Control'
  BY DEF TypeOK, Control
<1>3. Hands'
  BY DEF TypeOK, Hands, Control
<1>4. Flow'
  BY DEF TypeOK, Control, Flow, Still, Loading, UnderWay, Sent, GivenUp
<1> QED BY <1>1, <1>2, <1>3, <1>4

-------------------------------------------------------------------------------
(* The invariant is inductive.                                             *)
LEMMA NextIInv == IInv /\ [Next]_vars => IInv'
<1> SUFFICES ASSUME IInv, [Next]_vars PROVE IInv'
  OBVIOUS
<1>1. CASE Worker
  BY <1>1, SpawnIoIInv, KillIInv, ReapIInv, JoinIInv, PredictIInv, ReceiveIInv,
     DeadlineIInv, DoneIInv DEF Worker
<1>2. CASE IoThread
  BY <1>2, IoReadIInv, IoReplyIInv, IoRecvIInv, IoWriteIInv DEF IoThread
<1>3. CASE Python
  BY <1>3, PeerHelloIInv, PeerReadIInv, PeerReplyIInv, PeerNoiseIInv, PeerExitIInv,
     ChildExitIInv DEF Python
<1>4. CASE WatchOwner
  BY <1>4, WatchOwnerIInv
<1>5. ASSUME NEW c \in Caller, Ask(c) \/ Take(c) PROVE IInv'
  BY <1>5, AskIInv, TakeIInv
<1>6. ASSUME NEW c \in Caller, NEW n \in 1 .. MaxChunks, Lock(c, n) PROVE IInv'
  BY <1>6, LockIInv
<1>7. CASE DropWorker \/ Crash
  BY <1>7, DropWorkerIInv, CrashIInv
<1>8. CASE UNCHANGED vars
  BY <1>8 DEF vars, ownerVars, ioVars, peerVars, IInv, TypeOK, Control, Hands, Flow,
              PeerAlive, Still, Loading, UnderWay, Sent, GivenUp, Noise, Once
<1>9. CASE Over
  BY <1>8, <1>9 DEF Over
<1> QED BY <1>1, <1>2, <1>3, <1>4, <1>5, <1>6, <1>7, <1>8, <1>9 DEF Next

(* The invariant holds of every reachable state.                           *)
THEOREM Inductive == Spec => []IInv
<1>1. Init => IInv
  BY InitIInv
<1>2. IInv /\ [Next]_vars => IInv'
  BY NextIInv
<1> QED BY <1>1, <1>2, PTL DEF Spec

-------------------------------------------------------------------------------
(* The properties the run checks, for every instance.                      *)

(* Every variable stays in its type; the number of a request fits its u64  *)
(* and each channel holds at most one message.                             *)
THEOREM TypeCorrect == Spec => []TypeOK
<1>1. IInv => TypeOK
  BY DEF IInv
<1> QED BY <1>1, Inductive, PTL

(* An answer that comes too late is never taken for the answer to a later  *)
(* request: between two requests of a healthy worker nothing is under way. *)
THEOREM NothingStale == Spec => []NoStaleReply
<1>1. IInv => NoStaleReply
  <2> SUFFICES ASSUME IInv, at \in {"free", "next"}, ~ broken
               PROVE  /\ requests = <<>> /\ replies = <<>> /\ stdin = <<>>
                      /\ io = "recv"
                      /\ peer \in {"reading", "dead"}
                      /\ \A i \in DOMAIN stdout : stdout[i] = Junk
    BY DEF NoStaleReply
  <2>1. Still /\ io = "recv" /\ replies = <<>>
    BY DEF IInv, Flow
  <2>2. DOMAIN stdout = 1 .. Len(stdout)
    BY LenProperties DEF IInv, TypeOK
  <2> QED BY <2>1, <2>2 DEF Still, Noise
<1> QED BY <1>1, Inductive, PTL

(* The group that gets SIGKILL is the one of a child not yet waited for.   *)
THEOREM GroupIsOwn == Spec => []KillsOwnGroup
<1>1. IInv => KillsOwnGroup
  BY DEF IInv, Control, KillsOwnGroup
<1> QED BY <1>1, Inductive, PTL

(* A failed engine whose mutex is free, and one that is gone, have neither *)
(* a process nor a thread left.                                            *)
THEOREM NothingLeft == Spec => []LeavesNothing
<1>1. IInv => LeavesNothing
  BY DEF IInv, Control, LeavesNothing
<1> QED BY <1>1, Inductive, PTL

-------------------------------------------------------------------------------
(* The engine is fail-stop.                                                *)

(* The mutex is left with a result: the call is answered.                  *)
LEMMA LeaveAnswers ==
  ASSUME IInv, holder # NoCaller, NEW result \in {"ok", "err"}, Leave(result),
         result = IF Engine = "up" THEN "ok" ELSE "err", Engine' = Engine
  PROVE  Abstract!Next
<1>1. holder \in Caller /\ phase[holder] = "inside"
  BY DEF IInv, TypeOK
<1>2. Phase[holder] = "asked"
  BY <1>1 DEF Phase
<1>3. Phase' = [Phase EXCEPT ![holder] = result]
  BY <1>1 DEF Phase, Leave, IInv, TypeOK
<1>4. Abstract!Answer(holder)
  BY <1>2, <1>3 DEF Abstract!Answer
<1> QED BY <1>1, <1>4 DEF Abstract!Next

(* What a stop, a drop or a deadline does to a healthy engine.             *)
LEMMA StopBreaks ==
  ASSUME IInv, ~ broken, BeginStop, UNCHANGED phase, at \in {"starting", "free", "next", "awaiting"}
  PROVE  Abstract!Next
<1>1. Engine # "down" /\ Engine' = "down"
  BY DEF Engine, BeginStop, Stopping
<1>2. Phase' = Phase
  BY DEF Phase
<1> QED BY <1>1, <1>2 DEF Abstract!Next, Abstract!Break

LEMMA NextRefines == IInv /\ IInv' /\ [Next]_vars => [Abstract!Next]_Abstract!vars
<1> SUFFICES ASSUME IInv, IInv', [Next]_vars PROVE [Abstract!Next]_Abstract!vars
  OBVIOUS
<1> DEFINE Stutter == UNCHANGED <<Engine, Phase>>
<1>0. Stutter => UNCHANGED Abstract!vars
  BY DEF Abstract!vars
<1>1. UNCHANGED <<at, broken, io, phase>> => Stutter
  BY DEF Engine, Phase, Stopping
<1>2. CASE SpawnIo
  <2>1. CASE at' = "starting"
    BY <1>0, <1>2, <2>1 DEF SpawnIo, Engine, Phase, Stopping, IInv, Control
  <2>2. CASE at' = "kill"
    <3>1. Engine = "starting" /\ Engine' = "down" /\ Phase' = Phase
      BY <1>2, <2>2 DEF SpawnIo, Engine, Phase, Stopping, IInv, Control
    <3> QED BY <3>1 DEF Abstract!Next, Abstract!Break
  <2> QED BY <1>2, <2>1, <2>2 DEF SpawnIo
<1>3. CASE Kill \/ Reap
  <2>1. Stutter
    BY <1>3 DEF Kill, Reap, Engine, Phase, Stopping, IInv, Control, ioVars
  <2> QED BY <1>0, <2>1
<1>4. CASE Join
  <2>1. broken
    BY <1>4 DEF Join, IInv, Control
  <2>2. Engine = "down" /\ Engine' = "down"
    BY <1>4, <2>1 DEF Join, Engine
  <2>3. CASE holder # NoCaller
    BY <1>4, <2>2, <2>3, LeaveAnswers DEF Join
  <2>4. CASE holder = NoCaller
    BY <1>0, <1>4, <2>2, <2>4 DEF Join, Phase
  <2> QED BY <2>3, <2>4
<1>5. CASE Predict
  <2>1. holder # NoCaller /\ at = "next"
    BY <1>5 DEF Predict, IInv, Control
  <2>2. CASE broken
    <3>1. Leave("err") /\ Engine = "down" /\ Engine' = "down"
      BY <1>5, <2>2 DEF Predict, Engine
    <3> QED BY <2>1, <3>1, LeaveAnswers
  <2>3. CASE ~ broken
    <3>1. CASE BeginStop /\ UNCHANGED phase
      BY <2>1, <2>3, <3>1, StopBreaks
    <3>2. CASE at' = "awaiting" /\ UNCHANGED <<phase, broken>>
      BY <1>0, <2>1, <2>3, <3>2 DEF Engine, Phase, Stopping
    <3> QED BY <1>5, <2>3, <3>1, <3>2 DEF Predict
  <2> QED BY <2>2, <2>3
<1>6. CASE Receive \/ Deadline
  <2>1. ~ broken /\ at \in {"starting", "awaiting"}
    BY <1>6 DEF Receive, Deadline, IInv, Control
  <2>2. CASE BeginStop /\ UNCHANGED phase
    BY <2>1, <2>2, StopBreaks
  <2>3. CASE Accept
    <3>1. CASE at = "starting"
      <4>1. Engine = "starting" /\ Engine' = "up" /\ Phase' = Phase
        BY <2>1, <2>3, <3>1 DEF Accept, Engine, Phase, Stopping
      <4> QED BY <4>1 DEF Abstract!Next, Abstract!Start
    <3>2. CASE at = "awaiting"
      BY <1>0, <2>1, <2>3, <3>2 DEF Accept, Engine, Phase, Stopping
    <3> QED BY <2>1, <3>1, <3>2
  <2> QED BY <1>6, <2>2, <2>3 DEF Receive, Deadline
<1>7. CASE Done
  <2>1. holder # NoCaller /\ ~ broken
    BY <1>7 DEF Done, IInv, Control
  <2>2. Leave("ok") /\ Engine = "up" /\ Engine' = "up"
    BY <1>7, <2>1 DEF Done, Leave, Engine, Stopping
  <2> QED BY <2>1, <2>2, LeaveAnswers
<1>8. ASSUME NEW c \in Caller, Ask(c) PROVE Abstract!Next
  <2>1. Engine # "starting" /\ Engine' = Engine
    BY <1>8 DEF Ask, Loaded, Engine, Stopping, IInv, Control, ioVars
  <2>2. Phase[c] = "idle" /\ Phase' = [Phase EXCEPT ![c] = "asked"]
    BY <1>8 DEF Ask, Phase, IInv, TypeOK
  <2> QED BY <2>1, <2>2 DEF Abstract!Next, Abstract!Ask
<1>9. ASSUME NEW c \in Caller, Take(c) PROVE Abstract!Next
  <2>1. Engine' = Engine
    BY <1>9 DEF Take, Engine, Stopping, ioVars
  <2>2. Phase[c] \in {"ok", "err"} /\ Phase' = [Phase EXCEPT ![c] = "idle"]
    BY <1>9 DEF Take, Phase, IInv, TypeOK
  <2> QED BY <2>1, <2>2 DEF Abstract!Next, Abstract!Take
<1>10. ASSUME NEW c \in Caller, NEW n \in 1 .. MaxChunks, Lock(c, n) PROVE Stutter
  <2>1. Engine' = Engine
    BY <1>10 DEF Lock, Engine, Stopping, ioVars
  <2>2. Phase' = Phase
    BY <1>10 DEF Lock, Phase, IInv, TypeOK
  <2> QED BY <2>1, <2>2
<1>11. CASE DropWorker
  <2>1. CASE broken
    <3>1. Stutter
      BY <1>11, <2>1 DEF DropWorker, BeginStop, Engine, Phase, IInv, Control
    <3> QED BY <1>0, <3>1
  <2>2. CASE ~ broken
    BY <1>11, <2>2, StopBreaks DEF DropWorker
  <2> QED BY <2>1, <2>2
<1>12. CASE Crash
  <2>1. Engine' = "down" /\ Phase' = [c \in Caller |-> "idle"]
    BY <1>12 DEF Crash, Engine, Phase
  <2> QED BY <2>1 DEF Abstract!Next, Abstract!Crash
<1>13. CASE IoThread
  <2>1. UNCHANGED <<at, broken, phase>> /\ io # "none" /\ io' # "none"
    BY <1>13 DEF IoThread, IoRead, IoReply, IoRecv, IoWrite, ownerVars
  <2>2. Stutter
    BY <2>1 DEF Engine, Phase, Stopping
  <2> QED BY <1>0, <2>2
<1>14. CASE Python \/ WatchOwner
  <2>1. UNCHANGED <<at, broken, io, phase>>
    BY <1>14 DEF Python, PeerHello, PeerRead, PeerReply, PeerNoise, PeerExit,
                 ChildExit, WatchOwner, ownerVars, ioVars
  <2> QED BY <1>0, <1>1, <2>1
<1>15. CASE Over \/ UNCHANGED vars
  BY <1>0, <1>1, <1>15 DEF Over, vars, ownerVars, ioVars
<1> QED BY <1>0, <1>2, <1>3, <1>4, <1>5, <1>6, <1>7, <1>8, <1>9, <1>10, <1>11,
           <1>12, <1>13, <1>14, <1>15 DEF Next, Worker

(* One failure ends the engine for good: no call fails on a healthy engine *)
(* and none succeeds on a failed one, whatever Python and the pipes do.    *)
THEOREM FailStopKept == Spec => ImplementsFailStop
<1>1. Init => Abstract!Init
  BY DEF Init, Abstract!Init, Engine, Phase, Stopping
<1>2. IInv /\ IInv' /\ [Next]_vars => [Abstract!Next]_Abstract!vars
  BY NextRefines
<1> QED BY <1>1, <1>2, Inductive, PTL DEF Spec, ImplementsFailStop, Abstract!Spec
===============================================================================
