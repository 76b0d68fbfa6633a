------------------------- MODULE MwxMcuKeysProofs -------------------------
(***************************************************************************)
(* Proofs about MwxMcu and MwxKeys: the commands to the firmware, and the  *)
(* requests of keys that are made of them.                                 *)
(*                                                                         *)
(* Commands: for any number of callers, commands and sequence numbers, the *)
(* slots and numbers stay in range, and however late the firmware answers, *)
(* every answer reaches the command it belongs to, unless the number of    *)
(* that command was given out while it was in use.                         *)
(*                                                                         *)
(* Keys: for any ring, any bounds on handshakes, frames and repetitions,   *)
(* and whatever events happen, the link is up only with a pairwise key,    *)
(* and when the requests are served the firmware has the supplicant's      *)
(* keys; KeysInv is the inductive invariant.  No pairwise key is given to  *)
(* the firmware twice without a mwx_stop; OnceAlways is inductive.         *)
(***************************************************************************)
EXTENDS MwxMcu, MwxKeys, SequenceTheorems, TLAPS

(***************************************************************************)
(* Commands and answers: MwxMcu                                            *)
(***************************************************************************)

\* A caller that has a sequence number has a command.
Numbered ==
  \A c \in Callers : pc[c] # "idle" => cmd[c] \in Cmds

McuTypeInv == McuTypeOK /\ Numbered

\* The next number is one of the numbers, since the counter is masked.
LEMMA NextSeq ==
  ASSUME NEW n \in Seqs
  PROVE  (n + 1) % SeqCount \in Seqs
<1>1. n \in 0..(SeqCount - 1) /\ n + 1 \in Nat
  BY SeqAssumption DEF Seqs
<1>2. (n + 1) % SeqCount \in 0..(SeqCount - 1)
  BY <1>1, SeqAssumption
<1> QED BY <1>2 DEF Seqs

LEMMA McuInitType == McuInit => McuTypeInv
<1>1. 0 \in Seqs
  BY SeqAssumption DEF Seqs
<1> QED BY <1>1 DEF McuInit, Empty, McuTypeInv, McuTypeOK, Numbered

LEMMA McuStepType == McuTypeInv /\ [McuNext]_mcuVars => McuTypeInv'
<1> SUFFICES ASSUME McuTypeInv, [McuNext]_mcuVars PROVE McuTypeInv'
  OBVIOUS
<1> USE DEF McuTypeInv, McuTypeOK, Numbered
<1>0. 0 \in Seqs
  BY SeqAssumption DEF Seqs
<1>1. ASSUME NEW c \in Callers, Begin(c) PROVE McuTypeInv'
  BY <1>1 DEF Begin
<1>2. ASSUME NEW c \in Callers, LoadSeq(c) PROVE McuTypeInv'
  BY <1>2 DEF LoadSeq
<1>3. ASSUME NEW c \in Callers, StoreSeq(c) PROVE McuTypeInv'
  <2>1. seqNo' \in Seqs
    BY <1>3, NextSeq DEF StoreSeq
  <2>2. reused' \subseteq Seqs
    BY <1>3, <2>1 DEF StoreSeq
  <2> QED BY <1>3, <2>1, <2>2 DEF StoreSeq
<1>4. ASSUME NEW c \in Callers, BuildFails(c) PROVE McuTypeInv'
  BY <1>0, <1>4 DEF BuildFails, Return
<1>5. ASSUME NEW c \in Callers, ClaimSlot(c) PROVE McuTypeInv'
  BY <1>5 DEF ClaimSlot, Empty
<1>6. ASSUME NEW c \in Callers, Post(c) PROVE McuTypeInv'
  <2>1. fw' \subseteq [seq : Seqs, cmd : Cmds]
    BY <1>6 DEF Post
  <2>2. CASE kind[c] = "post"
    <3>1. pc' \in [Callers -> {"idle", "load", "store", "reload", "restore", "build", "post",
                              "posted", "asleep", "awake"}]
      BY <1>6, <2>2 DEF Post, Return
    <3>2. /\ cmd' \in [Callers -> Cmds \cup {None}] /\ kind' \in [Callers -> {"post", "wait"}]
          /\ seq' \in [Callers -> Seqs]
      <4>1. /\ cmd' = [cmd EXCEPT ![c] = None] /\ kind' = [kind EXCEPT ![c] = "post"]
            /\ seq' = [seq EXCEPT ![c] = 0]
        BY <1>6, <2>2 DEF Post, Return
      <4>2. cmd' \in [Callers -> Cmds \cup {None}]
        BY <4>1
      <4>3. kind' \in [Callers -> {"post", "wait"}]
        BY <4>1
      <4>4. seq' \in [Callers -> Seqs]
        BY <1>0, <4>1
      <4> QED BY <4>2, <4>3, <4>4
    <3>3. Numbered'
      BY <1>6, <2>2 DEF Post, Return
    <3>4. seqNo' = seqNo /\ slot' = slot /\ reused' = reused
      BY <1>6 DEF Post
    <3> QED BY <2>1, <3>1, <3>2, <3>3, <3>4
  <2>3. CASE kind[c] # "post"
    BY <1>6, <2>1, <2>3, SMTT(30) DEF Post
  <2> QED BY <2>2, <2>3
<1>7. ASSUME NEW c \in Callers, PostFails(c) PROVE McuTypeInv'
  BY <1>0, <1>7 DEF PostFails, Return, Empty
<1>8. ASSUME NEW c \in Callers, Sleep(c) PROVE McuTypeInv'
  BY <1>8 DEF Sleep
<1>9. ASSUME NEW c \in Callers, Timeout(c) PROVE McuTypeInv'
  BY <1>0, <1>9 DEF Timeout, Return
<1>10. ASSUME NEW c \in Callers, TakeAnswer(c) PROVE McuTypeInv'
  BY <1>0, <1>10 DEF TakeAnswer, Return
<1>11. CASE RxEvent
  BY <1>11 DEF RxEvent
<1>12. CASE NoAnswer
  BY <1>12 DEF NoAnswer, caller
<1>13. CASE UNCHANGED mcuVars
  BY <1>13 DEF mcuVars, caller
<1> QED
  BY <1>1, <1>2, <1>3, <1>4, <1>5, <1>6, <1>7, <1>8, <1>9, <1>10, <1>11,
     <1>12, <1>13 DEF McuNext, Send

\* The sequence counter and the locals stay within sc_mcu_wait, and every
\* command in the firmware has a number other than 0, however many callers
\* increment the counter at once.
THEOREM McuTypeCorrect == McuSpec => []McuTypeOK
<1>1. McuTypeInv => McuTypeOK
  BY DEF McuTypeInv
<1> QED BY <1>1, McuInitType, McuStepType, PTL DEF McuSpec

----------------------------------------------------------------------------
\* Why an answer is the caller's own: a number that was never given out while it
\* was in use belongs to one caller, and when that caller takes it nothing in the
\* firmware has it; from then on what is in the firmware with the number is the
\* caller's own command.
NumberIsOwn ==
  \A c, d \in Callers :
    c # d /\ HasNumber(c) /\ HasNumber(d) /\ seq[c] = seq[d] => seq[c] \in reused

NumberIsFresh ==
  \A c \in Callers : \A e \in fw :
    e.seq = seq[c] /\ seq[c] \notin reused =>
      /\ pc[c] \notin {"build", "post"}
      /\ pc[c] \in {"posted", "asleep", "awake"} => e.cmd = cmd[c]

AnswerInv == McuTypeInv /\ NumberIsOwn /\ NumberIsFresh /\ AnswerIsMine

LEMMA AnswerStep == AnswerInv /\ [McuNext]_mcuVars => AnswerInv'
<1> SUFFICES ASSUME AnswerInv, [McuNext]_mcuVars PROVE AnswerInv'
  OBVIOUS
<1>0. McuTypeInv /\ McuTypeInv'
  BY McuStepType DEF AnswerInv
<1>a. \A a, b \in Callers : a # b /\ HasNumber(a) /\ HasNumber(b) /\ seq[a] = seq[b] => seq[a] \in reused
  BY DEF AnswerInv, NumberIsOwn
<1> USE <1>0 DEF McuTypeInv, McuTypeOK, AnswerInv, NumberIsOwn, NumberIsFresh, AnswerIsMine, HasNumber
<1>1. ASSUME NEW c \in Callers, Begin(c) PROVE AnswerInv'
  BY <1>1 DEF Begin
<1>2. ASSUME NEW c \in Callers, LoadSeq(c) PROVE AnswerInv'
  BY <1>2 DEF LoadSeq
<1>3. ASSUME NEW c \in Callers, StoreSeq(c) PROVE AnswerInv'
  <2>1. /\ seq' = [seq EXCEPT ![c] = seqNo'] /\ fw' = fw /\ cmd' = cmd /\ slot' = slot
        /\ \A d \in Callers : d # c => pc'[d] = pc[d]
        /\ pc[c] \in {"store", "restore"} /\ pc'[c] \in {"reload", "build"}
    BY <1>3 DEF StoreSeq
  <2>2. reused \subseteq reused' /\ (InUse(seqNo') => seqNo' \in reused')
    BY <1>3 DEF StoreSeq
  <2>3. NumberIsOwn'
    <3> SUFFICES ASSUME NEW a \in Callers, NEW b \in Callers, a # b, HasNumber(a)', HasNumber(b)',
                        seq'[a] = seq'[b]
                 PROVE  seq'[a] \in reused'
      OBVIOUS
    <3>1. CASE a # c /\ b # c
      <4>1. seq'[a] = seq[a] /\ seq'[b] = seq[b] /\ HasNumber(a) /\ HasNumber(b)
        BY <2>1, <3>1
      <4> HIDE <1>0 DEF McuTypeInv, McuTypeOK, AnswerInv, NumberIsOwn, NumberIsFresh, AnswerIsMine, HasNumber
      <4> QED BY <1>a, <2>2, <4>1
    <3>2. CASE a = c
      <4>1. seq'[a] = seqNo' /\ seq[b] = seqNo' /\ HasNumber(b)
        BY <2>1, <3>2
      <4> QED BY <2>2, <4>1 DEF InUse
    <3>3. CASE b = c
      <4>1. seq'[a] = seqNo' /\ seq[a] = seqNo' /\ HasNumber(a)
        BY <2>1, <3>3
      <4> QED BY <2>2, <4>1 DEF InUse
    <3> QED BY <3>1, <3>2, <3>3
  <2>4. NumberIsFresh'
    <3> SUFFICES ASSUME NEW a \in Callers, NEW e \in fw', e.seq = seq'[a], seq'[a] \notin reused'
                 PROVE  /\ pc'[a] \notin {"build", "post"}
                        /\ pc'[a] \in {"posted", "asleep", "awake"} => e.cmd = cmd'[a]
      OBVIOUS
    <3>1. a # c
      <4> SUFFICES ASSUME a = c PROVE FALSE
        OBVIOUS
      <4>1. e \in fw /\ e.seq = seqNo' /\ seq'[a] = seqNo'
        BY <2>1
      <4> QED BY <2>2, <4>1 DEF InUse
    <3>2. e \in fw /\ seq'[a] = seq[a] /\ pc'[a] = pc[a] /\ seq[a] \notin reused
      BY <2>1, <2>2, <3>1
    <3> QED BY <2>1, <3>2
  <2>5. AnswerIsMine'
    BY <2>1, <2>2
  <2> QED BY <2>3, <2>4, <2>5
<1>4. ASSUME NEW c \in Callers, BuildFails(c) PROVE AnswerInv'
  BY <1>4 DEF BuildFails, Return
<1>5. ASSUME NEW c \in Callers, ClaimSlot(c) PROVE AnswerInv'
  BY <1>5 DEF ClaimSlot
<1>6. ASSUME NEW c \in Callers, Post(c) PROVE AnswerInv'
  <2>1. /\ HasNumber(c) /\ pc[c] = "post" /\ pc'[c] \in {"idle", "posted"}
        /\ HasNumber(c)' => seq'[c] = seq[c] /\ cmd'[c] = cmd[c]
        /\ \A d \in Callers : d # c => pc'[d] = pc[d] /\ seq'[d] = seq[d] /\ cmd'[d] = cmd[d]
        /\ slot' = slot /\ reused' = reused
        /\ fw' = fw \cup {[seq |-> seq[c], cmd |-> cmd[c]]}
    BY <1>6 DEF Post, Return
  <2>2. NumberIsOwn'
    BY <2>1
  <2>3. NumberIsFresh'
    <3> SUFFICES ASSUME NEW a \in Callers, NEW e \in fw', e.seq = seq'[a], seq'[a] \notin reused'
                 PROVE  /\ pc'[a] \notin {"build", "post"}
                        /\ pc'[a] \in {"posted", "asleep", "awake"} => e.cmd = cmd'[a]
      OBVIOUS
    <3>1. CASE a = c
      BY <2>1, <3>1
    <3>2. CASE a # c /\ e \in fw
      <4>1. seq'[a] = seq[a] /\ pc'[a] = pc[a] /\ cmd'[a] = cmd[a] /\ seq[a] \notin reused
        BY <2>1, <3>2
      <4> QED BY <3>2, <4>1
    <3>3. CASE a # c /\ e \notin fw
      <4>1. e.seq = seq[c] /\ seq'[a] = seq[a] /\ pc'[a] = pc[a] /\ seq[a] \notin reused
        BY <2>1, <3>3
      <4>2. ~HasNumber(a)
        <5> HIDE <1>0 DEF McuTypeInv, McuTypeOK, AnswerInv, NumberIsOwn, NumberIsFresh, AnswerIsMine, HasNumber
        <5> QED BY <1>a, <2>1, <3>3, <4>1
      <4> QED BY <4>1, <4>2
    <3> QED BY <3>1, <3>2, <3>3
  <2>4. AnswerIsMine'
    BY <2>1
  <2> QED BY <2>2, <2>3, <2>4
<1>7. ASSUME NEW c \in Callers, PostFails(c) PROVE AnswerInv'
  BY <1>7 DEF PostFails, Return
<1>8. ASSUME NEW c \in Callers, Sleep(c) PROVE AnswerInv'
  BY <1>8 DEF Sleep
<1>9. ASSUME NEW c \in Callers, Timeout(c) PROVE AnswerInv'
  BY <1>9 DEF Timeout, Return
<1>10. ASSUME NEW c \in Callers, TakeAnswer(c) PROVE AnswerInv'
  BY <1>10 DEF TakeAnswer, Return
<1>11. CASE RxEvent
  BY <1>11 DEF RxEvent
<1>12. CASE NoAnswer
  BY <1>12 DEF NoAnswer, caller
<1>13. CASE UNCHANGED mcuVars
  BY <1>13 DEF mcuVars, caller
<1> QED
  BY <1>1, <1>2, <1>3, <1>4, <1>5, <1>6, <1>7, <1>8, <1>9, <1>10, <1>11,
     <1>12, <1>13 DEF McuNext, Send

\* A command that returns with an answer returns with its own: neither another
\* thread's command, nor one that timed out, nor one with the same number a round
\* earlier can leave it theirs, however many threads send and however the firmware
\* delays, loses and reorders answers.  A number that was given out while it was
\* in use is the one exception, and harms no command with another number.
THEOREM AnswersAreMine == McuSpec => []AnswerIsMine
<1>1. McuInit => AnswerInv
  BY McuInitType DEF McuInit, AnswerInv, NumberIsOwn, NumberIsFresh, AnswerIsMine, HasNumber
<1>2. AnswerInv /\ [McuNext]_mcuVars => AnswerInv'
  BY AnswerStep
<1>3. AnswerInv => AnswerIsMine
  BY DEF AnswerInv
<1> QED BY <1>1, <1>2, <1>3, PTL DEF McuSpec

(***************************************************************************)
(* Keys: MwxKeys                                                           *)
(***************************************************************************)

\* What sc_nswq may hold of the two tasks.
Queues == {<<>>, <<"newstate">>, <<"setkey">>, <<"newstate", "setkey">>, <<"setkey", "newstate">>}
\* mwx_setkey_task is queued, and before mwx_newstate_task.
HasSetKey(q) == q \in {<<"setkey">>, <<"newstate", "setkey">>, <<"setkey", "newstate">>}
SetKeyFirst(q) == q \in {<<"setkey">>, <<"setkey", "newstate">>}

LEMMA AppendOne ==
  ASSUME NEW a, NEW b
  PROVE  Append(<<a>>, b) = <<a, b>>
<1> DEFINE S == {a, b}
           s == Append(<<a>>, b)
           t == <<a, b>>
<1>1. <<a>> \in Seq(S) /\ b \in S /\ Len(<<a>>) = 1 /\ <<a>>[1] = a
  OBVIOUS
<1>2. s \in Seq(S) /\ Len(s) = 2 /\ s[1] = a /\ s[2] = b
  <2>1. /\ s \in Seq(S) /\ Len(s) = Len(<<a>>) + 1
        /\ \A i \in 1..Len(<<a>>) : s[i] = <<a>>[i]
        /\ s[Len(<<a>>) + 1] = b
    BY <1>1, AppendProperties
  <2> QED BY <1>1, <2>1
<1>3. t \in Seq(S) /\ Len(t) = 2 /\ t[1] = a /\ t[2] = b
  OBVIOUS
<1> HIDE DEF s, t, S
<1>4. \A i \in 1..Len(s) : s[i] = t[i]
  BY <1>2, <1>3
<1>5. s = t
  BY <1>2, <1>3, <1>4, SeqEqual
<1> QED BY <1>5 DEF s, t

LEMMA QueuedValue ==
  ASSUME NEW q \in Queues
  PROVE  /\ Queued(q, "newstate") \in Queues /\ Queued(q, "setkey") \in Queues
         /\ HasSetKey(Queued(q, "newstate")) <=> HasSetKey(q)
         /\ HasSetKey(Queued(q, "setkey"))
         /\ SetKeyFirst(q) => SetKeyFirst(Queued(q, "newstate")) /\ SetKeyFirst(Queued(q, "setkey"))
<1>1. CASE q = <<>>
  BY <1>1 DEF Queued, Contains, Queues, HasSetKey, SetKeyFirst
<1>2. CASE q = <<"newstate">>
  <2>1. Contains(q, "newstate") /\ ~Contains(q, "setkey")
    BY <1>2 DEF Contains
  <2>2. Queued(q, "newstate") = q /\ Queued(q, "setkey") = <<"newstate", "setkey">>
    BY <1>2, <2>1, AppendOne DEF Queued
  <2> QED BY <1>2, <2>2 DEF Queues, HasSetKey, SetKeyFirst
<1>3. CASE q = <<"setkey">>
  <2>1. Contains(q, "setkey") /\ ~Contains(q, "newstate")
    BY <1>3 DEF Contains
  <2>2. Queued(q, "setkey") = q /\ Queued(q, "newstate") = <<"setkey", "newstate">>
    BY <1>3, <2>1, AppendOne DEF Queued
  <2> QED BY <1>3, <2>2 DEF Queues, HasSetKey, SetKeyFirst
<1>4. CASE q = <<"newstate", "setkey">>
  <2>1. q[1] = "newstate" /\ q[2] = "setkey" /\ Len(q) = 2
    BY <1>4
  <2>2. Contains(q, "newstate") /\ Contains(q, "setkey")
    BY <2>1 DEF Contains
  <2> QED BY <1>4, <2>2 DEF Queued, Queues, HasSetKey, SetKeyFirst
<1>5. CASE q = <<"setkey", "newstate">>
  <2>1. q[1] = "setkey" /\ q[2] = "newstate" /\ Len(q) = 2
    BY <1>5
  <2>2. Contains(q, "newstate") /\ Contains(q, "setkey")
    BY <2>1 DEF Contains
  <2> QED BY <1>5, <2>2 DEF Queued, Queues, HasSetKey, SetKeyFirst
<1> QED BY <1>1, <1>2, <1>3, <1>4, <1>5 DEF Queues

LEMMA QueueHead ==
  ASSUME NEW q \in Queues, q # <<>>
  PROVE  /\ Tail(q) \in Queues
         /\ Head(q) = "newstate" => ~SetKeyFirst(q) /\ (HasSetKey(q) => SetKeyFirst(Tail(q)))
                                     /\ (HasSetKey(Tail(q)) => HasSetKey(q))
         /\ Head(q) = "setkey" => ~HasSetKey(Tail(q))
<1> USE DEF Queues, HasSetKey, SetKeyFirst
<1>2. CASE q = <<"newstate">>
  BY <1>2
<1>3. CASE q = <<"setkey">>
  BY <1>3
<1>4. CASE q = <<"newstate", "setkey">>
  BY <1>4
<1>5. CASE q = <<"setkey", "newstate">>
  BY <1>5
<1> QED BY <1>2, <1>3, <1>4, <1>5 DEF Queues

LEMMA QueueType ==
  ASSUME NEW q \in Queues
  PROVE  IsInjective(q) /\ Range(q) \subseteq {"newstate", "setkey"}
<1>1. CASE q = <<>>
  BY <1>1 DEF IsInjective, Range
<1>2. CASE q = <<"newstate">>
  BY <1>2 DEF IsInjective, Range
<1>3. CASE q = <<"setkey">>
  BY <1>3 DEF IsInjective, Range
<1>4. CASE q = <<"newstate", "setkey">>
  BY <1>4 DEF IsInjective, Range
<1>5. CASE q = <<"setkey", "newstate">>
  BY <1>5 DEF IsInjective, Range
<1> QED BY <1>1, <1>2, <1>3, <1>4, <1>5 DEF Queues

\* The requests that mwx_set_key takes.
LEMMA TakenValue ==
  ASSUME NEW S, NEW r \in Seq(S), Len(r) <= 2, Room \in Nat
  PROVE  Taken(r) = IF Len(r) <= Room THEN r
                    ELSE IF Room = 0 THEN <<>> ELSE <<r[1]>>
<1>1. Len(r) \in Nat
  BY LenProperties
<1>2. CASE Len(r) <= Room
  BY <1>2, SubSeqFull DEF Taken
<1>3. CASE Len(r) > Room /\ Room = 0
  BY <1>1, <1>3, SubSeqEmpty DEF Taken
<1>4. CASE Len(r) > Room /\ Room # 0
  <2>1. Room = 1 /\ Len(r) = 2
    <3>1. \A n, m \in Nat : n <= 2 /\ n > m /\ m # 0 => m = 1 /\ n = 2
      OBVIOUS
    <3> QED BY <1>1, <1>4, <3>1
  <2>2. \A i \in 1..1 : r[i] \in S
    BY <2>1, ElementOfSeq
  <2>3. SubSeq(r, 1, 1) \in Seq(S) /\ Len(SubSeq(r, 1, 1)) = 1 /\ SubSeq(r, 1, 1)[1] = r[1]
    BY <2>2, SubSeqProperties
  <2>4. <<r[1]>> \in Seq(S) /\ Len(<<r[1]>>) = 1 /\ <<r[1]>>[1] = r[1]
    BY <2>2
  <2>5. SubSeq(r, 1, 1) = <<r[1]>>
    <3> DEFINE s == SubSeq(r, 1, 1)
               t == <<r[1]>>
    <3>1. s \in Seq(S) /\ t \in Seq(S) /\ Len(s) = 1 /\ Len(t) = 1 /\ s[1] = t[1]
      BY <2>3, <2>4
    <3> HIDE DEF s, t
    <3>2. \A i \in 1..Len(s) : s[i] = t[i]
      BY <3>1
    <3>3. s = t
      BY <3>1, <3>2, SeqEqual
    <3> QED BY <3>3 DEF s, t
  <2> QED BY <1>4, <2>1, <2>5 DEF Taken
<1> QED BY <1>1, <1>2, <1>3, <1>4

----------------------------------------------------------------------------
\* Types

\* What a request of the ring may point at.
Requests == {Pairwise} \cup Kids
KeyOrNone == Ptks \cup {NoKey}

\* TypeOK in the form the provers use, and the queues and the access point, which
\* TypeOK does not need.
StationOK ==
  /\ icState \in {"INIT", "SCAN", "AUTH", "ASSOC", "RUN"}
  /\ nsState \in {"INIT", "SCAN", "AUTH", "ASSOC", "RUN"}
  /\ task \in {"idle", "setkey", "wait"}
  /\ supp \in {"INITIALIZE", "PTKSTART", "PTKNEGOTIATING", "PTKDONE"}
  /\ newPtk \in BOOLEAN /\ txProt \in BOOLEAN /\ rxProt \in BOOLEAN
  /\ portValid \in BOOLEAN /\ linkUp \in BOOLEAN
  /\ stopped \in BOOLEAN /\ failed \in BOOLEAN
  /\ replay \in 0..MaxReplay /\ snonce \in 0..MaxReplay /\ anonce \in 0..MaxRounds
  /\ ptk \in KeyOrNone /\ pairKey \in KeyOrNone /\ hwPair \in KeyOrNone
  /\ nwKeys \in [Kids -> Gtks \cup {NoKey}] /\ hwGroup \in [Kids -> Gtks \cup {NoKey}]
  /\ have \subseteq {"pairwise", "group"}
  /\ given \subseteq Ptks

QueuesOK ==
  /\ nsq \in Queues
  /\ ring \in Seq(Requests) /\ Len(ring) < RingSize
  /\ task = "wait" => ring # <<>>
  /\ up \in Seq(UpFrames)

\* The frames of the access point.
DownFrames ==
  {f \in [msg : {"msg1", "msg3", "group", "deauth"}, replay : 0..MaxReplay,
          ptk : ((0..MaxRounds) \X (0..MaxReplay)) \cup {NoKey}, gtk : 0..MaxGtk,
          key : KeyOrNone] :
     /\ f.msg # "deauth" => f.gtk \in Gtks /\ f.replay > 0
     /\ f.msg = "msg1" => f.ptk \in (1..MaxRounds) \X (0..MaxReplay)
     /\ f.msg \in {"msg3", "group"} => f.ptk \in Ptks}

\* How many frames n messages may take.
Sends(n) == MaxTx * n

\* The access point.
ApStates ==
  [phase : {"off", "msg1", "msg3", "done", "group"}, round : 0..MaxRounds, replay : Nat,
   first : Nat, tries : 0..MaxTx, ptk : (0..MaxRounds) \X (0..MaxReplay), key : KeyOrNone,
   gtk : Gtks]

\* The counter of a shows how far its handshakes are; m is the message that it
\* sends, for the n-th time.
Counted(a, m, n) ==
  /\ m = "msg1" => a.round > 0 /\ a.replay <= Sends(2 * a.round + a.gtk - 3) + n
  /\ m = "msg3" => a.round > 0 /\ a.replay <= Sends(2 * a.round + a.gtk - 2) + n
  /\ m = "group" => a.round > 0 /\ a.gtk > 1 /\ a.replay <= Sends(2 * a.round + a.gtk - 2) + n
  /\ m = "done" => a.round > 0 /\ a.replay <= Sends(2 * a.round + a.gtk - 1)

ApOK ==
  /\ ap \in ApStates
  /\ Counted(ap, ap.phase, ap.tries)
  /\ ap.phase = "msg1" => ap.ptk \in (1..MaxRounds) \X (0..MaxReplay)
  /\ ap.phase \in {"msg3", "done", "group"} => ap.ptk \in Ptks
  /\ down \in Seq(DownFrames)

TypeInv == StationOK /\ QueuesOK /\ ApOK

LEMMA BoundTypes ==
  /\ MaxTx \in Nat /\ MaxTx > 0 /\ MaxRounds \in Nat /\ MaxRounds > 0
  /\ MaxGtk \in Nat /\ MaxGtk > 0 /\ MaxUp \in Nat /\ MaxUp > 0
  /\ MaxDown \in Nat /\ MaxDown > 0 /\ RingSize \in Nat /\ RingSize > 1
BY BoundsAssumption, RingAssumption

LEMMA SendsValue ==
  /\ \A n \in Nat : Sends(n) \in Nat /\ Sends(n + 1) = Sends(n) + MaxTx
  /\ \A m, n \in Nat : m <= n => Sends(m) <= Sends(n)
  /\ MaxReplay = Sends(2 * MaxRounds + MaxGtk) /\ MaxReplay \in Nat
<1> USE BoundTypes
<1>1. \A n \in Nat : Sends(n) \in Nat /\ Sends(n + 1) = Sends(n) + MaxTx
  BY DEF Sends
<1>2. ASSUME NEW m \in Nat, NEW n \in Nat, m <= n
      PROVE  Sends(m) <= Sends(n)
  <2>1. PICK d \in Nat : n = m + d
    <3>1. n - m \in Nat /\ n = m + (n - m)
      BY <1>2
    <3> QED BY <3>1
  <2>2. MaxTx * n = MaxTx * m + MaxTx * d /\ MaxTx * d \in Nat /\ MaxTx * m \in Nat
    BY <2>1
  <2> QED BY <2>2 DEF Sends
<1>3. MaxReplay = Sends(2 * MaxRounds + MaxGtk)
  BY DEF MaxReplay, Sends
<1>4. 2 * MaxRounds + MaxGtk \in Nat
  OBVIOUS
<1> QED BY <1>1, <1>2, <1>3, <1>4

\* No handshake makes the counter overflow.
LEMMA CountedBound ==
  ASSUME NEW a \in ApStates, NEW m \in {"msg1", "msg3", "group"}, NEW n \in 0..MaxTx,
         Counted(a, m, n)
  PROVE  a.replay <= MaxReplay
<1> USE BoundTypes
<1>1. a.round \in 1..MaxRounds /\ a.gtk \in 1..MaxGtk /\ a.replay \in Nat
  BY DEF Counted, ApStates, Gtks
<1> DEFINE k == IF m = "msg1" THEN 2 * a.round + a.gtk - 3 ELSE 2 * a.round + a.gtk - 2
<1>2. k \in Nat /\ k + 1 <= 2 * MaxRounds + MaxGtk
  BY <1>1
<1>3. a.replay <= Sends(k) + n
  BY <1>1 DEF Counted
<1> HIDE DEF k
<1>4. Sends(k) \in Nat /\ Sends(k + 1) = Sends(k) + MaxTx
      /\ Sends(k + 1) <= MaxReplay /\ MaxReplay \in Nat
  <2>1. Sends(k) \in Nat /\ Sends(k + 1) = Sends(k) + MaxTx
    BY <1>2, SendsValue
  <2>2. k + 1 \in Nat /\ 2 * MaxRounds + MaxGtk \in Nat
    BY <1>2
  <2>3. Sends(k + 1) <= Sends(2 * MaxRounds + MaxGtk)
    BY <1>2, <2>2, SendsValue
  <2> QED BY <2>1, <2>3, SendsValue
<1>5. \A r, s, x \in Nat : n \in 0..MaxTx /\ r <= s + n /\ s + MaxTx <= x => r <= x
  OBVIOUS
<1> QED BY <1>1, <1>3, <1>4, <1>5

LEMMA ApStateExcept ==
  ASSUME NEW a \in ApStates, NEW m \in {"off", "msg1", "msg3", "done", "group"},
         NEW r \in Nat, NEW n \in Nat, NEW t \in 0..MaxTx
  PROVE  [a EXCEPT !.phase = m, !.replay = r, !.first = n, !.tries = t] \in ApStates
BY DEF ApStates

\* The access point sends a message again, or the next one.
LEMMA ApSendsType ==
  ASSUME NEW a \in ApStates, NEW m \in {"msg1", "msg3", "group"}, a.tries < MaxTx,
         Counted(a, m, a.tries),
         m = "msg1" => a.ptk \in (1..MaxRounds) \X (0..MaxReplay),
         m # "msg1" => a.ptk \in Ptks,
         down \in Seq(DownFrames),
         ApSends(a, m)
  PROVE  ApOK'
<1> USE BoundTypes
<1>1. /\ a.phase \in {"off", "msg1", "msg3", "done", "group"} /\ a.round \in 0..MaxRounds
      /\ a.replay \in Nat /\ a.first \in Nat /\ a.tries \in 0..MaxTx /\ a.gtk \in Gtks
      /\ a.ptk \in (0..MaxRounds) \X (0..MaxReplay) /\ a.key \in KeyOrNone
  BY DEF ApStates
<1>2. /\ ap'.phase = m /\ ap'.round = a.round /\ ap'.replay = a.replay + 1
      /\ ap'.tries = a.tries + 1 /\ ap'.ptk = a.ptk /\ ap'.key = a.key /\ ap'.gtk = a.gtk
      /\ ap' \in ApStates
  <2> DEFINE r == a.replay + 1
             n == IF a.tries = 0 THEN a.replay + 1 ELSE a.first
             t == a.tries + 1
  <2>1. ap' = [a EXCEPT !.phase = m, !.replay = r, !.first = n, !.tries = t]
    BY DEF ApSends
  <2>2. \A c \in 0..MaxTx : c < MaxTx => c + 1 \in 0..MaxTx
    OBVIOUS
  <2>3. \A c \in Nat : c + 1 \in Nat
    OBVIOUS
  <2>4. t \in 0..MaxTx /\ r \in Nat /\ n \in Nat
    BY <1>1, <2>2, <2>3
  <2>5. ap' \in ApStates
    <3> HIDE DEF r, n, t
    <3> QED BY <2>1, <2>4, ApStateExcept
  <2> QED BY <2>1, <2>5 DEF ApStates
<1>3. Counted(ap', m, a.tries + 1)
  <2>1. a.round \in Nat /\ a.gtk \in Nat /\ a.gtk > 0
    <3>1. (\A r \in 0..MaxRounds : r \in Nat) /\ (\A g \in 1..MaxGtk : g \in Nat /\ g > 0)
      OBVIOUS
    <3> QED BY <1>1, <3>1, Zenon DEF Gtks
  <2>2. a.round > 0
    BY DEF Counted
  <2>3. 2 * a.round + a.gtk - 3 \in Nat /\ 2 * a.round + a.gtk - 2 \in Nat
    <3>1. \A r, g \in Nat : r > 0 /\ g > 0 => 2 * r + g - 3 \in Nat /\ 2 * r + g - 2 \in Nat
      OBVIOUS
    <3> QED BY <2>1, <2>2, <3>1
  <2>4. Sends(2 * a.round + a.gtk - 3) \in Nat /\ Sends(2 * a.round + a.gtk - 2) \in Nat
    BY <2>3, SendsValue
  <2>5. \A x \in Nat : a.replay <= x + a.tries => a.replay + 1 <= x + (a.tries + 1)
    BY <1>1
  <2>6. /\ m = "msg1" => a.replay + 1 <= Sends(2 * a.round + a.gtk - 3) + (a.tries + 1)
        /\ m # "msg1" => a.replay + 1 <= Sends(2 * a.round + a.gtk - 2) + (a.tries + 1)
    BY <2>4, <2>5 DEF Counted
  <2>7. m = "group" => a.gtk > 1
    BY DEF Counted
  <2> QED BY <1>2, <2>2, <2>6, <2>7 DEF Counted
<1>4. ap'.replay <= MaxReplay
  <2>1. a.tries + 1 \in 0..MaxTx
    BY <1>1
  <2> QED BY <1>2, <1>3, <2>1, CountedBound
<1>5. down' \in Seq(DownFrames)
  <2> DEFINE f == Frame(m, a.replay + 1, a.ptk, a.gtk, a.key)
  <2>1. a.replay + 1 \in 0..MaxReplay /\ a.replay + 1 > 0
    <3>1. \A r, x \in Nat : r + 1 <= x => r + 1 \in 0..x /\ r + 1 > 0
      OBVIOUS
    <3> QED BY <1>1, <1>2, <1>4, <3>1, SendsValue
  <2>2. /\ f \in [msg : {"msg1", "msg3", "group", "deauth"}, replay : 0..MaxReplay,
                  ptk : ((0..MaxRounds) \X (0..MaxReplay)) \cup {NoKey}, gtk : 0..MaxGtk,
                  key : KeyOrNone]
        /\ f.msg = m /\ f.gtk = a.gtk /\ f.replay = a.replay + 1 /\ f.ptk = a.ptk
    <3>1. a.gtk \in 0..MaxGtk
      BY <1>1 DEF Gtks
    <3>2. f = [msg |-> m, replay |-> a.replay + 1, ptk |-> a.ptk, gtk |-> a.gtk, key |-> a.key]
      BY DEF Frame
    <3>3. a.replay + 1 \in 0..MaxReplay
      BY <2>1
    <3> HIDE DEF f
    <3> QED BY <1>1, <3>1, <3>2, <3>3
  <2> HIDE DEF f
  <2>3. f \in DownFrames
    BY <1>1, <2>1, <2>2 DEF DownFrames
  <2>4. down' = Append(down, f)
    BY DEF ApSends, f
  <2> QED BY <2>3, <2>4, AppendProperties
<1> QED BY <1>2, <1>3, <1>5 DEF ApOK

LEMMA RingHead ==
  ASSUME NEW S, NEW q \in Seq(S), q # <<>>
  PROVE  /\ Len(q) \in Nat /\ Len(q) > 0 /\ Head(q) = q[1] /\ Head(q) \in S
         /\ Tail(q) \in Seq(S) /\ Len(Tail(q)) = Len(q) - 1
         /\ \A i \in 1..(Len(q) - 1) : Tail(q)[i] = q[i + 1]
<1>1. Len(q) \in Nat
  BY LenProperties
<1>2. Head(q) \in S /\ Tail(q) \in Seq(S) /\ Len(Tail(q)) = Len(q) - 1
      /\ \A i \in 1..Len(Tail(q)) : Tail(q)[i] = q[i + 1]
  BY HeadTailProperties
<1>3. Len(q) # 0
  BY EmptySeq, <1>1
<1>4. Head(q) = q[1]
  OBVIOUS
<1> QED BY <1>1, <1>2, <1>3, <1>4

LEMMA RingExtend ==
  ASSUME NEW S, NEW q \in Seq(S), NEW t \in Seq(S)
  PROVE  /\ q \o t \in Seq(S) /\ Len(q) \in Nat /\ Len(t) \in Nat
         /\ Len(q \o t) = Len(q) + Len(t)
         /\ \A i \in 1..Len(q) : (q \o t)[i] = q[i]
         /\ \A i \in 1..Len(t) : (q \o t)[Len(q) + i] = t[i]
         /\ \A i \in (Len(q) + 1)..(Len(q) + Len(t)) : (q \o t)[i] = t[i - Len(q)]
<1>1. Len(q) \in Nat /\ Len(t) \in Nat
  BY LenProperties
<1>2. /\ q \o t \in Seq(S) /\ Len(q \o t) = Len(q) + Len(t)
      /\ \A i \in 1..(Len(q) + Len(t)) : (q \o t)[i] = IF i <= Len(q) THEN q[i] ELSE t[i - Len(q)]
  BY ConcatProperties
<1>3. \A i \in 1..Len(q) : (q \o t)[i] = q[i]
  BY <1>1, <1>2
<1>4. \A i \in (Len(q) + 1)..(Len(q) + Len(t)) : (q \o t)[i] = t[i - Len(q)]
  BY <1>1, <1>2
<1>5. ASSUME NEW i \in 1..Len(t)
      PROVE  (q \o t)[Len(q) + i] = t[i]
  <2>1. Len(q) + i \in (Len(q) + 1)..(Len(q) + Len(t)) /\ (Len(q) + i) - Len(q) = i
    BY <1>1
  <2> QED BY <1>4, <2>1
<1> QED BY <1>1, <1>2, <1>3, <1>4, <1>5

LEMMA KidType == \A g \in Gtks : Kid(g) \in Kids /\ g # NoKey
<1>1. ASSUME NEW g \in Gtks PROVE g \in Nat /\ g % 2 \in {0, 1}
  BY BoundTypes DEF Gtks
<1> QED BY <1>1, NoKeyAssumption DEF Kid, Kids

LEMMA TwoRequests ==
  ASSUME NEW k \in Kids
  PROVE  /\ <<Pairwise>> \o <<k>> = <<Pairwise, k>>
         /\ <<>> \o <<k>> = <<k>> /\ <<Pairwise>> \o <<>> = <<Pairwise>> /\ <<>> \o <<>> = <<>>
         /\ <<>> \in Seq(Requests) /\ <<k>> \in Seq(Requests) /\ <<Pairwise>> \in Seq(Requests)
         /\ <<Pairwise, k>> \in Seq(Requests)
         /\ Len(<<Pairwise>>) = 1 /\ Len(<<k>>) = 1 /\ Len(<<Pairwise, k>>) = 2 /\ Len(<<>>) = 0
         /\ Pairwise # k
<1>1. /\ <<>> \in Seq(Requests) /\ <<k>> \in Seq(Requests) /\ <<Pairwise>> \in Seq(Requests)
      /\ <<Pairwise, k>> \in Seq(Requests)
  BY DEF Requests
<1>2. <<>> \o <<k>> = <<k>> /\ <<Pairwise>> \o <<>> = <<Pairwise>> /\ <<>> \o <<>> = <<>>
  BY <1>1, ConcatEmptySeq
<1>3. <<Pairwise>> \o <<k>> = Append(<<Pairwise>>, k)
  BY <1>1, AppendIsConcat DEF Requests
<1>4. <<Pairwise>> \o <<k>> = <<Pairwise, k>>
  BY <1>3, AppendOne
<1>5. Len(<<Pairwise>>) = 1 /\ Len(<<k>>) = 1 /\ Len(<<Pairwise, k>>) = 2 /\ Len(<<>>) = 0
  OBVIOUS
<1>6. Pairwise # k
  BY DEF Pairwise, Kids
<1> QED BY <1>1, <1>2, <1>4, <1>5, <1>6

\* What ieee80211_recv_4way_msg3 does with the keys of f when its answer can be
\* sent; it makes the requests t.
Msg3Keys(f, t) ==
  LET k == Kid(f.gtk)
  IN /\ t \in {<<>>, <<Pairwise>>, <<k>>, <<Pairwise, k>>}
     /\ ring' = ring \o t /\ Len(ring) + Len(t) < RingSize
     /\ pairKey' = IF newPtk THEN f.ptk ELSE pairKey
     /\ t \in {<<Pairwise>>, <<Pairwise, k>>} <=> newPtk /\ ~newPtk'
     /\ newPtk' \in BOOLEAN /\ (newPtk' => newPtk /\ t = <<>>)
     /\ nwKeys' = IF newPtk' THEN nwKeys ELSE [nwKeys EXCEPT ![k] = f.gtk]
     /\ t \in {<<k>>, <<Pairwise, k>>} => nwKeys[k] # f.gtk
     /\ nsState' \in {nsState, "SCAN"}
     /\ nsState' # "SCAN" /\ nwKeys[k] # f.gtk => t \in {<<k>>, <<Pairwise, k>>}
     /\ rxProt' \in BOOLEAN /\ txProt' \in BOOLEAN /\ (rxProt => rxProt')
     /\ newPtk' => rxProt' = rxProt
     /\ newPtk /\ ~newPtk' => rxProt'
     /\ \/ UNCHANGED port
        \/ portValid' = TRUE /\ linkUp' = TRUE /\ ~newPtk /\ nwKeys[k] = f.gtk /\ t = <<>>
     /\ nsq' \in Queues
     /\ HasSetKey(nsq') <=> HasSetKey(nsq) \/ t # <<>>
     /\ SetKeyFirst(nsq) => SetKeyFirst(nsq')
     /\ Answer("msg4", f, f.ptk)

LEMMA Msg3Effect ==
  ASSUME TypeInv, NEW f \in DownFrames, HandleMsg3(f, newPtk, TRUE)
  PROVE  /\ TakesMsg3(f)
         /\ ptk' = f.ptk /\ replay' = f.replay /\ supp' = "PTKDONE"
         /\ UNCHANGED <<icState, anonce, snonce, history>>
         /\ \/ UNCHANGED <<up, newPtk, prot, port, keys, worker>>
            \/ \E t \in Seq(Requests) : Msg3Keys(f, t)
<1>1. /\ TakesMsg3(f)
      /\ ptk' = f.ptk /\ replay' = f.replay /\ supp' = "PTKDONE"
      /\ UNCHANGED <<icState, anonce, snonce, history>>
  BY DEF HandleMsg3
<1>2. f.gtk \in Gtks /\ f.ptk \in Ptks
  BY <1>1 DEF TakesMsg3, DownFrames
<1> DEFINE k == Kid(f.gtk)
<1>3. k \in Kids
  BY <1>2, KidType
<1>4. /\ nsq \in Queues /\ ring \in Seq(Requests) /\ Len(ring) < RingSize /\ nsState \in {"INIT", "SCAN", "AUTH", "ASSOC", "RUN"}
      /\ newPtk \in BOOLEAN /\ rxProt \in BOOLEAN /\ txProt \in BOOLEAN
  BY DEF TypeInv, QueuesOK, StationOK
<1>5. Room \in Nat /\ Len(ring) \in Nat /\ RingSize \in Nat
  <2>1. Len(ring) \in Nat
    BY <1>4, LenProperties
  <2>2. \A r, l \in Nat : l < r => r - 1 - l \in Nat
    OBVIOUS
  <2> QED BY <1>4, <2>1, <2>2, BoundTypes DEF Room
<1>6. /\ Queued(nsq, "setkey") \in Queues /\ HasSetKey(Queued(nsq, "setkey"))
      /\ SetKeyFirst(nsq) => SetKeyFirst(Queued(nsq, "setkey"))
  BY <1>4, QueuedValue
<1>7. /\ Queued(nsq, "newstate") \in Queues
      /\ HasSetKey(Queued(nsq, "newstate")) <=> HasSetKey(nsq)
      /\ SetKeyFirst(nsq) => SetKeyFirst(Queued(nsq, "newstate"))
  BY <1>4, QueuedValue
<1>8. /\ Queued(Queued(nsq, "setkey"), "newstate") \in Queues
      /\ HasSetKey(Queued(Queued(nsq, "setkey"), "newstate"))
      /\ SetKeyFirst(nsq) => SetKeyFirst(Queued(Queued(nsq, "setkey"), "newstate"))
  BY <1>6, QueuedValue
<1>9. /\ <<>> \in Seq(Requests) /\ <<k>> \in Seq(Requests) /\ <<Pairwise>> \in Seq(Requests)
      /\ <<Pairwise, k>> \in Seq(Requests)
      /\ Len(<<Pairwise>>) = 1 /\ Len(<<k>>) = 1 /\ Len(<<Pairwise, k>>) = 2 /\ Len(<<>>) = 0
      /\ <<Pairwise, k>>[1] = Pairwise
      /\ <<Pairwise>> # <<>> /\ <<k>> # <<>> /\ <<Pairwise, k>> # <<>>
      /\ <<Pairwise>> # <<k>> /\ <<Pairwise, k>> # <<k>> /\ <<Pairwise, k>> # <<Pairwise>>
  <2>1. /\ <<>> \in Seq(Requests) /\ <<k>> \in Seq(Requests) /\ <<Pairwise>> \in Seq(Requests)
        /\ <<Pairwise, k>> \in Seq(Requests)
        /\ Len(<<Pairwise>>) = 1 /\ Len(<<k>>) = 1 /\ Len(<<Pairwise, k>>) = 2 /\ Len(<<>>) = 0
        /\ Pairwise # k
    BY <1>3, TwoRequests
  <2>2. <<Pairwise, k>>[1] = Pairwise /\ <<Pairwise>>[1] = Pairwise /\ <<k>>[1] = k
    OBVIOUS
  <2> HIDE DEF k
  <2>3. <<Pairwise>> # <<k>>
    BY <2>1, <2>2
  <2> QED BY <2>1, <2>2, <2>3
<1>10. ring \o <<>> = ring
  BY <1>4, ConcatEmptySeq
<1> DEFINE pair == IF newPtk THEN <<Pairwise>> ELSE <<>>
           group == IF nwKeys[k] = f.gtk THEN <<>> ELSE <<k>>
           requests == pair \o group
           opens == Len(requests) <= Room /\ requests = <<>>
           queue == IF Taken(requests) # <<>> THEN Queued(nsq, "setkey") ELSE nsq
           Frames == /\ Answer("msg4", f, f.ptk)
                     /\ pairKey' = IF newPtk THEN f.ptk ELSE pairKey
                     /\ nwKeys' = IF Len(pair) <= Room THEN [nwKeys EXCEPT ![k] = f.gtk] ELSE nwKeys
                     /\ ring' = ring \o Taken(requests)
                     /\ newPtk' = (newPtk /\ ~(Len(pair) <= Room))
                     /\ rxProt' = (Len(requests) <= Room \/ (newPtk /\ Len(pair) <= Room) \/ rxProt)
                     /\ txProt' = (Len(requests) <= Room \/ (txProt /\ ~(newPtk /\ Len(pair) <= Room)))
                     /\ portValid' = (portValid \/ opens) /\ linkUp' = (linkUp \/ opens)
                     /\ IF Len(requests) <= Room
                        THEN nsState' = nsState /\ nsq' = queue
                        ELSE nsState' = "SCAN" /\ nsq' = Queued(queue, "newstate")
<1>11. UNCHANGED <<up, newPtk, prot, port, keys, worker>> \/ Frames
  BY Zenon DEF HandleMsg3
<1>12. requests = IF newPtk THEN IF nwKeys[k] = f.gtk THEN <<Pairwise>> ELSE <<Pairwise, k>>
                            ELSE IF nwKeys[k] = f.gtk THEN <<>> ELSE <<k>>
  BY <1>3, TwoRequests
<1>13. Len(pair) = IF newPtk THEN 1 ELSE 0
  BY <1>9
<1>14. Taken(requests) = IF Len(requests) <= Room THEN requests
                         ELSE IF Room = 0 THEN <<>> ELSE <<requests[1]>>
  <2>1. requests \in Seq(Requests) /\ Len(requests) \in {0, 1, 2}
    <3> HIDE DEF k
    <3> QED BY <1>9, <1>12
  <2>2. Len(requests) <= 2
    BY <2>1
  <2> HIDE DEF requests
  <2> QED BY <1>5, <2>1, <2>2, TakenValue
<1> HIDE DEF pair, group, requests
<1>15. ASSUME Frames
       PROVE  \E t \in Seq(Requests) : Msg3Keys(f, t)
  <2> HIDE DEF k
  <2>1. ASSUME NEW t \in {<<>>, <<Pairwise>>, <<k>>, <<Pairwise, k>>}, t = Taken(requests),
               Len(t) <= Room,
               t \in {<<Pairwise>>, <<Pairwise, k>>} <=> newPtk /\ Len(pair) <= Room,
               Len(pair) > Room => newPtk /\ Len(requests) > Room /\ t = <<>>,
               t \in {<<k>>, <<Pairwise, k>>} => nwKeys[k] # f.gtk,
               Len(requests) <= Room /\ nwKeys[k] # f.gtk => t \in {<<k>>, <<Pairwise, k>>},
               opens => ~newPtk /\ nwKeys[k] = f.gtk /\ t = <<>>
        PROVE  Msg3Keys(f, t)
    <3>1. Len(t) \in Nat /\ Len(ring) + Len(t) < RingSize
      <4>1. Len(t) \in Nat
        BY <1>9
      <4>2. \A l, r, n \in Nat : n <= r - 1 - l => l + n < r
        OBVIOUS
      <4> QED BY <1>5, <2>1, <4>1, <4>2 DEF Room
    <3>2. newPtk' \in BOOLEAN /\ (newPtk' <=> newPtk /\ ~(Len(pair) <= Room))
      <4>1. newPtk' = (newPtk /\ ~(Len(pair) <= Room))
        BY <1>15, Zenon
      <4> QED BY <4>1
    <3>3. Len(pair) <= Room \/ Len(pair) > Room
      BY <1>5, <1>13
    <3>4. nsq' \in {queue, Queued(queue, "newstate")}
      <4>1. CASE Len(requests) <= Room
        BY <1>15, <4>1
      <4>2. CASE ~(Len(requests) <= Room)
        BY <1>15, <4>2
      <4> QED BY <4>1, <4>2
    <3>5. nsq' \in Queues /\ (HasSetKey(nsq') <=> HasSetKey(nsq) \/ t # <<>>)
          /\ (SetKeyFirst(nsq) => SetKeyFirst(nsq'))
      BY <1>4, <1>6, <1>7, <1>8, <2>1, <3>4
    <3>6. /\ newPtk' \in BOOLEAN /\ (newPtk' => newPtk /\ t = <<>>)
          /\ rxProt' \in BOOLEAN /\ txProt' \in BOOLEAN /\ (rxProt => rxProt')
          /\ newPtk' => rxProt' = rxProt
          /\ newPtk /\ ~newPtk' => rxProt'
      <4>1. rxProt' = (Len(requests) <= Room \/ (newPtk /\ Len(pair) <= Room) \/ rxProt)
            /\ txProt' = (Len(requests) <= Room \/ (txProt /\ ~(newPtk /\ Len(pair) <= Room)))
        BY <1>15, Zenon
      <4>2. newPtk' => ~(Len(pair) <= Room) /\ ~(Len(requests) <= Room)
        <5>1. Len(requests) \in Nat /\ Len(pair) \in Nat
          <6>1. Len(requests) \in {0, 1, 2}
            BY <1>9, <1>12
          <6> QED BY <1>13, <6>1
        <5>2. \A l, m \in Nat : l > m => ~(l <= m)
          OBVIOUS
        <5> QED BY <1>5, <2>1, <3>2, <3>3, <5>1, <5>2
      <4> QED BY <1>4, <2>1, <3>2, <3>3, <4>1, <4>2
    <3>7. nwKeys' = IF newPtk' THEN nwKeys ELSE [nwKeys EXCEPT ![k] = f.gtk]
      BY <1>4, <1>15, <2>1, <3>2, <3>3
    <3>8. \/ UNCHANGED port
          \/ portValid' = TRUE /\ linkUp' = TRUE /\ ~newPtk /\ nwKeys[k] = f.gtk /\ t = <<>>
      <4>1. CASE opens
        BY <1>15, <2>1, <4>1
      <4>2. CASE ~opens
        <5>1. portValid' = portValid /\ linkUp' = linkUp
          <6>1. portValid \in BOOLEAN /\ linkUp \in BOOLEAN
            BY DEF TypeInv, StationOK
          <6> QED BY <1>15, <4>2, <6>1
        <5> QED BY <5>1 DEF port
      <4> QED BY <4>1, <4>2
    <3>9. ring' = ring \o t /\ pairKey' = IF newPtk THEN f.ptk ELSE pairKey
      BY <1>15, <2>1
    <3>10. nsState' \in {nsState, "SCAN"}
           /\ (nsState' # "SCAN" /\ nwKeys[k] # f.gtk => t \in {<<k>>, <<Pairwise, k>>})
      BY <1>15, <2>1
    <3>11. t \in {<<Pairwise>>, <<Pairwise, k>>} <=> newPtk /\ ~newPtk'
      BY <1>4, <2>1, <3>2
    <3>12. Answer("msg4", f, f.ptk)
      BY <1>15
    <3> QED BY <2>1, <3>1, <3>5, <3>6, <3>7, <3>8, <3>9, <3>10, <3>11, <3>12 DEF Msg3Keys, k
  <2>2. ASSUME NEW t \in {<<>>, <<Pairwise>>, <<k>>, <<Pairwise, k>>}
        PROVE  t \in Seq(Requests)
    BY <1>9
  <2>3. CASE ~newPtk /\ nwKeys[k] = f.gtk
    <3>1. requests = <<>> /\ Taken(requests) = <<>> /\ Len(pair) = 0 /\ Len(requests) = 0
      BY <1>5, <1>9, <1>12, <1>13, <1>14, <2>3
    <3>2. Len(pair) <= Room /\ Len(requests) <= Room /\ ~(Len(pair) > Room)
      BY <1>5, <3>1
    <3> QED BY <1>9, <2>1, <2>2, <2>3, <3>1, <3>2
  <2>4. CASE ~newPtk /\ nwKeys[k] # f.gtk
    <3>1. requests = <<k>> /\ Len(pair) = 0 /\ Len(requests) = 1
      BY <1>9, <1>12, <1>13, <2>4
    <3>2. Len(pair) <= Room /\ ~(Len(pair) > Room)
      BY <1>5, <3>1
    <3>3. CASE Room = 0
      <4>1. Taken(requests) = <<>> /\ ~(Len(requests) <= Room)
        BY <1>14, <3>1, <3>3
      <4> QED BY <1>9, <2>1, <2>2, <2>4, <3>1, <3>2, <3>3, <4>1
    <3>4. CASE Room > 0
      <4>1. Len(requests) <= Room
        BY <1>5, <3>1, <3>4
      <4>2. Taken(requests) = <<k>>
        BY <1>14, <3>1, <4>1
      <4> QED BY <1>9, <2>1, <2>2, <2>4, <3>1, <3>2, <4>1, <4>2
    <3> QED BY <1>5, <3>3, <3>4
  <2>5. CASE newPtk /\ nwKeys[k] = f.gtk
    <3>1. requests = <<Pairwise>> /\ Len(pair) = 1 /\ Len(requests) = 1 /\ requests # <<>>
      BY <1>9, <1>12, <1>13, <2>5
    <3>3. CASE Room = 0
      <4>1. Taken(requests) = <<>> /\ ~(Len(requests) <= Room) /\ ~(Len(pair) <= Room) /\ Len(requests) > Room
        BY <1>14, <3>1, <3>3
      <4>2. Len(<<>>) <= Room
        BY <1>9, <3>3
      <4> QED BY <1>9, <2>1, <2>2, <2>5, <3>1, <4>1, <4>2
    <3>4. CASE Room > 0
      <4>1. Len(requests) <= Room /\ Len(pair) <= Room /\ ~(Len(pair) > Room)
        BY <1>5, <3>1, <3>4
      <4>2. Taken(requests) = <<Pairwise>>
        BY <1>14, <3>1, <4>1
      <4> QED BY <1>9, <2>1, <2>2, <2>5, <3>1, <4>1, <4>2
    <3> QED BY <1>5, <3>3, <3>4
  <2>6. CASE newPtk /\ nwKeys[k] # f.gtk
    <3>1. requests = <<Pairwise, k>> /\ Len(pair) = 1 /\ Len(requests) = 2 /\ requests # <<>>
      BY <1>9, <1>12, <1>13, <2>6
    <3>3. CASE Room = 0
      <4>1. Taken(requests) = <<>> /\ ~(Len(requests) <= Room) /\ ~(Len(pair) <= Room) /\ Len(requests) > Room
        BY <1>14, <3>1, <3>3
      <4>2. Len(<<>>) <= Room
        BY <1>9, <3>3
      <4> QED BY <1>9, <2>1, <2>2, <2>6, <3>1, <4>1, <4>2
    <3>4. CASE Room = 1
      <4>1. ~(Len(requests) <= Room) /\ Len(pair) <= Room /\ ~(Len(pair) > Room)
        BY <1>5, <3>1, <3>4
      <4>2. Taken(requests) = <<Pairwise>>
        BY <1>9, <1>14, <3>1, <3>4, <4>1
      <4> QED BY <1>9, <2>1, <2>2, <2>6, <3>1, <3>4, <4>1, <4>2
    <3>5. CASE Room > 1
      <4>1. Len(requests) <= Room /\ Len(pair) <= Room /\ ~(Len(pair) > Room)
        BY <1>5, <3>1, <3>5
      <4>2. Taken(requests) = <<Pairwise, k>>
        BY <1>14, <3>1, <4>1
      <4> QED BY <1>9, <2>1, <2>2, <2>6, <3>1, <4>1, <4>2
    <3> QED BY <1>5, <3>3, <3>4, <3>5
  <2> QED BY <2>3, <2>4, <2>5, <2>6
<1> QED BY <1>1, <1>11, <1>15

\* What ieee80211_recv_rsn_group_msg1 does; it makes the requests t.
GroupKeys(f, t) ==
  LET k == Kid(f.gtk)
  IN /\ t \in {<<>>, <<k>>}
     /\ ring' = ring \o t /\ Len(ring) + Len(t) < RingSize
     /\ nwKeys' = [nwKeys EXCEPT ![k] = f.gtk]
     /\ t = <<k>> => nwKeys[k] # f.gtk
     /\ nsState' \in {nsState, "SCAN"}
     /\ nsState' # "SCAN" /\ nwKeys[k] # f.gtk => t = <<k>>
     /\ UNCHANGED port \/ (portValid' = TRUE /\ linkUp' = TRUE)
     /\ nsq' \in Queues
     /\ HasSetKey(nsq') <=> HasSetKey(nsq) \/ t # <<>>
     /\ SetKeyFirst(nsq) => SetKeyFirst(nsq')
     /\ replay' \in {replay, f.replay}
     /\ UNCHANGED up \/ Answer("gmsg2", f, ptk)

LEMMA GroupEffect ==
  ASSUME TypeInv, NEW f \in DownFrames, RecvGroupMsg1(f)
  PROVE  /\ TakesGroupMsg1(f)
         /\ UNCHANGED <<icState, supp, newPtk, anonce, snonce, ptk, prot, pairKey, history>>
         /\ \E t \in Seq(Requests) : GroupKeys(f, t)
<1>1. /\ TakesGroupMsg1(f)
      /\ UNCHANGED <<icState, supp, newPtk, anonce, snonce, ptk, prot, pairKey, history>>
  BY DEF RecvGroupMsg1
<1>2. f.gtk \in Gtks
  BY <1>1 DEF TakesGroupMsg1, DownFrames
<1> DEFINE k == Kid(f.gtk)
<1>3. k \in Kids
  BY <1>2, KidType
<1>4. /\ nsq \in Queues /\ ring \in Seq(Requests) /\ Len(ring) < RingSize
  BY DEF TypeInv, QueuesOK
<1>5. Room \in Nat /\ Len(ring) \in Nat /\ RingSize \in Nat
  <2>1. Len(ring) \in Nat
    BY <1>4, LenProperties
  <2>2. \A r, l \in Nat : l < r => r - 1 - l \in Nat
    OBVIOUS
  <2> QED BY <1>4, <2>1, <2>2, BoundTypes DEF Room
<1>6. /\ Queued(nsq, "setkey") \in Queues /\ HasSetKey(Queued(nsq, "setkey"))
      /\ SetKeyFirst(nsq) => SetKeyFirst(Queued(nsq, "setkey"))
      /\ Queued(nsq, "newstate") \in Queues
      /\ HasSetKey(Queued(nsq, "newstate")) <=> HasSetKey(nsq)
      /\ SetKeyFirst(nsq) => SetKeyFirst(Queued(nsq, "newstate"))
  BY <1>4, QueuedValue
<1>7. /\ <<>> \in Seq(Requests) /\ <<k>> \in Seq(Requests)
      /\ Len(<<k>>) = 1 /\ Len(<<>>) = 0 /\ <<k>> # <<>>
  <2>1. /\ <<>> \in Seq(Requests) /\ <<k>> \in Seq(Requests)
        /\ Len(<<k>>) = 1 /\ Len(<<>>) = 0
    BY <1>3, TwoRequests
  <2> HIDE DEF k
  <2> QED BY <2>1
<1>8. ring \o <<>> = ring
  BY <1>4, ConcatEmptySeq
<1>9. \A l, r, n \in Nat : n <= r - 1 - l => l + n < r
  OBVIOUS
<1> DEFINE group == IF nwKeys[k] = f.gtk THEN <<>> ELSE <<k>>
<1>10. /\ nwKeys' = [nwKeys EXCEPT ![k] = f.gtk]
       /\ IF Len(group) <= Room
          THEN /\ ring' = ring \o group
               /\ nsState' = nsState
               /\ nsq' = IF group = <<>> THEN nsq ELSE Queued(nsq, "setkey")
               /\ portValid' = TRUE /\ linkUp' = TRUE
               /\ replay' = f.replay
               /\ UNCHANGED up \/ Answer("gmsg2", f, ptk)
          ELSE /\ Request("SCAN")
               /\ UNCHANGED <<ring, port, replay, up>>
  BY Zenon DEF RecvGroupMsg1
<1>11. Len(group) \in Nat /\ group \in {<<>>, <<k>>} /\ (group = <<k>> <=> nwKeys[k] # f.gtk)
       /\ group \in Seq(Requests)
  <2> HIDE DEF k
  <2> QED BY <1>7
<1> HIDE DEF group
<1>12. CASE Len(group) <= Room
  <2>1. Len(ring) + Len(group) < RingSize
    BY <1>5, <1>9, <1>11, <1>12 DEF Room
  <2>2. /\ ring' = ring \o group /\ nsState' = nsState
        /\ nsq' = IF group = <<>> THEN nsq ELSE Queued(nsq, "setkey")
        /\ portValid' = TRUE /\ linkUp' = TRUE
        /\ replay' = f.replay
        /\ UNCHANGED up \/ Answer("gmsg2", f, ptk)
    BY <1>10, <1>12
  <2>3. nsq' \in Queues /\ (HasSetKey(nsq') <=> HasSetKey(nsq) \/ group # <<>>)
        /\ (SetKeyFirst(nsq) => SetKeyFirst(nsq'))
    BY <1>4, <1>6, <2>2
  <2>4. GroupKeys(f, group)
    BY <1>10, <1>11, <2>1, <2>2, <2>3 DEF GroupKeys
  <2> QED BY <1>1, <1>11, <2>4
<1>13. CASE ~(Len(group) <= Room)
  <2>1. /\ Request("SCAN") /\ UNCHANGED <<ring, port, replay, up>>
    BY <1>10, <1>13
  <2>2. nsState' = "SCAN" /\ nsq' = Queued(nsq, "newstate")
    BY <2>1 DEF Request
  <2>3. Len(ring) + Len(<<>>) < RingSize /\ ring' = ring \o <<>>
    BY <1>4, <1>5, <1>7, <1>8, <2>1
  <2>4. nsq' \in Queues /\ (HasSetKey(nsq') <=> HasSetKey(nsq) \/ <<>> # <<>>)
        /\ (SetKeyFirst(nsq) => SetKeyFirst(nsq'))
    BY <1>6, <2>2
  <2>5. GroupKeys(f, <<>>)
    BY <1>7, <1>10, <2>1, <2>2, <2>3, <2>4 DEF GroupKeys
  <2> QED BY <1>1, <1>7, <2>5
<1> QED BY <1>12, <1>13

LEMMA SendsSteps ==
  ASSUME NEW r \in Nat, NEW g \in Nat, r > 0, g > 0
  PROVE  /\ Sends(2 * r + g - 3) \in Nat /\ Sends(2 * r + g - 2) \in Nat /\ Sends(2 * r + g - 1) \in Nat
         /\ Sends(2 * r + g - 2) = Sends(2 * r + g - 3) + MaxTx
         /\ Sends(2 * r + g - 1) = Sends(2 * r + g - 2) + MaxTx
         /\ 2 * r + (g + 1) - 2 = 2 * r + g - 1
         /\ 2 * (r + 1) + g - 3 = 2 * r + g - 1
         /\ \A c, s \in Nat, n \in 0..MaxTx : c <= s + n => c <= s + MaxTx
<1> USE BoundTypes
<1>1. /\ 2 * r + g - 3 \in Nat /\ 2 * r + g - 2 \in Nat /\ 2 * r + g - 1 \in Nat
      /\ 2 * r + g - 2 = (2 * r + g - 3) + 1 /\ 2 * r + g - 1 = (2 * r + g - 2) + 1
      /\ 2 * r + (g + 1) - 2 = 2 * r + g - 1
      /\ 2 * (r + 1) + g - 3 = 2 * r + g - 1
  OBVIOUS
<1>2. \A c, s \in Nat, n \in 0..MaxTx : c <= s + n => c <= s + MaxTx
  OBVIOUS
<1>3. /\ Sends(2 * r + g - 3) \in Nat /\ Sends((2 * r + g - 3) + 1) = Sends(2 * r + g - 3) + MaxTx
  BY <1>1, SendsValue
<1>4. /\ Sends(2 * r + g - 2) \in Nat /\ Sends((2 * r + g - 2) + 1) = Sends(2 * r + g - 2) + MaxTx
      /\ Sends(2 * r + g - 1) \in Nat
  BY <1>1, SendsValue
<1> QED BY <1>1, <1>2, <1>3, <1>4

LEMMA BoundSteps ==
  /\ 0 \in 0..MaxTx /\ 0 < MaxTx /\ 0 \in 0..MaxReplay /\ 0 \in Nat /\ NoKey \in KeyOrNone
  /\ \A r \in 0..MaxRounds : r \in Nat /\ (r < MaxRounds =>
        r + 1 \in 1..MaxRounds /\ r + 1 \in 0..MaxRounds /\ r + 1 > 0 /\ r + 1 \in Nat)
  /\ \A g \in 1..MaxGtk : g \in Nat /\ g > 0 /\ (g < MaxGtk => g + 1 \in 1..MaxGtk /\ g + 1 > 1)
  /\ 1..MaxRounds \subseteq 0..MaxRounds /\ 1..MaxReplay \subseteq 0..MaxReplay
<1>1. 0 \in 0..MaxTx /\ 0 < MaxTx /\ 0 \in 0..MaxReplay /\ 0 \in Nat /\ NoKey \in KeyOrNone
  BY BoundTypes, SendsValue DEF KeyOrNone
<1>2. \A r \in 0..MaxRounds : r \in Nat /\ (r < MaxRounds =>
        r + 1 \in 1..MaxRounds /\ r + 1 \in 0..MaxRounds /\ r + 1 > 0 /\ r + 1 \in Nat)
  BY BoundTypes
<1>3. \A g \in 1..MaxGtk : g \in Nat /\ g > 0 /\ (g < MaxGtk => g + 1 \in 1..MaxGtk /\ g + 1 > 1)
  BY BoundTypes
<1>4. \A x \in Nat : 1..x \subseteq 0..x
  OBVIOUS
<1>5. 1..MaxRounds \subseteq 0..MaxRounds /\ 1..MaxReplay \subseteq 0..MaxReplay
  BY <1>4, BoundTypes, SendsValue
<1> QED BY <1>1, <1>2, <1>3, <1>5

LEMMA FrameTypes ==
  ASSUME TypeInv
  PROVE  /\ down # <<>> => Head(down) \in DownFrames /\ Tail(down) \in Seq(DownFrames)
         /\ up # <<>> => Head(up) \in UpFrames /\ Tail(up) \in Seq(UpFrames)
         /\ Frame("deauth", 0, NoKey, 0, NoKey) \in DownFrames
         /\ Append(down, Frame("deauth", 0, NoKey, 0, NoKey)) \in Seq(DownFrames)
<1>1. down \in Seq(DownFrames) /\ up \in Seq(UpFrames)
  BY DEF TypeInv, ApOK, QueuesOK
<1>2. 0 \in 0..MaxReplay /\ 0 \in 0..MaxGtk /\ NoKey \in KeyOrNone
      /\ NoKey \in ((0..MaxRounds) \X (0..MaxReplay)) \cup {NoKey}
  BY SendsValue, BoundTypes DEF KeyOrNone
<1>3. Frame("deauth", 0, NoKey, 0, NoKey) \in DownFrames
  BY <1>2 DEF DownFrames, Frame
<1> QED BY <1>1, <1>3, RingHead, AppendProperties

LEMMA ApSentOK ==
  ASSUME TypeInv, ApTimeout \/ ApDeauths \/ ApRekeys
  PROVE  ApOK'
<1>1. /\ ap.phase \in {"off", "msg1", "msg3", "done", "group"} /\ ap.round \in 0..MaxRounds
      /\ ap.replay \in Nat /\ ap.first \in Nat /\ ap.tries \in 0..MaxTx /\ ap.gtk \in 1..MaxGtk
      /\ ap.ptk \in (0..MaxRounds) \X (0..MaxReplay) /\ ap.key \in KeyOrNone
      /\ ap \in ApStates /\ Counted(ap, ap.phase, ap.tries) /\ down \in Seq(DownFrames)
      /\ ap.phase = "msg1" => ap.ptk \in (1..MaxRounds) \X (0..MaxReplay)
      /\ ap.phase \in {"msg3", "done", "group"} => ap.ptk \in Ptks
  BY DEF TypeInv, ApOK, ApStates, Gtks
<1>2. ASSUME ap' = [ap EXCEPT !.phase = "off", !.key = NoKey],
             down' = Append(down, Frame("deauth", 0, NoKey, 0, NoKey))
      PROVE  ApOK'
  <2>1. ap' \in ApStates /\ ap'.phase = "off"
    <3>1. NoKey \in KeyOrNone
      BY DEF KeyOrNone
    <3> QED BY <1>1, <1>2, <3>1 DEF ApStates
  <2>2. Counted(ap', "off", ap'.tries)
    BY DEF Counted
  <2> QED BY <1>2, <2>1, <2>2, FrameTypes DEF ApOK
<1>3. CASE ApTimeout
  <2>1. CASE ap.tries < MaxTx
    <3>1. ApSends(ap, ap.phase) /\ ap.phase \in {"msg1", "msg3", "group"}
      BY <1>3, <2>1 DEF ApTimeout
    <3> QED BY <1>1, <2>1, <3>1, ApSendsType
  <2>2. CASE ~(ap.tries < MaxTx)
    BY <1>2, <1>3, <2>2 DEF ApTimeout
  <2> QED BY <2>1, <2>2
<1>4. CASE ApDeauths
  BY <1>2, <1>4 DEF ApDeauths
<1>5. CASE ApRekeys
  <2>1. ap.phase = "done" /\ ap.round > 0 /\ ap.replay <= Sends(2 * ap.round + ap.gtk - 1)
        /\ ap.ptk \in Ptks
    BY <1>1, <1>5 DEF ApRekeys, Counted
  <2>2. CASE /\ ap.gtk < MaxGtk
             /\ ApSends([ap EXCEPT !.gtk = @ + 1, !.tries = 0], "group")
    <3> DEFINE a == [ap EXCEPT !.gtk = @ + 1, !.tries = 0]
    <3>1. ap.gtk + 1 \in Gtks /\ ap.gtk + 1 > 1 /\ 0 \in 0..MaxTx /\ 0 < MaxTx
      BY <1>1, <2>2, BoundSteps DEF Gtks
    <3>2. a \in ApStates /\ a.round = ap.round /\ a.gtk = ap.gtk + 1 /\ a.replay = ap.replay
          /\ a.tries = 0 /\ a.ptk = ap.ptk
      BY <1>1, <3>1 DEF ApStates
    <3> HIDE DEF a
    <3>3. Counted(a, "group", a.tries)
      <4>1. ap.round \in Nat /\ ap.gtk \in Nat /\ ap.gtk > 0
        BY <1>1, BoundSteps
      <4>2. 2 * ap.round + (ap.gtk + 1) - 2 = 2 * ap.round + ap.gtk - 1
            /\ Sends(2 * ap.round + ap.gtk - 1) \in Nat
        BY <2>1, <4>1, SendsSteps
      <4>3. \A c, s \in Nat : c <= s => c <= s + 0
        OBVIOUS
      <4>4. ap.replay <= Sends(2 * ap.round + (ap.gtk + 1) - 2) + 0
        BY <1>1, <2>1, <4>2, <4>3
      <4> QED BY <2>1, <3>1, <3>2, <4>4 DEF Counted
    <3>4. ApSends(a, "group")
      BY <2>2 DEF a
    <3> QED BY <1>1, <2>1, <3>1, <3>2, <3>3, <3>4, ApSendsType
  <2>3. CASE /\ ap.round < MaxRounds
             /\ ApSends([ap EXCEPT !.round = @ + 1, !.tries = 0, !.ptk = <<ap.round + 1, 0>>], "msg1")
    <3> DEFINE a == [ap EXCEPT !.round = @ + 1, !.tries = 0, !.ptk = <<ap.round + 1, 0>>]
    <3>1. ap.round + 1 \in 1..MaxRounds /\ ap.round + 1 \in 0..MaxRounds /\ 0 \in 0..MaxTx
          /\ 0 < MaxTx /\ 0 \in 0..MaxReplay
      BY <1>1, <2>3, BoundSteps
    <3>2. a \in ApStates /\ a.round = ap.round + 1 /\ a.gtk = ap.gtk /\ a.replay = ap.replay
          /\ a.tries = 0 /\ a.ptk = <<ap.round + 1, 0>>
      BY <1>1, <3>1 DEF ApStates
    <3> HIDE DEF a
    <3>3. Counted(a, "msg1", a.tries)
      <4>1. ap.round \in Nat /\ ap.gtk \in Nat /\ ap.gtk > 0
        BY <1>1, BoundSteps
      <4>2. 2 * (ap.round + 1) + ap.gtk - 3 = 2 * ap.round + ap.gtk - 1
            /\ Sends(2 * ap.round + ap.gtk - 1) \in Nat
        BY <2>1, <4>1, SendsSteps
      <4>3. \A c, s \in Nat : c <= s => c <= s + 0
        OBVIOUS
      <4>4. ap.replay <= Sends(2 * (ap.round + 1) + ap.gtk - 3) + 0
        BY <1>1, <2>1, <4>2, <4>3
      <4>5. ap.round + 1 > 0
        BY <1>1, <2>3, BoundSteps
      <4> QED BY <3>2, <4>4, <4>5 DEF Counted
    <3>4. ApSends(a, "msg1") /\ a.ptk \in (1..MaxRounds) \X (0..MaxReplay)
      BY <2>3, <3>1, <3>2 DEF a
    <3> QED BY <1>1, <3>1, <3>2, <3>3, <3>4, ApSendsType
  <2> QED BY <1>5, <2>2, <2>3 DEF ApRekeys
<1> QED BY <1>3, <1>4, <1>5

LEMMA ApReceivedOK ==
  ASSUME TypeInv, NEW f \in UpFrames, NEW key, ApReceives(f, key)
  PROVE  ApOK'
<1>1. /\ ap.phase \in {"off", "msg1", "msg3", "done", "group"} /\ ap.round \in 0..MaxRounds
      /\ ap.replay \in Nat /\ ap.first \in Nat /\ ap.tries \in 0..MaxTx /\ ap.gtk \in 1..MaxGtk
      /\ ap.ptk \in (0..MaxRounds) \X (0..MaxReplay) /\ ap.key \in KeyOrNone
      /\ ap \in ApStates /\ Counted(ap, ap.phase, ap.tries) /\ down \in Seq(DownFrames)
      /\ ap.phase = "msg1" => ap.ptk \in (1..MaxRounds) \X (0..MaxReplay)
      /\ ap.phase \in {"msg3", "done", "group"} => ap.ptk \in Ptks
      /\ ApOK
  BY DEF TypeInv, ApOK, ApStates, Gtks
<1>2. f.ptk \in Ptks /\ f.ptk \in (0..MaxRounds) \X (0..MaxReplay) /\ f.ptk \in KeyOrNone
  <2>1. f.ptk \in Ptks
    BY DEF UpFrames
  <2> QED BY <2>1, BoundSteps DEF Ptks, KeyOrNone
<1>3. \/ UNCHANGED <<ap, down>>
      \/ ap.phase = "msg1" /\ ApSends([ap EXCEPT !.ptk = f.ptk, !.tries = 0], "msg3")
      \/ ap.phase = "msg3" /\ ap' = [ap EXCEPT !.phase = "done", !.key = f.ptk] /\ UNCHANGED down
      \/ ap.phase = "group" /\ ap' = [ap EXCEPT !.phase = "done"] /\ UNCHANGED down
  BY DEF ApReceives
<1>4. CASE UNCHANGED <<ap, down>>
  BY <1>1, <1>4 DEF ApOK, Counted
<1>5. CASE ap.phase = "msg1" /\ ApSends([ap EXCEPT !.ptk = f.ptk, !.tries = 0], "msg3")
  <2> DEFINE a == [ap EXCEPT !.ptk = f.ptk, !.tries = 0]
  <2>1. a \in ApStates /\ a.round = ap.round /\ a.gtk = ap.gtk /\ a.replay = ap.replay
        /\ a.tries = 0 /\ a.ptk = f.ptk /\ 0 \in 0..MaxTx /\ 0 < MaxTx
    <3>1. 0 \in 0..MaxTx /\ 0 < MaxTx
      BY BoundSteps
    <3> QED BY <1>1, <1>2, <3>1 DEF ApStates
  <2> HIDE DEF a
  <2>2. Counted(a, "msg3", a.tries)
    <3>1. ap.round > 0 /\ ap.replay <= Sends(2 * ap.round + ap.gtk - 3) + ap.tries
      BY <1>1, <1>5 DEF Counted
    <3>2. ap.round \in Nat /\ ap.gtk \in Nat /\ ap.gtk > 0
      BY <1>1, BoundSteps
    <3>3. /\ Sends(2 * ap.round + ap.gtk - 3) \in Nat /\ Sends(2 * ap.round + ap.gtk - 2) \in Nat
          /\ Sends(2 * ap.round + ap.gtk - 2) = Sends(2 * ap.round + ap.gtk - 3) + MaxTx
          /\ \A c, s \in Nat, n \in 0..MaxTx : c <= s + n => c <= s + MaxTx
      BY <3>1, <3>2, SendsSteps
    <3>4. ap.replay <= Sends(2 * ap.round + ap.gtk - 2) + 0
      <4>1. ap.replay <= Sends(2 * ap.round + ap.gtk - 2)
        BY <1>1, <3>1, <3>3
      <4>2. \A c, s \in Nat : c <= s => c <= s + 0
        OBVIOUS
      <4> QED BY <1>1, <3>3, <4>1, <4>2
    <3> QED BY <2>1, <3>1, <3>4 DEF Counted
  <2>3. ApSends(a, "msg3")
    BY <1>5 DEF a
  <2> QED BY <1>1, <1>2, <2>1, <2>2, <2>3, ApSendsType
<1>6. ASSUME ap.phase \in {"msg3", "group"}, NEW k \in KeyOrNone,
             ap' = [ap EXCEPT !.phase = "done", !.key = k], UNCHANGED down
      PROVE  ApOK'
  <2>1. ap' \in ApStates /\ ap'.round = ap.round /\ ap'.gtk = ap.gtk /\ ap'.replay = ap.replay
        /\ ap'.phase = "done" /\ ap'.ptk = ap.ptk
    BY <1>1, <1>6 DEF ApStates
  <2>2. Counted(ap', "done", ap'.tries)
    <3>1. ap.round > 0 /\ ap.replay <= Sends(2 * ap.round + ap.gtk - 2) + ap.tries
      BY <1>1, <1>6 DEF Counted
    <3>2. ap.round \in Nat /\ ap.gtk \in Nat /\ ap.gtk > 0
      BY <1>1, BoundSteps
    <3>3. /\ Sends(2 * ap.round + ap.gtk - 2) \in Nat
          /\ Sends(2 * ap.round + ap.gtk - 1) = Sends(2 * ap.round + ap.gtk - 2) + MaxTx
          /\ \A c, s \in Nat, n \in 0..MaxTx : c <= s + n => c <= s + MaxTx
      BY <3>1, <3>2, SendsSteps
    <3>4. ap.replay <= Sends(2 * ap.round + ap.gtk - 1)
      BY <1>1, <3>1, <3>3
    <3> QED BY <2>1, <3>1, <3>4 DEF Counted
  <2> QED BY <1>1, <1>6, <2>1, <2>2 DEF ApOK
<1>7. CASE ap.phase = "msg3" /\ ap' = [ap EXCEPT !.phase = "done", !.key = f.ptk] /\ UNCHANGED down
  BY <1>2, <1>6, <1>7
<1>8. CASE ap.phase = "group" /\ ap' = [ap EXCEPT !.phase = "done"] /\ UNCHANGED down
  <2>1. [ap EXCEPT !.phase = "done"] = [ap EXCEPT !.phase = "done", !.key = ap.key]
    BY <1>1 DEF ApStates
  <2> QED BY <1>1, <1>6, <1>8, <2>1
<1> QED BY <1>3, <1>4, <1>5, <1>7, <1>8

LEMMA ApType ==
  ASSUME TypeInv, [Next]_vars
  PROVE  ApOK'
<1>1. ASSUME UNCHANGED <<ap, down>>
      PROVE  ApOK'
  BY <1>1 DEF TypeInv, ApOK, Counted
<1>2. ASSUME UNCHANGED ap, down # <<>>, down' = Tail(down)
      PROVE  ApOK'
  <2>1. down' \in Seq(DownFrames)
    BY <1>2, FrameTypes
  <2> QED BY <1>2, <2>1 DEF TypeInv, ApOK, Counted
<1>3. CASE UNCHANGED vars
  BY <1>1, <1>3 DEF vars
<1>4. CASE Worker
  <2>1. UNCHANGED <<ap, down>>
    BY <1>4 DEF Worker, NewStateTask, BeginSetKeyTask, SendSetKey, SetKeyFails, SetKeyDone, KeyAdded,
                EndSetKeyTask
  <2> QED BY <1>1, <2>1
<1>5. CASE AccessPoint
  BY <1>5, ApSentOK DEF AccessPoint
<1>6. CASE Transmit
  <2>1. up # <<>> /\ (UNCHANGED <<ap, down>> \/ \E key : ApReceives(Head(up), key))
    BY <1>6, Zenon DEF Transmit
  <2> QED BY <1>1, <2>1, FrameTypes, ApReceivedOK
<1>7. CASE Receive
  BY <1>2, <1>7 DEF Receive
<1>8. CASE Lose
  BY <1>2, <1>8 DEF Lose
<1>9. CASE JoinBss \/ Stop \/ Start
  <2>1. UNCHANGED <<ap, down>>
    BY <1>9 DEF JoinBss, Stop, Start
  <2> QED BY <1>1, <2>1
<1>10. CASE RecvAuth
  <2>1. ap \in ApStates /\ down \in Seq(DownFrames)
    BY DEF TypeInv, ApOK
  <2>2. ap' = [ap EXCEPT !.phase = "off", !.key = NoKey] /\ down' = down
    BY <1>10 DEF RecvAuth
  <2>3. ap' \in ApStates /\ ap'.phase = "off"
    <3>1. NoKey \in KeyOrNone
      BY DEF KeyOrNone
    <3> QED BY <2>1, <2>2, <3>1 DEF ApStates
  <2> QED BY <2>1, <2>2, <2>3 DEF ApOK, Counted
<1>11. CASE RecvAssocResp
  <2> DEFINE a == [ap EXCEPT !.round = @ + 1, !.ptk = <<ap.round + 1, 0>>, !.replay = 0,
                             !.tries = 0, !.key = NoKey]
  <2>1. ap.round < MaxRounds /\ ApSends(a, "msg1")
    BY <1>11 DEF RecvAssocResp
  <2>2. ap \in ApStates /\ down \in Seq(DownFrames) /\ ap.round \in 0..MaxRounds /\ ap.gtk \in 1..MaxGtk
    BY DEF TypeInv, ApOK, ApStates, Gtks
  <2>3. ap.round + 1 \in 1..MaxRounds /\ ap.round + 1 \in 0..MaxRounds /\ 0 \in 0..MaxTx
        /\ 0 < MaxTx /\ 0 \in 0..MaxReplay /\ 0 \in Nat /\ NoKey \in KeyOrNone
    BY <2>1, <2>2, BoundSteps
  <2>4. a \in ApStates /\ a.round = ap.round + 1 /\ a.gtk = ap.gtk /\ a.replay = 0
        /\ a.tries = 0 /\ a.ptk = <<ap.round + 1, 0>>
    BY <2>2, <2>3 DEF ApStates
  <2> HIDE DEF a
  <2>5. Counted(a, "msg1", a.tries)
    <3>1. ap.round + 1 \in Nat /\ ap.gtk \in Nat /\ ap.gtk > 0 /\ ap.round + 1 > 0
      BY <2>1, <2>2, BoundSteps
    <3>2. Sends(2 * (ap.round + 1) + ap.gtk - 3) \in Nat
      BY <3>1, SendsSteps
    <3>3. 0 <= Sends(2 * (ap.round + 1) + ap.gtk - 3) + 0
      BY <3>2
    <3>4. ap.round + 1 > 0
      BY <3>1
    <3> QED BY <2>4, <3>3, <3>4 DEF Counted
  <2>6. a.ptk \in (1..MaxRounds) \X (0..MaxReplay)
    BY <2>3, <2>4
  <2> QED BY <2>1, <2>2, <2>3, <2>4, <2>5, <2>6, ApSendsType
<1> QED BY <1>3, <1>4, <1>5, <1>6, <1>7, <1>8, <1>9, <1>10, <1>11 DEF Next

LEMMA InstallType ==
  ASSUME TypeInv, ring # <<>>, Install(Head(ring))
  PROVE  /\ hwPair' \in KeyOrNone /\ hwGroup' \in [Kids -> Gtks \cup {NoKey}]
         /\ given' \subseteq Ptks
<1>1. /\ Head(ring) \in Requests
  BY RingHead DEF TypeInv, QueuesOK
<1>2. /\ pairKey \in KeyOrNone /\ hwPair \in KeyOrNone /\ given \subseteq Ptks
      /\ nwKeys \in [Kids -> Gtks \cup {NoKey}] /\ hwGroup \in [Kids -> Gtks \cup {NoKey}]
  BY DEF TypeInv, StationOK
<1>3. CASE IsGroup(Head(ring))
  <2>1. Head(ring) \in Kids
    BY <1>1, <1>3 DEF IsGroup, Requests
  <2>2. hwGroup' = [hwGroup EXCEPT ![Head(ring)] = nwKeys[Head(ring)]] /\ UNCHANGED <<hwPair, given>>
    BY <1>3 DEF Install
  <2> QED BY <1>2, <2>1, <2>2
<1>4. CASE ~IsGroup(Head(ring))
  BY <1>2, <1>4 DEF Install, KeyOrNone
<1> QED BY <1>3, <1>4

LEMMA ClearedType ==
  ASSUME TypeInv, ClearGroupKeys
  PROVE  /\ nwKeys' \in [Kids -> Gtks \cup {NoKey}] /\ hwGroup' \in [Kids -> Gtks \cup {NoKey}]
         /\ have' \subseteq {"pairwise", "group"}
<1>1. NoGroupKeys \in [Kids -> Gtks \cup {NoKey}]
  BY DEF NoGroupKeys
<1> QED BY <1>1 DEF ClearGroupKeys, TypeInv, StationOK

LEMMA StationType ==
  ASSUME TypeInv, [Next]_vars
  PROVE  StationOK'
<1> DEFINE States == {"INIT", "SCAN", "AUTH", "ASSOC", "RUN"}
<1>0. StationOK
  BY DEF TypeInv
<1>1. CASE UNCHANGED vars
  BY <1>0, <1>1 DEF StationOK, vars, worker, rsn, prot, port, keys, firmware, history
<1>2. CASE NewStateTask
  <2>1. CASE nsState \in {"INIT", "SCAN", "AUTH"}
    <3>1. ClearGroupKeys /\ supp' = "INITIALIZE"
      BY <1>2, <2>1 DEF NewStateTask, NewState
    <3> QED BY <1>0, <1>2, <3>1, ClearedType DEF NewStateTask, NewState, StationOK, prot, history
  <2>2. CASE nsState \notin {"INIT", "SCAN", "AUTH"}
    BY <1>0, <1>2, <2>2 DEF NewStateTask, NewState, StationOK, prot, history
  <2> QED BY <2>1, <2>2
<1>3. CASE BeginSetKeyTask
  BY <1>0, <1>3 DEF BeginSetKeyTask, StationOK, rsn, prot, port, keys, firmware, history
<1>4. CASE SendSetKey
  BY <1>0, <1>4, InstallType DEF SendSetKey, StationOK, worker, rsn, prot, port, keys, history
<1>5. CASE SetKeyFails
  <2>1. hwPair' \in KeyOrNone /\ hwGroup' \in [Kids -> Gtks \cup {NoKey}] /\ given' \subseteq Ptks
    <3>1. CASE Install(Head(ring))
      BY <1>5, <3>1, InstallType DEF SetKeyFails
    <3>2. CASE UNCHANGED <<hwPair, hwGroup, given>>
      BY <1>0, <3>2 DEF StationOK
    <3> QED BY <1>5, <3>1, <3>2 DEF SetKeyFails
  <2> QED BY <1>0, <1>5, <2>1 DEF SetKeyFails, StationOK, worker, rsn, prot, port
<1>6. CASE SetKeyDone
  <2>1. have' = have \cup {Added} /\ Added \in {"pairwise", "group"}
    BY <1>6 DEF SetKeyDone, KeyAdded, Added
  <2>2. portValid' \in BOOLEAN /\ linkUp' \in BOOLEAN
    BY <1>6 DEF SetKeyDone, KeyAdded
  <2> QED BY <1>0, <1>6, <2>1, <2>2 DEF SetKeyDone, KeyAdded, StationOK, worker, rsn, prot, history
<1>7. CASE EndSetKeyTask
  <2>1. /\ task' = "idle" /\ stopped' = FALSE
        /\ UNCHANGED <<icState, nsState, supp, newPtk, replay, anonce, snonce, ptk, txProt, rxProt,
                       portValid, linkUp, pairKey, nwKeys, have, hwPair, hwGroup, given, failed>>
    BY <1>7 DEF EndSetKeyTask, worker, rsn, prot, port, keys, firmware
  <2>2. task' \in {"idle", "setkey", "wait"} /\ stopped' \in BOOLEAN
    BY <2>1
  <2> QED BY <1>0, <2>1, <2>2 DEF StationOK
<1>8. CASE AccessPoint
  BY <1>0, <1>8 DEF AccessPoint, ApTimeout, ApDeauths, ApRekeys, StationOK, worker, rsn, prot, port,
                    keys, firmware, history
<1>9. CASE Transmit
  BY <1>0, <1>9 DEF Transmit, StationOK, worker, rsn, prot, port, keys, firmware, history
<1>10. CASE Receive
  <2> DEFINE f == Head(down)
  <2>1. f \in DownFrames /\ UNCHANGED <<task, firmware, ap>>
    BY <1>10, FrameTypes DEF Receive
  <2>2. \/ RecvMsg1(f) \/ RecvMsg3(f) \/ RecvGroupMsg1(f) \/ RecvDeauth(f) \/ Refuse(f)
    BY <1>10 DEF Receive
  <2> HIDE DEF f
  <2>3. CASE RecvMsg1(f)
    <3>1. f.ptk \in (1..MaxRounds) \X (0..MaxReplay) /\ f.replay \in 0..MaxReplay
      BY <2>1, <2>3 DEF DownFrames, RecvMsg1, TakesMsg1
    <3>2. f.ptk[1] \in 0..MaxRounds
      BY <3>1, BoundSteps
    <3> QED BY <1>0, <2>1, <2>3, <3>1, <3>2
            DEF RecvMsg1, StationOK, worker, prot, port, keys, firmware, history
  <2>4. CASE RecvMsg3(f)
    <3>1. HandleMsg3(f, newPtk, TRUE)
      BY <2>4 DEF RecvMsg3
    <3>2. /\ TakesMsg3(f) /\ ptk' = f.ptk /\ replay' = f.replay /\ supp' = "PTKDONE"
          /\ UNCHANGED <<icState, anonce, snonce, history>>
          /\ \/ UNCHANGED <<up, newPtk, prot, port, keys, worker>>
             \/ \E t \in Seq(Requests) : Msg3Keys(f, t)
      BY <2>1, <3>1, Msg3Effect
    <3>3. f.ptk \in Ptks /\ f.gtk \in Gtks /\ f.replay \in 0..MaxReplay /\ f.ptk \in KeyOrNone
      BY <2>1, <3>2 DEF DownFrames, TakesMsg3, KeyOrNone
    <3>4. CASE UNCHANGED <<up, newPtk, prot, port, keys, worker>>
      BY <1>0, <2>1, <3>2, <3>3, <3>4 DEF StationOK, worker, prot, port, keys, firmware, history
    <3>5. ASSUME NEW t \in Seq(Requests), Msg3Keys(f, t)
          PROVE  StationOK'
      <4>1. pairKey' \in KeyOrNone /\ nwKeys' \in [Kids -> Gtks \cup {NoKey}]
        BY <1>0, <3>3, <3>5, KidType DEF Msg3Keys, StationOK
      <4>2. /\ newPtk' \in BOOLEAN /\ rxProt' \in BOOLEAN /\ txProt' \in BOOLEAN
            /\ portValid' \in BOOLEAN /\ linkUp' \in BOOLEAN /\ nsState' \in States
        BY <1>0, <3>5 DEF Msg3Keys, StationOK, port
      <4> QED BY <1>0, <2>1, <3>2, <3>3, <4>1, <4>2 DEF StationOK, firmware, history
    <3> QED BY <3>2, <3>4, <3>5
  <2>5. CASE RecvGroupMsg1(f)
    <3>1. /\ TakesGroupMsg1(f)
          /\ UNCHANGED <<icState, supp, newPtk, anonce, snonce, ptk, prot, pairKey, history>>
          /\ \E t \in Seq(Requests) : GroupKeys(f, t)
      BY <2>1, <2>5, GroupEffect
    <3>2. f.gtk \in Gtks /\ f.replay \in 0..MaxReplay
      BY <2>1, <3>1 DEF DownFrames, TakesGroupMsg1
    <3>3. /\ nwKeys' \in [Kids -> Gtks \cup {NoKey}] /\ replay' \in 0..MaxReplay
          /\ portValid' \in BOOLEAN /\ linkUp' \in BOOLEAN /\ nsState' \in States
      BY <1>0, <3>1, <3>2, KidType DEF GroupKeys, StationOK, port
    <3> QED BY <1>0, <2>1, <3>1, <3>3 DEF StationOK, firmware, history, prot
  <2>6. CASE RecvDeauth(f)
    <3>1. nsState' \in States
      BY <1>0, <2>6 DEF RecvDeauth, Request, StationOK, worker
    <3> QED BY <1>0, <2>1, <2>6, <3>1 DEF RecvDeauth, StationOK, rsn, prot, port, keys, firmware, history
  <2>7. CASE Refuse(f)
    BY <1>0, <2>1, <2>7 DEF Refuse, StationOK, worker, rsn, prot, port, keys, firmware, history
  <2> QED BY <2>2, <2>3, <2>4, <2>5, <2>6, <2>7
<1>11. CASE Lose
  BY <1>0, <1>11 DEF Lose, StationOK, worker, rsn, prot, port, keys, firmware, history
<1>12. CASE RecvAuth
  <2>1. nsState' \in States /\ NoKey \in KeyOrNone /\ 0 \in 0..MaxReplay
    BY <1>0, <1>12, BoundSteps DEF RecvAuth, Request, StationOK, worker
  <2>2. have' \subseteq {"pairwise", "group"}
    BY <1>0, <1>12 DEF RecvAuth, StationOK
  <2> QED BY <1>0, <1>12, <2>1, <2>2 DEF RecvAuth, StationOK, keys
<1>13. CASE RecvAssocResp
  <2>1. nsState' \in States
    BY <1>0, <1>13 DEF RecvAssocResp, Request, StationOK, worker
  <2> QED BY <1>0, <1>13, <2>1 DEF RecvAssocResp, StationOK, prot, port, keys, firmware, history
<1>14. CASE JoinBss
  <2>1. nsState' \in States /\ NoKey \in KeyOrNone /\ 0 \in 0..MaxReplay
    BY <1>0, <1>14, BoundSteps DEF JoinBss, Request, StationOK, worker
  <2> QED BY <1>0, <1>14, <2>1 DEF JoinBss, StationOK, firmware, history
<1>15. CASE Stop
  <2>1. ClearGroupKeys /\ supp' = "INITIALIZE" /\ icState' = "INIT" /\ linkUp' = FALSE
    BY <1>15 DEF Stop, NewState
  <2> QED BY <1>0, <1>15, <2>1, ClearedType DEF Stop, StationOK, prot
<1>16. CASE Start
  <2>1. nsState' \in States
    BY <1>0, <1>16 DEF Start, Request, StationOK, worker
  <2> QED BY <1>0, <1>16, <2>1 DEF Start, StationOK, rsn, prot, port, keys, firmware, history
<1> QED BY <1>1, <1>2, <1>3, <1>4, <1>5, <1>6, <1>7, <1>8, <1>9, <1>10, <1>11, <1>12, <1>13, <1>14,
           <1>15, <1>16 DEF Next, Worker

LEMMA AnswerType ==
  ASSUME TypeInv, NEW f \in DownFrames, f.replay > 0, NEW msg \in {"msg2", "msg4", "gmsg2"},
         NEW p \in Ptks, Answer(msg, f, p)
  PROVE  up' \in Seq(UpFrames)
<1>1. f.replay \in 1..MaxReplay
  <2>1. f.replay \in 0..MaxReplay
    BY DEF DownFrames
  <2>2. \A x \in Nat : \A r \in 0..x : r > 0 => r \in 1..x
    OBVIOUS
  <2> QED BY <2>1, <2>2, SendsValue
<1> DEFINE u == [msg |-> msg, replay |-> f.replay, ptk |-> p,
                 prot |-> CASE icState # "RUN" -> "wait"
                            [] txProt -> "yes"
                            [] OTHER -> "no"]
<1>2. (CASE icState # "RUN" -> "wait" [] txProt -> "yes" [] OTHER -> "no") \in {"yes", "no", "wait"}
  OBVIOUS
<1>3. u \in UpFrames
  BY <1>1, <1>2 DEF UpFrames
<1>4. up' = Append(up, u) /\ up \in Seq(UpFrames)
  BY DEF Answer, TypeInv, QueuesOK
<1> HIDE DEF u
<1> QED BY <1>3, <1>4, AppendProperties

LEMMA RequestType ==
  ASSUME TypeInv, NEW s, Request(s)
  PROVE  /\ nsq' \in Queues /\ nsState' = s
         /\ HasSetKey(nsq') <=> HasSetKey(nsq)
         /\ SetKeyFirst(nsq) => SetKeyFirst(nsq')
BY QueuedValue DEF Request, TypeInv, QueuesOK, worker

LEMMA QueuesType ==
  ASSUME TypeInv, [Next]_vars
  PROVE  QueuesOK'
<1>0. QueuesOK /\ (ring # <<>> => Tail(ring) \in Seq(Requests) /\ Len(Tail(ring)) < RingSize)
  <2>1. QueuesOK
    BY DEF TypeInv
  <2>2. ASSUME ring # <<>> PROVE Tail(ring) \in Seq(Requests) /\ Len(Tail(ring)) < RingSize
    <3>1. Tail(ring) \in Seq(Requests) /\ Len(Tail(ring)) = Len(ring) - 1 /\ Len(ring) \in Nat
          /\ Len(ring) < RingSize
      BY <2>1, <2>2, RingHead DEF QueuesOK
    <3>2. \A l, r \in Nat : l < r => l - 1 < r
      OBVIOUS
    <3> QED BY <3>1, <3>2, BoundTypes
  <2> QED BY <2>1, <2>2
<1>1. CASE UNCHANGED vars
  BY <1>0, <1>1 DEF QueuesOK, vars, worker, keys
<1>2. CASE NewStateTask
  <2>1. nsq' \in Queues
    BY <1>0, <1>2, QueueHead DEF NewStateTask, QueuesOK
  <2>2. up' \in Seq(UpFrames)
    <3>1. CASE nsState # "RUN"
      BY <1>0, <1>2, <3>1 DEF NewStateTask, QueuesOK
    <3>2. CASE nsState = "RUN"
      <4> DEFINE g(i) == IF up[i].prot # "wait" THEN up[i]
                         ELSE [up[i] EXCEPT !.prot = IF txProt THEN "yes" ELSE "no"]
      <4>1. up' = [i \in 1..Len(up) |-> g(i)] /\ Len(up) \in Nat
        BY <1>0, <1>2, <3>2, LenProperties DEF NewStateTask, QueuesOK
      <4>2. \A i \in 1..Len(up) : g(i) \in UpFrames
        <5> TAKE i \in 1..Len(up)
        <5>1. up[i] \in UpFrames
          BY <1>0, ElementOfSeq DEF QueuesOK
        <5> QED BY <5>1 DEF UpFrames
      <4> HIDE DEF g
      <4>3. [i \in 1..Len(up) |-> g(i)] \in Seq(UpFrames)
        BY <4>1, <4>2, IsASeq
      <4> QED BY <4>1, <4>3
    <3> QED BY <3>1, <3>2
  <2> QED BY <1>0, <1>2, <2>1, <2>2 DEF NewStateTask, QueuesOK
<1>3. CASE BeginSetKeyTask
  <2>1. nsq' \in Queues
    BY <1>0, <1>3, QueueHead DEF BeginSetKeyTask, QueuesOK
  <2> QED BY <1>0, <1>3, <2>1 DEF BeginSetKeyTask, QueuesOK, keys
<1>4. CASE SendSetKey
  BY <1>0, <1>4 DEF SendSetKey, QueuesOK, worker, keys
<1>5. CASE SetKeyFails
  BY <1>0, <1>5 DEF SetKeyFails, QueuesOK, worker
<1>6. CASE SetKeyDone
  BY <1>0, <1>6 DEF SetKeyDone, KeyAdded, QueuesOK, worker
<1>7. CASE EndSetKeyTask
  BY <1>0, <1>7 DEF EndSetKeyTask, QueuesOK, worker, keys
<1>8. CASE AccessPoint
  BY <1>0, <1>8 DEF AccessPoint, ApTimeout, ApDeauths, ApRekeys, QueuesOK, worker, keys
<1>9. CASE Transmit
  <2>1. up' \in Seq(UpFrames)
    BY <1>9, FrameTypes DEF Transmit
  <2> QED BY <1>0, <1>9, <2>1 DEF Transmit, QueuesOK, worker, keys
<1>10. CASE Receive
  <2> DEFINE f == Head(down)
  <2>1. f \in DownFrames /\ UNCHANGED task
    BY <1>10, FrameTypes DEF Receive
  <2>2. \/ RecvMsg1(f) \/ RecvMsg3(f) \/ RecvGroupMsg1(f) \/ RecvDeauth(f) \/ Refuse(f)
    BY <1>10 DEF Receive
  <2> HIDE DEF f
  <2>3. CASE RecvMsg1(f)
    <3>1. f.ptk \in (1..MaxRounds) \X (0..MaxReplay) /\ f.replay \in 0..MaxReplay /\ f.replay > 0
      BY <2>1, <2>3 DEF DownFrames, RecvMsg1, TakesMsg1
    <3>2. <<f.ptk[1], f.replay>> \in Ptks
      <4>1. \A x \in Nat : \A r \in 0..x : r > 0 => r \in 1..x
        OBVIOUS
      <4>2. f.replay \in 1..MaxReplay
        BY <3>1, <4>1, SendsValue
      <4> QED BY <3>1, <4>2 DEF Ptks
    <3>3. up' \in Seq(UpFrames)
      <4>1. UNCHANGED up \/ Answer("msg2", f, <<f.ptk[1], f.replay>>)
        BY <2>3 DEF RecvMsg1
      <4> QED BY <1>0, <2>1, <3>1, <3>2, <4>1, AnswerType DEF QueuesOK
    <3> QED BY <1>0, <2>1, <2>3, <3>3 DEF RecvMsg1, QueuesOK, worker, keys
  <2>4. CASE RecvMsg3(f)
    <3>1. HandleMsg3(f, newPtk, TRUE)
      BY <2>4 DEF RecvMsg3
    <3>2. /\ TakesMsg3(f)
          /\ \/ UNCHANGED <<up, newPtk, prot, port, keys, worker>>
             \/ \E t \in Seq(Requests) : Msg3Keys(f, t)
      BY <2>1, <3>1, Msg3Effect
    <3>3. f.ptk \in Ptks /\ f.replay > 0
      BY <2>1, <3>2 DEF DownFrames, TakesMsg3
    <3>4. CASE UNCHANGED <<up, newPtk, prot, port, keys, worker>>
      BY <1>0, <2>1, <3>4 DEF QueuesOK, worker, keys
    <3>5. ASSUME NEW t \in Seq(Requests), Msg3Keys(f, t)
          PROVE  QueuesOK'
      <4>1. Answer("msg4", f, f.ptk) /\ ring' = ring \o t /\ Len(ring) + Len(t) < RingSize /\ nsq' \in Queues
        BY <3>5 DEF Msg3Keys
      <4>2. up' \in Seq(UpFrames)
        BY <2>1, <3>3, <4>1, AnswerType
      <4>3. ring' \in Seq(Requests) /\ Len(ring') < RingSize /\ (ring # <<>> => ring' # <<>>)
        <5>1. ring \o t \in Seq(Requests) /\ Len(ring \o t) = Len(ring) + Len(t)
              /\ Len(ring) \in Nat /\ Len(t) \in Nat
          BY <1>0, RingExtend DEF QueuesOK
        <5>2. ring # <<>> => Len(ring) > 0
          BY <1>0, RingHead DEF QueuesOK
        <5>3. ring # <<>> => Len(ring \o t) # 0
          BY <5>1, <5>2
        <5>4. ring # <<>> => ring \o t # <<>>
          BY <5>3
        <5> QED BY <4>1, <5>1, <5>4
      <4> QED BY <1>0, <2>1, <4>1, <4>2, <4>3 DEF QueuesOK
    <3> QED BY <3>2, <3>4, <3>5
  <2>5. CASE RecvGroupMsg1(f)
    <3>1. /\ TakesGroupMsg1(f)
          /\ \E t \in Seq(Requests) : GroupKeys(f, t)
      BY <2>1, <2>5, GroupEffect
    <3>2. f.ptk \in Ptks /\ f.replay > 0 /\ f.ptk = ptk
      BY <2>1, <3>1 DEF DownFrames, TakesGroupMsg1
    <3>3. PICK t \in Seq(Requests) : GroupKeys(f, t)
      BY <3>1
    <3>4. /\ UNCHANGED up \/ Answer("gmsg2", f, ptk)
          /\ ring' = ring \o t /\ Len(ring) + Len(t) < RingSize /\ nsq' \in Queues
      BY <3>3 DEF GroupKeys
    <3>5. up' \in Seq(UpFrames)
      BY <1>0, <2>1, <3>2, <3>4, AnswerType DEF QueuesOK
    <3>6. ring' \in Seq(Requests) /\ Len(ring') < RingSize /\ (ring # <<>> => ring' # <<>>)
      <4>1. ring \o t \in Seq(Requests) /\ Len(ring \o t) = Len(ring) + Len(t)
            /\ Len(ring) \in Nat /\ Len(t) \in Nat
        BY <1>0, RingExtend DEF QueuesOK
      <4>2. ring # <<>> => Len(ring) > 0
        BY <1>0, RingHead DEF QueuesOK
      <4>3. ring # <<>> => Len(ring \o t) # 0
        BY <4>1, <4>2
      <4>4. ring # <<>> => ring \o t # <<>>
        BY <4>3
      <4> QED BY <3>4, <4>1, <4>4
    <3> QED BY <1>0, <2>1, <3>4, <3>5, <3>6 DEF QueuesOK
  <2>6. CASE RecvDeauth(f)
    <3>1. nsq' \in Queues
      BY <2>6, RequestType DEF RecvDeauth
    <3> QED BY <1>0, <2>1, <2>6, <3>1 DEF RecvDeauth, QueuesOK, keys
  <2>7. CASE Refuse(f)
    BY <1>0, <2>1, <2>7 DEF Refuse, QueuesOK, worker, keys
  <2> QED BY <2>2, <2>3, <2>4, <2>5, <2>6, <2>7
<1>11. CASE Lose
  BY <1>0, <1>11 DEF Lose, QueuesOK, worker, keys
<1>12. CASE RecvAuth \/ RecvAssocResp \/ JoinBss \/ Start
  <2>1. nsq' \in Queues
    BY <1>12, RequestType DEF RecvAuth, RecvAssocResp, JoinBss, Start
  <2> QED BY <1>0, <1>12, <2>1 DEF RecvAuth, RecvAssocResp, JoinBss, Start, QueuesOK, keys
<1>15. CASE Stop
  BY <1>0, <1>15 DEF Stop, QueuesOK, Queues
<1> QED BY <1>1, <1>2, <1>3, <1>4, <1>5, <1>6, <1>7, <1>8, <1>9, <1>10, <1>11, <1>12,
           <1>15 DEF Next, Worker

LEMMA TypeInit == Init => TypeInv
<1> SUFFICES ASSUME Init PROVE TypeInv
  OBVIOUS
<1>1. StationOK
  <2>1. NoGroupKeys \in [Kids -> Gtks \cup {NoKey}] /\ 0 \in 0..MaxReplay /\ 0 \in 0..MaxRounds
    BY BoundSteps, BoundTypes DEF NoGroupKeys
  <2> QED BY <2>1 DEF Init, StationOK, KeyOrNone
<1>2. QueuesOK
  <2>1. <<>> \in Seq(Requests) /\ Len(<<>>) < RingSize /\ <<>> \in Queues /\ <<>> \in Seq(UpFrames)
    BY BoundTypes, EmptySeq DEF Queues
  <2> QED BY <2>1 DEF Init, QueuesOK
<1>3. ApOK
  <2>1. 0 \in 0..MaxRounds /\ 0 \in 0..MaxTx /\ 0 \in 0..MaxReplay /\ 1 \in Gtks /\ NoKey \in KeyOrNone
    BY BoundSteps, BoundTypes DEF Gtks
  <2>2. ap \in ApStates /\ ap.phase = "off"
    BY <2>1 DEF Init, ApStates
  <2>3. down \in Seq(DownFrames)
    BY EmptySeq DEF Init
  <2> QED BY <2>2, <2>3 DEF ApOK, Counted
<1> QED BY <1>1, <1>2, <1>3 DEF TypeInv

LEMMA TypeStep == TypeInv /\ [Next]_vars => TypeInv'
BY StationType, QueuesType, ApType DEF TypeInv

LEMMA TypeOfInv == TypeInv => TypeOK
<1> SUFFICES ASSUME TypeInv PROVE TypeOK
  OBVIOUS
<1>1. IsInjective(nsq) /\ Range(nsq) \subseteq {"newstate", "setkey"}
  BY QueueType DEF TypeInv, QueuesOK
<1>2. Range(ring) \subseteq Requests /\ Range(up) \subseteq UpFrames
  <2>1. ring \in [1..Len(ring) -> Requests] /\ DOMAIN ring = 1..Len(ring)
    BY LenProperties DEF TypeInv, QueuesOK
  <2>2. up \in [1..Len(up) -> UpFrames] /\ DOMAIN up = 1..Len(up)
    BY LenProperties DEF TypeInv, QueuesOK
  <2> QED BY <2>1, <2>2 DEF Range
<1>3. Len(ring) < RingSize
  BY DEF TypeInv, QueuesOK
<1> QED BY <1>1, <1>2, <1>3 DEF TypeInv, StationOK, TypeOK, Requests, KeyOrNone

\* The program never leaves its types.
THEOREM KeysTypeCorrect == Spec => []TypeOK
<1>1. Spec => []TypeInv
  BY TypeInit, TypeStep, PTL DEF Spec
<1> QED BY <1>1, TypeOfInv, PTL

----------------------------------------------------------------------------
\* The access point

LEMMA AppendAny ==
  ASSUME NEW S, NEW q \in Seq(S), NEW g
  PROVE  /\ Len(q) \in Nat /\ Len(Append(q, g)) = Len(q) + 1
         /\ \A i \in 1..Len(q) : Append(q, g)[i] = q[i]
         /\ Append(q, g)[Len(q) + 1] = g
<1>1. Len(q) \in Nat /\ q \in [1..Len(q) -> S]
  BY LenProperties
<1>2. q \in Seq(S \cup {g}) /\ g \in S \cup {g}
  BY <1>1
<1> QED BY <1>1, <1>2, AppendProperties

\* What a step of the access point leaves alone.
station == <<icState, worker, task, rsn, prot, port, keys, firmware, history>>

\* The steps of the access point.
SameRound == ap'.round = ap.round /\ ap'.ptk = ap.ptk /\ ap'.key = ap.key

\* A frame of message msg is sent, encrypted with key.
Sent(msg, p, key) ==
  \E g \in DownFrames : g.msg = msg /\ g.ptk = p /\ g.key = key /\ down' = Append(down, g)

Resends == ap.phase \in {"msg1", "msg3", "group"} /\ ap'.phase = ap.phase /\ SameRound
             /\ Sent(ap.phase, ap.ptk, ap.key)
Leaves == ap'.phase = "off" /\ ap'.key = NoKey /\ ap'.round = ap.round /\ ap'.ptk = ap.ptk
            /\ Sent("deauth", NoKey, NoKey)
SendsGroupKey == ap.phase = "done" /\ ap'.phase = "group" /\ SameRound /\ Sent("group", ap.ptk, ap.key)
Rekeys == ap.phase = "done" /\ ap'.phase = "msg1" /\ ap'.round = ap.round + 1 /\ ap'.key = ap.key
            /\ ap'.ptk = <<ap.round + 1, 0>> /\ Sent("msg1", <<ap.round + 1, 0>>, ap.key)
TakesMsg2 == /\ ap.phase = "msg1" /\ up # <<>> /\ Head(up).msg = "msg2" /\ Head(up).ptk[1] = ap.round
             /\ ap'.phase = "msg3" /\ ap'.round = ap.round /\ ap'.key = ap.key
             /\ ap'.ptk = Head(up).ptk /\ Sent("msg3", Head(up).ptk, ap.key)
TakesMsg4 == ap.phase = "msg3" /\ ap'.phase = "done" /\ ap'.round = ap.round /\ ap'.ptk = ap.ptk
               /\ ap'.key = ap.ptk /\ UNCHANGED down
TakesGroupMsg2 == ap.phase = "group" /\ ap'.phase = "done" /\ SameRound /\ UNCHANGED down

ApMove == \/ UNCHANGED <<ap, down>> \/ Resends \/ Leaves \/ SendsGroupKey \/ Rekeys
          \/ TakesMsg2 \/ TakesMsg4 \/ TakesGroupMsg2

LEMMA SentFrame ==
  ASSUME TypeInv, NEW a \in ApStates, NEW m \in {"msg1", "msg3", "group"}, ApSends(a, m), ApOK'
  PROVE  /\ ap'.phase = m /\ ap'.round = a.round /\ ap'.ptk = a.ptk /\ ap'.key = a.key
         /\ Sent(m, a.ptk, a.key)
<1> DEFINE g == Frame(m, a.replay + 1, a.ptk, a.gtk, a.key)
<1>1. /\ ap'.phase = m /\ ap'.round = a.round /\ ap'.ptk = a.ptk /\ ap'.key = a.key
      /\ down' = Append(down, g)
  BY DEF ApSends, ApStates
<1>2. g.msg = m /\ g.ptk = a.ptk /\ g.key = a.key
  BY DEF Frame
<1> HIDE DEF g
<1>3. g \in DownFrames
  <2>1. down \in Seq(DownFrames) /\ down' \in Seq(DownFrames)
    BY DEF TypeInv, ApOK
  <2>2. Len(down) \in Nat /\ Len(down') = Len(down) + 1 /\ down'[Len(down) + 1] = g
    BY <1>1, <2>1, AppendAny
  <2>3. Len(down) + 1 \in 1..Len(down')
    BY <2>2
  <2> QED BY <2>1, <2>2, <2>3, ElementOfSeq
<1> QED BY <1>1, <1>2, <1>3 DEF Sent

LEMMA DeauthFrame ==
  ASSUME TypeInv, ap' = [ap EXCEPT !.phase = "off", !.key = NoKey],
         down' = Append(down, Frame("deauth", 0, NoKey, 0, NoKey))
  PROVE  Leaves
<1>1. Frame("deauth", 0, NoKey, 0, NoKey) \in DownFrames
  BY FrameTypes
<1>2. ap'.phase = "off" /\ ap'.key = NoKey /\ ap'.round = ap.round /\ ap'.ptk = ap.ptk
  BY DEF TypeInv, ApOK, ApStates
<1> QED BY <1>1, <1>2 DEF Leaves, Sent, Frame

LEMMA ApMoves ==
  ASSUME TypeInv, AccessPoint \/ Transmit
  PROVE  /\ UNCHANGED station
         /\ UNCHANGED up \/ (up # <<>> /\ up' = Tail(up))
         /\ ApMove
<1>0. ApOK' /\ ap \in ApStates
  BY ApType DEF Next, TypeInv, ApOK
<1>1. UNCHANGED station
  BY DEF AccessPoint, ApTimeout, ApDeauths, ApRekeys, Transmit, station
<1>2. UNCHANGED up \/ (up # <<>> /\ up' = Tail(up))
  BY DEF AccessPoint, ApTimeout, ApDeauths, ApRekeys, Transmit
<1>3. CASE ApTimeout
  <2>1. CASE ap.tries < MaxTx
    <3>1. ApSends(ap, ap.phase) /\ ap.phase \in {"msg1", "msg3", "group"}
      BY <1>3, <2>1 DEF ApTimeout
    <3>2. Resends
      BY <1>0, <3>1, SentFrame DEF Resends, SameRound
    <3> QED BY <1>1, <1>2, <3>2 DEF ApMove
  <2>2. CASE ~(ap.tries < MaxTx)
    <3>1. Leaves
      BY <1>3, <2>2, DeauthFrame DEF ApTimeout
    <3> QED BY <1>1, <1>2, <3>1 DEF ApMove
  <2> QED BY <2>1, <2>2
<1>4. CASE ApDeauths
  BY <1>1, <1>2, <1>4, DeauthFrame DEF ApDeauths, ApMove
<1>5. CASE ApRekeys
  <2>1. ap.phase = "done"
    BY <1>5 DEF ApRekeys
  <2>2. CASE ap.gtk < MaxGtk /\ ApSends([ap EXCEPT !.gtk = @ + 1, !.tries = 0], "group")
    <3> DEFINE a == [ap EXCEPT !.gtk = @ + 1, !.tries = 0]
    <3>1. a \in ApStates /\ a.round = ap.round /\ a.ptk = ap.ptk /\ a.key = ap.key
      <4>1. ap.gtk \in 1..MaxGtk
        BY <1>0 DEF ApStates, Gtks
      <4>2. ap.gtk + 1 \in Gtks /\ 0 \in 0..MaxTx
        BY <2>2, <4>1, BoundSteps DEF Gtks
      <4> QED BY <1>0, <4>2 DEF ApStates
    <3>2. ApSends(a, "group")
      BY <2>2
    <3> HIDE DEF a
    <3>3. SendsGroupKey
      BY <1>0, <2>1, <3>1, <3>2, SentFrame DEF SendsGroupKey, SameRound
    <3> QED BY <1>1, <1>2, <3>3 DEF ApMove
  <2>3. CASE /\ ap.round < MaxRounds
             /\ ApSends([ap EXCEPT !.round = @ + 1, !.tries = 0, !.ptk = <<ap.round + 1, 0>>], "msg1")
    <3> DEFINE a == [ap EXCEPT !.round = @ + 1, !.tries = 0, !.ptk = <<ap.round + 1, 0>>]
    <3>1. a \in ApStates /\ a.round = ap.round + 1 /\ a.ptk = <<ap.round + 1, 0>> /\ a.key = ap.key
      <4>1. ap.round \in 0..MaxRounds
        BY <1>0 DEF ApStates
      <4>2. ap.round + 1 \in 0..MaxRounds /\ 0 \in 0..MaxTx /\ 0 \in 0..MaxReplay
        BY <2>3, <4>1, BoundSteps
      <4> QED BY <1>0, <4>2 DEF ApStates
    <3>2. ApSends(a, "msg1")
      BY <2>3
    <3> HIDE DEF a
    <3>3. Rekeys
      BY <1>0, <2>1, <3>1, <3>2, SentFrame DEF Rekeys
    <3> QED BY <1>1, <1>2, <3>3 DEF ApMove
  <2> QED BY <1>5, <2>2, <2>3 DEF ApRekeys
<1>6. CASE Transmit
  <2>1. up # <<>> /\ (UNCHANGED <<ap, down>> \/ \E key : ApReceives(Head(up), key))
    BY <1>6, Zenon DEF Transmit
  <2>2. ASSUME NEW key, ApReceives(Head(up), key)
        PROVE  ApMove
    <3> DEFINE f == Head(up)
    <3>1. f \in UpFrames
      BY <2>1, FrameTypes
    <3>2. \/ UNCHANGED <<ap, down>>
          \/ /\ f.msg = "msg2" /\ ap.phase = "msg1" /\ f.ptk[1] = ap.round
             /\ ApSends([ap EXCEPT !.ptk = f.ptk, !.tries = 0], "msg3")
          \/ ap.phase = "msg3" /\ f.ptk = ap.ptk
             /\ ap' = [ap EXCEPT !.phase = "done", !.key = f.ptk] /\ UNCHANGED down
          \/ ap.phase = "group" /\ ap' = [ap EXCEPT !.phase = "done"] /\ UNCHANGED down
      BY <2>2 DEF ApReceives
    <3> HIDE DEF f
    <3>3. CASE /\ f.msg = "msg2" /\ ap.phase = "msg1" /\ f.ptk[1] = ap.round
               /\ ApSends([ap EXCEPT !.ptk = f.ptk, !.tries = 0], "msg3")
      <4> DEFINE a == [ap EXCEPT !.ptk = f.ptk, !.tries = 0]
      <4>1. a \in ApStates /\ a.round = ap.round /\ a.ptk = f.ptk /\ a.key = ap.key
        <5>1. f.ptk \in (0..MaxRounds) \X (0..MaxReplay) /\ 0 \in 0..MaxTx
          BY <3>1, BoundSteps DEF UpFrames, Ptks
        <5> QED BY <1>0, <5>1 DEF ApStates
      <4>2. ApSends(a, "msg3")
        BY <3>3
      <4> HIDE DEF a
      <4>3. TakesMsg2
        BY <1>0, <2>1, <3>3, <4>1, <4>2, SentFrame DEF TakesMsg2, f
      <4> QED BY <4>3 DEF ApMove
    <3>4. CASE ap.phase = "msg3" /\ f.ptk = ap.ptk
               /\ ap' = [ap EXCEPT !.phase = "done", !.key = f.ptk] /\ UNCHANGED down
      BY <1>0, <3>4 DEF TakesMsg4, ApMove, ApStates
    <3>5. CASE ap.phase = "group" /\ ap' = [ap EXCEPT !.phase = "done"] /\ UNCHANGED down
      BY <1>0, <3>5 DEF TakesGroupMsg2, SameRound, ApMove, ApStates
    <3> QED BY <3>2, <3>3, <3>4, <3>5 DEF ApMove
  <2> QED BY <1>1, <1>2, <2>1, <2>2 DEF ApMove
<1> QED BY <1>3, <1>4, <1>5, <1>6 DEF AccessPoint

\* The keys of the access point, phase by phase; it sends a group key encrypted.
ApInv ==
  /\ ap.phase \in {"msg1", "msg3"} => ap.ptk[1] = ap.round /\ (ap.key = NoKey \/ ap.key[1] < ap.round)
  /\ ap.phase \in {"done", "group"} => ap.ptk[1] = ap.round /\ ap.key = ap.ptk
  /\ ap.phase = "off" => ap.key = NoKey
GroupFrames == \A i \in 1..Len(down) : down[i].msg = "group" => down[i].key # NoKey

LEMMA DownAppend ==
  ASSUME TypeInv, NEW g, down' = Append(down, g)
  PROVE  /\ Len(down) \in Nat /\ Len(down') = Len(down) + 1
         /\ \A i \in 1..Len(down) : down'[i] = down[i]
         /\ down'[Len(down) + 1] = g
         /\ \A i \in 1..Len(down') : i \in 1..Len(down) \/ i = Len(down) + 1
<1>1. /\ Len(down) \in Nat /\ Len(down') = Len(down) + 1
      /\ \A i \in 1..Len(down) : down'[i] = down[i]
      /\ down'[Len(down) + 1] = g
  BY AppendAny DEF TypeInv, ApOK
<1>2. \A l \in Nat : \A i \in 1..(l + 1) : i \in 1..l \/ i = l + 1
  OBVIOUS
<1> QED BY <1>1, <1>2

LEMMA DownTail ==
  ASSUME TypeInv, down # <<>>, down' = Tail(down)
  PROVE  /\ Len(down) \in Nat /\ 1 \in 1..Len(down) /\ Head(down) = down[1] /\ Len(down') \in Nat
         /\ \A i \in 1..Len(down') : i + 1 \in 1..Len(down) /\ down'[i] = down[i + 1]
<1>1. /\ Len(down) \in Nat /\ Len(down) > 0 /\ Head(down) = down[1]
      /\ Len(Tail(down)) = Len(down) - 1
      /\ \A i \in 1..(Len(down) - 1) : Tail(down)[i] = down[i + 1]
  BY RingHead DEF TypeInv, ApOK
<1>2. \A l \in Nat : l > 0 => 1 \in 1..l /\ l - 1 \in Nat /\ \A i \in 1..(l - 1) : i + 1 \in 1..l
  OBVIOUS
<1> QED BY <1>1, <1>2

LEMMA AssocFrame ==
  ASSUME TypeInv, RecvAssocResp
  PROVE  /\ ap'.phase = "msg1" /\ ap'.round = ap.round + 1 /\ ap'.ptk = <<ap.round + 1, 0>>
         /\ ap'.key = NoKey /\ ap.round \in Nat /\ Sent("msg1", <<ap.round + 1, 0>>, NoKey) /\ down = <<>>
<1> DEFINE a == [ap EXCEPT !.round = @ + 1, !.ptk = <<ap.round + 1, 0>>, !.replay = 0,
                           !.tries = 0, !.key = NoKey]
<1>1. ApSends(a, "msg1") /\ ap.round < MaxRounds /\ down = <<>>
  BY DEF RecvAssocResp
<1>2. ap \in ApStates /\ ap.round \in 0..MaxRounds
  BY DEF TypeInv, ApOK, ApStates
<1>3. ap.round + 1 \in 0..MaxRounds /\ 0 \in 0..MaxTx /\ 0 \in 0..MaxReplay /\ 0 \in Nat
      /\ NoKey \in KeyOrNone /\ ap.round \in Nat
  BY <1>1, <1>2, BoundSteps
<1>4. a \in ApStates /\ a.round = ap.round + 1 /\ a.ptk = <<ap.round + 1, 0>> /\ a.key = NoKey
  BY <1>2, <1>3 DEF ApStates
<1>5. ApOK'
  BY ApType DEF Next
<1> HIDE DEF a
<1> QED BY <1>1, <1>3, <1>4, <1>5, SentFrame

LEMMA ApKeysStep ==
  ASSUME TypeInv, TypeInv', ApInv, GroupFrames, [Next]_vars
  PROVE  ApInv' /\ GroupFrames'
<1>0. ap \in ApStates /\ ap.round \in Nat /\ NoKey \notin Ptks
      /\ (ap.phase \in {"msg3", "done", "group"} => ap.ptk \in Ptks)
  <2>1. ap.round \in 0..MaxRounds
    BY DEF TypeInv, ApOK, ApStates
  <2>2. ap.round \in Nat
    BY <2>1, BoundTypes
  <2> QED BY <2>2, NoKeyAssumption DEF TypeInv, ApOK
<1>1. ASSUME UNCHANGED <<ap, down>>
      PROVE  ApInv' /\ GroupFrames'
  BY <1>1 DEF ApInv, GroupFrames
<1>2. ASSUME UNCHANGED ap, down # <<>>, down' = Tail(down)
      PROVE  ApInv' /\ GroupFrames'
  BY <1>2, DownTail DEF ApInv, GroupFrames
<1>3. ASSUME NEW m, NEW p, NEW key, Sent(m, p, key), m = "group" => key # NoKey
      PROVE  GroupFrames'
  <2>1. PICK g \in DownFrames : g.msg = m /\ g.ptk = p /\ g.key = key /\ down' = Append(down, g)
    BY <1>3 DEF Sent
  <2> QED BY <1>3, <2>1, DownAppend DEF GroupFrames
<1>4. CASE UNCHANGED vars
  BY <1>1, <1>4 DEF vars
<1>5. CASE AccessPoint \/ Transmit
  <2>1. ApMove
    BY <1>5, ApMoves
  <2>2. CASE Resends
    <3>1. Sent(ap.phase, ap.ptk, ap.key) /\ (ap.phase = "group" => ap.key # NoKey)
      BY <1>0, <2>2 DEF Resends, ApInv
    <3> QED BY <1>3, <2>2, <3>1 DEF Resends, ApInv, SameRound
  <2>3. CASE Leaves
    <3>1. GroupFrames'
      BY <1>3, <2>3 DEF Leaves
    <3> QED BY <2>3, <3>1 DEF Leaves, ApInv
  <2>4. CASE SendsGroupKey
    <3>1. Sent("group", ap.ptk, ap.key) /\ ap.key # NoKey
      BY <1>0, <2>4 DEF SendsGroupKey, ApInv
    <3> QED BY <1>3, <2>4, <3>1 DEF SendsGroupKey, ApInv, SameRound
  <2>5. CASE Rekeys
    <3>1. GroupFrames'
      BY <1>3, <2>5 DEF Rekeys
    <3>2. ap'.ptk[1] = ap.round + 1 /\ ap'.key[1] = ap.round /\ ap'.round = ap.round + 1
      BY <2>5 DEF Rekeys, ApInv
    <3>3. ap'.key[1] < ap'.round
      BY <1>0, <3>2
    <3> QED BY <2>5, <3>1, <3>2, <3>3 DEF Rekeys, ApInv
  <2>6. CASE TakesMsg2
    <3>1. GroupFrames'
      BY <1>3, <2>6 DEF TakesMsg2
    <3> QED BY <2>6, <3>1 DEF TakesMsg2, ApInv
  <2>7. CASE TakesMsg4
    BY <2>7 DEF TakesMsg4, ApInv, GroupFrames
  <2>8. CASE TakesGroupMsg2
    BY <2>8 DEF TakesGroupMsg2, ApInv, GroupFrames, SameRound
  <2> QED BY <1>1, <2>1, <2>2, <2>3, <2>4, <2>5, <2>6, <2>7, <2>8 DEF ApMove
<1>6. CASE Receive
  BY <1>2, <1>6 DEF Receive
<1>7. CASE Lose
  BY <1>2, <1>7 DEF Lose
<1>8. CASE RecvAuth
  <2>1. ap'.phase = "off" /\ ap'.key = NoKey /\ UNCHANGED down
    BY <1>0, <1>8 DEF RecvAuth, ApStates
  <2> QED BY <2>1 DEF ApInv, GroupFrames
<1>9. CASE RecvAssocResp
  <2>1. GroupFrames'
    BY <1>3, <1>9, AssocFrame
  <2>2. ap'.phase = "msg1" /\ ap'.round = ap.round + 1 /\ ap'.ptk = <<ap.round + 1, 0>> /\ ap'.key = NoKey
    BY <1>9, AssocFrame
  <2> QED BY <2>1, <2>2 DEF ApInv
<1>10. CASE Worker \/ JoinBss \/ Stop \/ Start
  <2>1. UNCHANGED <<ap, down>>
    BY <1>10 DEF Worker, NewStateTask, BeginSetKeyTask, SendSetKey, SetKeyFails, SetKeyDone, KeyAdded,
                 EndSetKeyTask, JoinBss, Stop, Start
  <2> QED BY <1>1, <2>1
<1> QED BY <1>4, <1>5, <1>6, <1>7, <1>8, <1>9, <1>10 DEF Next

----------------------------------------------------------------------------
\* The station

\* Steps of the interrupt thread on the frame f.
GetsMsg1(f) == PassesInput(f) /\ RecvMsg1(f)
GetsMsg3(f) ==
  /\ PassesInput(f) /\ TakesMsg3(f)
  /\ f.gtk \in Gtks /\ Kid(f.gtk) \in Kids /\ f.ptk \in Ptks /\ f.ptk # NoKey /\ f.gtk # NoKey
  /\ ptk' = f.ptk /\ replay' = f.replay /\ supp' = "PTKDONE"
  /\ UNCHANGED <<icState, anonce, snonce, history>>
  /\ \/ UNCHANGED <<up, newPtk, prot, port, keys, worker>>
     \/ \E t \in Seq(Requests) : Msg3Keys(f, t)
GetsGroupMsg1(f) ==
  /\ PassesInput(f) /\ TakesGroupMsg1(f)
  /\ f.gtk \in Gtks /\ Kid(f.gtk) \in Kids /\ f.gtk # NoKey
  /\ UNCHANGED <<icState, supp, newPtk, anonce, snonce, ptk, prot, pairKey, history>>
  /\ \E t \in Seq(Requests) : GroupKeys(f, t)

LEMMA ReceiveSteps ==
  ASSUME TypeInv, Receive
  PROVE  /\ UNCHANGED <<task, firmware, ap>>
         /\ down # <<>> /\ down' = Tail(down) /\ Head(down) \in DownFrames
         /\ \/ GetsMsg1(Head(down)) \/ GetsMsg3(Head(down)) \/ GetsGroupMsg1(Head(down))
            \/ RecvDeauth(Head(down))
            \/ UNCHANGED station /\ UNCHANGED up
<1> DEFINE f == Head(down)
<1>1. /\ UNCHANGED <<task, firmware, ap>> /\ down # <<>> /\ down' = Tail(down) /\ f \in DownFrames
  BY FrameTypes DEF Receive
<1>2. \/ PassesInput(f) /\ (RecvMsg1(f) \/ RecvMsg3(f) \/ RecvGroupMsg1(f))
      \/ RecvDeauth(f)
      \/ Refuse(f)
  BY Zenon DEF Receive
<1> HIDE DEF f
<1>3. CASE PassesInput(f) /\ RecvMsg3(f)
  <2>1. HandleMsg3(f, newPtk, TRUE)
    BY <1>3 DEF RecvMsg3
  <2>2. /\ TakesMsg3(f)
        /\ ptk' = f.ptk /\ replay' = f.replay /\ supp' = "PTKDONE"
        /\ UNCHANGED <<icState, anonce, snonce, history>>
        /\ \/ UNCHANGED <<up, newPtk, prot, port, keys, worker>>
           \/ \E t \in Seq(Requests) : Msg3Keys(f, t)
    BY <1>1, <2>1, Msg3Effect
  <2>3. f.gtk \in Gtks /\ f.ptk \in Ptks
    BY <1>1, <2>2 DEF TakesMsg3, DownFrames
  <2>4. GetsMsg3(f)
    BY <1>3, <2>2, <2>3, KidType, NoKeyAssumption DEF GetsMsg3
  <2> QED BY <1>1, <2>4 DEF f
<1>4. CASE PassesInput(f) /\ RecvGroupMsg1(f)
  <2>1. /\ TakesGroupMsg1(f)
        /\ UNCHANGED <<icState, supp, newPtk, anonce, snonce, ptk, prot, pairKey, history>>
        /\ \E t \in Seq(Requests) : GroupKeys(f, t)
    BY <1>1, <1>4, GroupEffect
  <2>2. f.gtk \in Gtks
    BY <1>1, <2>1 DEF TakesGroupMsg1, DownFrames
  <2>3. GetsGroupMsg1(f)
    BY <1>4, <2>1, <2>2, KidType DEF GetsGroupMsg1
  <2> QED BY <1>1, <2>3 DEF f
<1>5. CASE Refuse(f)
  <2>1. UNCHANGED station /\ UNCHANGED up
    BY <1>1, <1>5 DEF Refuse, station
  <2> QED BY <1>1, <2>1 DEF f
<1> QED BY <1>1, <1>2, <1>3, <1>4, <1>5 DEF f, GetsMsg1

\* Every step, as the station sees it.
LEMMA StationSteps ==
  ASSUME TypeInv, [Next]_vars
  PROVE  \/ UNCHANGED station
         \/ NewStateTask \/ BeginSetKeyTask \/ SendSetKey \/ SetKeyFails \/ SetKeyDone \/ EndSetKeyTask
         \/ /\ UNCHANGED <<task, firmware>> /\ Head(down) \in DownFrames /\ down # <<>>
            /\ down' = Tail(down) /\ UNCHANGED ap
            /\ \/ GetsMsg1(Head(down)) \/ GetsMsg3(Head(down)) \/ GetsGroupMsg1(Head(down))
               \/ RecvDeauth(Head(down))
         \/ RecvAuth \/ RecvAssocResp \/ JoinBss \/ Stop \/ Start
<1>1. CASE UNCHANGED vars \/ Lose
  BY <1>1 DEF vars, Lose, station
<1>2. CASE AccessPoint \/ Transmit
  BY <1>2, ApMoves
<1>3. CASE Receive
  BY <1>3, ReceiveSteps DEF firmware
<1> QED BY <1>1, <1>2, <1>3 DEF Next, Worker

\* The states in which net80211 has cleared the supplicant and the group keys, and
\* those in which the station is associated.
Low == {"INIT", "SCAN", "AUTH"}
Joined == {"ASSOC", "RUN"}
\* A handshake is under way or done; its message 3 was taken; a group key is there.
Negotiated == supp \in {"PTKNEGOTIATING", "PTKDONE"}
Accepted == Negotiated /\ ~newPtk
HaveGroup == nwKeys # NoGroupKeys

\* What the station has done with keys in the states of its interface.
StationInv ==
  /\ icState \in Low => supp = "INITIALIZE" /\ ~HaveGroup
  /\ supp \in {"INITIALIZE", "PTKSTART"} => ~HaveGroup
  /\ nsState = "ASSOC" => icState \in {"AUTH", "ASSOC"}
  /\ icState = "ASSOC" /\ nsState = "ASSOC" => supp = "INITIALIZE"
  /\ Accepted => HaveGroup
  /\ HaveGroup => rxProt
  /\ rxProt => pairKey # NoKey
  /\ icState \in Joined \/ nsState \in Joined => (rxProt => HaveGroup)
  /\ "group" \in have => HaveGroup
  /\ linkUp /\ icState = "RUN" => HaveGroup
  /\ \A k \in Kids : hwGroup[k] # NoKey => nwKeys[k] # NoKey

LEMMA StationInit == Init => StationInv
BY DEF Init, StationInv, Low, Joined, Negotiated, Accepted, HaveGroup, NoGroupKeys

LEMMA GroupKeyAdded ==
  ASSUME TypeInv, NEW k \in Kids, NEW g \in Gtks, nwKeys' = [nwKeys EXCEPT ![k] = g]
  PROVE  /\ HaveGroup' /\ nwKeys'[k] = g /\ g # NoKey
         /\ \A j \in Kids : nwKeys'[j] # nwKeys[j] => j = k
         /\ \A j \in Kids : nwKeys[j] # NoKey => nwKeys'[j] # NoKey
<1>1. nwKeys \in [Kids -> Gtks \cup {NoKey}]
  BY DEF TypeInv, StationOK
<1>2. g # NoKey
  BY KidType
<1>3. nwKeys'[k] = g /\ \A j \in Kids : j # k => nwKeys'[j] = nwKeys[j]
  BY <1>1
<1>4. NoGroupKeys[k] = NoKey
  BY DEF NoGroupKeys
<1> QED BY <1>2, <1>3, <1>4 DEF HaveGroup

LEMMA HaveGroupKey ==
  ASSUME TypeInv, NEW k \in Kids, nwKeys[k] # NoKey
  PROVE  HaveGroup
BY DEF HaveGroup, NoGroupKeys

LEMMA Cleared ==
  ASSUME TypeInv, StationInv, ClearGroupKeys
  PROVE  ~HaveGroup' /\ "group" \notin have' /\ (\A k \in Kids : hwGroup'[k] = NoKey)
         /\ (have' \subseteq have)
<1>1. CASE nwKeys = NoGroupKeys
  <2>1. \A k \in Kids : nwKeys[k] = NoKey
    BY <1>1 DEF NoGroupKeys
  <2> QED BY <1>1, <2>1 DEF ClearGroupKeys, StationInv, HaveGroup
<1>2. CASE nwKeys # NoGroupKeys
  <2>1. \A k \in Kids : NoGroupKeys[k] = NoKey
    BY DEF NoGroupKeys
  <2> QED BY <1>2, <2>1 DEF ClearGroupKeys, HaveGroup
<1> QED BY <1>1, <1>2

LEMMA StationStep ==
  ASSUME TypeInv, StationInv, GroupFrames, [Next]_vars
  PROVE  StationInv'
<1> USE DEF Low, Joined, Negotiated, Accepted
<1>1. CASE UNCHANGED station
  BY <1>1 DEF station, worker, rsn, prot, port, keys, firmware, StationInv, HaveGroup
<1>2. CASE NewStateTask
  <2>1. /\ icState' = nsState /\ linkUp' = FALSE
        /\ UNCHANGED <<nsState, newPtk, rxProt, pairKey>>
    BY <1>2 DEF NewStateTask, NewState, prot
  <2>2. CASE nsState \in Low
    <3>1. supp' = "INITIALIZE" /\ ClearGroupKeys
      BY <1>2, <2>2 DEF NewStateTask, NewState
    <3> QED BY <2>1, <2>2, <3>1, Cleared DEF StationInv
  <2>3. CASE nsState \notin Low
    <3>1. UNCHANGED <<supp, nwKeys, have, hwGroup>>
      BY <1>2, <2>3 DEF NewStateTask, NewState
    <3> QED BY <2>1, <2>3, <3>1 DEF StationInv, HaveGroup
  <2> QED BY <2>2, <2>3
<1>3. CASE BeginSetKeyTask \/ EndSetKeyTask
  BY <1>3 DEF BeginSetKeyTask, EndSetKeyTask, worker, rsn, prot, port, keys, firmware, StationInv, HaveGroup
<1>4. CASE SendSetKey \/ SetKeyFails
  <2>1. UNCHANGED <<icState, nsState, supp, newPtk, rxProt, linkUp, pairKey, nwKeys, have>>
    BY <1>4 DEF SendSetKey, SetKeyFails, worker, rsn, prot, port, keys
  <2>2. \A k \in Kids : hwGroup'[k] # NoKey => nwKeys[k] # NoKey
    <3>1. CASE UNCHANGED hwGroup
      BY <3>1 DEF StationInv
    <3>2. CASE Install(Head(ring)) /\ hwGroup' # hwGroup
      <4>1. IsGroup(Head(ring)) /\ hwGroup' = [hwGroup EXCEPT ![Head(ring)] = nwKeys[Head(ring)]]
        BY <3>2 DEF Install
      <4> QED BY <4>1 DEF IsGroup, StationInv, TypeInv, StationOK
    <3> QED BY <1>4, <3>1, <3>2 DEF SendSetKey, SetKeyFails
  <2> QED BY <2>1, <2>2 DEF StationInv, HaveGroup
<1>5. CASE SetKeyDone
  <2>1. /\ have' = have \cup {Added} /\ (linkUp' => linkUp \/ have' = {"pairwise", "group"})
        /\ UNCHANGED <<icState, nsState, supp, newPtk, rxProt, pairKey, nwKeys, hwGroup>>
    BY <1>5 DEF SetKeyDone, KeyAdded, worker, rsn, prot
  <2>2. Added = "group" => HaveGroup
    <3>1. task = "wait"
      BY <1>5 DEF SetKeyDone, KeyAdded
    <3>2. Head(ring) \in Requests
      BY <3>1, RingHead DEF TypeInv, QueuesOK
    <3>3. Added = "group" => IsGroup(Head(ring))
      BY DEF Added
    <3>4. IsGroup(Head(ring)) => Head(ring) \in Kids /\ nwKeys[Head(ring)] # NoKey
      BY <3>2 DEF IsGroup, Requests
    <3> QED BY <3>3, <3>4, HaveGroupKey
  <2>3. "group" \in have' => HaveGroup
    BY <2>1, <2>2 DEF StationInv
  <2>4. linkUp' /\ icState = "RUN" => HaveGroup
    BY <2>1, <2>3 DEF StationInv
  <2> QED BY <2>1, <2>3, <2>4 DEF StationInv, HaveGroup
<1>6. ASSUME UNCHANGED <<task, firmware>>, NEW f \in DownFrames, f = Head(down), down # <<>>,
             GetsMsg1(f) \/ GetsMsg3(f) \/ GetsGroupMsg1(f) \/ RecvDeauth(f)
      PROVE  StationInv'
  <2>1. CASE GetsMsg1(f)
    BY <1>6, <2>1 DEF GetsMsg1, RecvMsg1, TakesMsg1, worker, prot, port, keys, firmware, StationInv, HaveGroup
  <2>2. CASE GetsMsg3(f)
    <3>1. /\ Negotiated /\ supp' = "PTKDONE"
          /\ UNCHANGED <<icState, have, hwGroup>>
          /\ icState \notin Low /\ ~(icState = "ASSOC" /\ nsState = "ASSOC")
          /\ (~newPtk => HaveGroup /\ rxProt /\ pairKey # NoKey)
      BY <1>6, <2>2 DEF GetsMsg3, TakesMsg3, firmware, StationInv
    <3>2. CASE UNCHANGED <<up, newPtk, prot, port, keys, worker>>
      BY <3>1, <3>2 DEF StationInv, HaveGroup, worker, prot, port, keys
    <3>3. ASSUME NEW t \in Seq(Requests), Msg3Keys(f, t)
          PROVE  StationInv'
      <4>0. f.gtk \in Gtks /\ Kid(f.gtk) \in Kids /\ f.ptk # NoKey /\ f.gtk # NoKey
        BY <2>2 DEF GetsMsg3
      <4>1. (newPtk' => newPtk /\ nwKeys' = nwKeys /\ rxProt' = rxProt) /\ newPtk' \in BOOLEAN
        BY <3>3 DEF Msg3Keys
      <4>2. /\ ~newPtk' => HaveGroup'
            /\ HaveGroup => HaveGroup'
            /\ \A j \in Kids : nwKeys[j] # NoKey => nwKeys'[j] # NoKey
        <5>1. CASE newPtk'
          BY <4>1, <5>1 DEF HaveGroup
        <5>2. CASE ~newPtk'
          <6>1. nwKeys' = [nwKeys EXCEPT ![Kid(f.gtk)] = f.gtk]
            BY <3>3, <5>2 DEF Msg3Keys
          <6> QED BY <4>0, <6>1, GroupKeyAdded
        <5> QED BY <5>1, <5>2
      <4>3. HaveGroup' => rxProt'
        <5>1. CASE newPtk'
          BY <4>1, <5>1 DEF HaveGroup, StationInv
        <5>2. CASE ~newPtk'
          BY <3>1, <3>3, <5>2 DEF Msg3Keys
        <5> QED BY <5>1, <5>2
      <4>4. pairKey' # NoKey
        BY <3>1, <3>3, <4>0 DEF Msg3Keys
      <4>5. linkUp' => linkUp \/ HaveGroup
        <5>1. linkUp' => linkUp \/ nwKeys[Kid(f.gtk)] = f.gtk
          BY <3>3 DEF Msg3Keys, port
        <5> QED BY <4>0, <5>1, HaveGroupKey
      <4>6. nsState' \in {nsState, "SCAN"}
        BY <3>3 DEF Msg3Keys
      <4>7. rxProt' => HaveGroup'
        <5>1. icState \in Joined
          BY <3>1 DEF TypeInv, StationOK
        <5> QED BY <4>1, <4>2, <5>1 DEF StationInv, HaveGroup
      <4> QED BY <3>1, <4>2, <4>3, <4>4, <4>5, <4>6, <4>7 DEF StationInv
    <3> QED BY <2>2, <3>2, <3>3 DEF GetsMsg3
  <2>3. CASE GetsGroupMsg1(f)
    <3>1. PICK t \in Seq(Requests) : GroupKeys(f, t)
      BY <2>3 DEF GetsGroupMsg1
    <3>2. /\ supp = "PTKDONE" /\ PassesInput(f) /\ f.msg = "group"
          /\ UNCHANGED <<icState, supp, newPtk, rxProt, pairKey, have, hwGroup>>
          /\ icState \notin Low
      BY <1>6, <2>3 DEF GetsGroupMsg1, TakesGroupMsg1, firmware, prot, StationInv
    <3>3. rxProt
      <4>1. 1 \in 1..Len(down) /\ f = down[1]
        <5>1. Len(down) \in Nat /\ Len(down) > 0 /\ Head(down) = down[1]
          BY <1>6, RingHead DEF TypeInv, ApOK
        <5> QED BY <1>6, <5>1
      <4>2. f.key # NoKey
        BY <3>2, <4>1 DEF GroupFrames
      <4> QED BY <3>2, <4>2 DEF PassesInput
    <3>4. HaveGroup' /\ \A j \in Kids : nwKeys[j] # NoKey => nwKeys'[j] # NoKey
      <4>1. nwKeys' = [nwKeys EXCEPT ![Kid(f.gtk)] = f.gtk] /\ f.gtk \in Gtks /\ Kid(f.gtk) \in Kids
        BY <2>3, <3>1 DEF GroupKeys, GetsGroupMsg1
      <4> QED BY <4>1, GroupKeyAdded
    <3>5. nsState' \in {nsState, "SCAN"}
      BY <3>1 DEF GroupKeys
    <3> QED BY <3>2, <3>3, <3>4, <3>5 DEF StationInv
  <2>4. CASE RecvDeauth(f)
    <3>1. nsState' = "AUTH"
      BY <2>4, RequestType DEF RecvDeauth
    <3> QED BY <1>6, <2>4, <3>1 DEF RecvDeauth, rsn, prot, port, keys, firmware, StationInv, HaveGroup
  <2> QED BY <1>6, <2>1, <2>2, <2>3, <2>4
<1>7. CASE RecvAuth
  <2>1. nsState' = "ASSOC" /\ icState = "AUTH"
    BY <1>7, RequestType DEF RecvAuth
  <2> QED BY <1>7, <2>1 DEF RecvAuth, keys, StationInv, HaveGroup
<1>8. CASE RecvAssocResp
  <2>1. nsState' = "RUN" /\ icState = "ASSOC" /\ nsState = "ASSOC"
    BY <1>8, RequestType DEF RecvAssocResp
  <2> QED BY <1>8, <2>1 DEF RecvAssocResp, prot, port, keys, firmware, StationInv, HaveGroup
<1>9. CASE JoinBss
  <2>1. nsState' = "AUTH" /\ icState = "SCAN"
    BY <1>9, RequestType DEF JoinBss
  <2> QED BY <1>9, <2>1 DEF JoinBss, firmware, StationInv, HaveGroup
<1>10. CASE Stop
  <2>1. /\ nsState' = "INIT" /\ icState' = "INIT" /\ linkUp' = FALSE /\ supp' = "INITIALIZE" /\ ClearGroupKeys
        /\ UNCHANGED <<rxProt, pairKey>>
    BY <1>10 DEF Stop, NewState, prot
  <2> QED BY <2>1, Cleared DEF StationInv
<1>11. CASE Start
  <2>1. nsState' = "SCAN"
    BY <1>11, RequestType DEF Start
  <2> QED BY <1>11, <2>1 DEF Start, rsn, prot, port, keys, firmware, StationInv, HaveGroup
<1> QED BY <1>1, <1>2, <1>3, <1>4, <1>5, <1>6, <1>7, <1>8, <1>9, <1>10, <1>11, StationSteps

----------------------------------------------------------------------------
\* The ring of requests

\* The first request that has not been sent.
From == IF task = "wait" THEN 2 ELSE 1
\* The key that request r points at was cleared.
Dead(r) == IF r = Pairwise THEN pairKey = NoKey ELSE nwKeys[r] = NoKey

\* The supplicant makes the requests t.
KeysGrow(t) ==
  /\ icState \in Joined
  /\ UNCHANGED <<icState, task, have, hwPair, hwGroup, given, stopped, failed>>
  /\ ring' \in Seq(Requests) /\ Len(ring) \in Nat /\ Len(t) \in Nat /\ Len(ring') = Len(ring) + Len(t)
  /\ \A i \in 1..Len(ring) : ring'[i] = ring[i]
  /\ \A i \in 1..Len(t) : ring'[Len(ring) + i] = t[i]
  /\ \A i \in 1..Len(ring') :
       i \in 1..Len(ring) \/ \E j \in 1..Len(t) : i = Len(ring) + j
  /\ \A r \in Requests : ~Dead(r) => ~Dead(r)'
  /\ \A i \in 1..Len(t) : t[i] \in Requests /\ ~Dead(t[i])'
  /\ HaveGroup => HaveGroup'
  /\ \/ HaveGroup' /\ ~newPtk /\ ~newPtk' /\ pairKey' = pairKey /\ HaveGroup
     \/ newPtk /\ newPtk' /\ (HaveGroup' => HaveGroup)
     \/ newPtk /\ ~newPtk' /\ HaveGroup' /\ pairKey' # NoKey /\ 1 \in 1..Len(t) /\ t[1] = Pairwise
  /\ \A i \in 1..Len(t) : t[i] = Pairwise => i = 1 /\ newPtk /\ ~newPtk'
  /\ nsState' \in {nsState, "SCAN"}
  /\ nsState' # "SCAN" => \A k \in Kids : nwKeys'[k] # nwKeys[k] => \E i \in 1..Len(t) : t[i] = k
  /\ linkUp' => linkUp \/ hwPair # NoKey
  /\ HasSetKey(nsq') <=> HasSetKey(nsq) \/ t # <<>>
  /\ SetKeyFirst(nsq) => SetKeyFirst(nsq')

LEMMA ShortRequests ==
  ASSUME NEW k \in Kids, NEW t \in {<<>>, <<Pairwise>>, <<k>>, <<Pairwise, k>>}
  PROVE  /\ \A i \in 1..Len(t) : t[i] \in {Pairwise, k}
         /\ \A i \in 1..Len(t) : t[i] = Pairwise => i = 1 /\ t \in {<<Pairwise>>, <<Pairwise, k>>}
         /\ \A i \in 1..Len(t) : t[i] = k => t \in {<<k>>, <<Pairwise, k>>}
         /\ t \in {<<Pairwise>>, <<Pairwise, k>>} => 1 \in 1..Len(t) /\ t[1] = Pairwise
         /\ t \in {<<k>>, <<Pairwise, k>>} => \E i \in 1..Len(t) : t[i] = k
<1>0. Pairwise # k
  BY DEF Pairwise, Kids
<1>1. CASE t = <<>>
  <2>1. Len(t) = 0 /\ t # <<Pairwise>> /\ t # <<k>> /\ t # <<Pairwise, k>>
    BY <1>1
  <2> QED BY <2>1
<1>2. CASE t = <<Pairwise>>
  <2>1. Len(t) = 1 /\ t[1] = Pairwise
    BY <1>2
  <2>2. t # <<k>> /\ t # <<Pairwise, k>>
    <3>1. Len(<<Pairwise, k>>) = 2 /\ <<k>>[1] = k
      OBVIOUS
    <3> QED BY <1>0, <2>1, <3>1
  <2>3. \A i \in 1..1 : i = 1
    OBVIOUS
  <2> QED BY <1>0, <1>2, <2>1, <2>2, <2>3
<1>3. CASE t = <<k>>
  <2>1. Len(t) = 1 /\ t[1] = k
    BY <1>3
  <2>2. t # <<Pairwise>> /\ t # <<Pairwise, k>>
    <3>1. Len(<<Pairwise, k>>) = 2 /\ <<Pairwise>>[1] = Pairwise
      OBVIOUS
    <3> QED BY <1>0, <2>1, <3>1
  <2>3. \A i \in 1..1 : i = 1
    OBVIOUS
  <2>4. 1 \in 1..Len(t)
    BY <2>1
  <2> QED BY <1>0, <1>3, <2>1, <2>2, <2>3, <2>4
<1>4. CASE t = <<Pairwise, k>>
  <2>1. Len(t) = 2 /\ t[1] = Pairwise /\ t[2] = k
    BY <1>4
  <2>3. \A i \in 1..2 : i = 1 \/ i = 2
    OBVIOUS
  <2>4. 1 \in 1..Len(t) /\ 2 \in 1..Len(t)
    BY <2>1
  <2> QED BY <1>0, <1>4, <2>1, <2>3, <2>4
<1> QED BY <1>1, <1>2, <1>3, <1>4

LEMMA RingGrows ==
  ASSUME TypeInv, NEW t \in Seq(Requests), ring' = ring \o t
  PROVE  /\ ring' \in Seq(Requests) /\ Len(ring) \in Nat /\ Len(t) \in Nat /\ Len(ring') = Len(ring) + Len(t)
         /\ \A i \in 1..Len(ring) : ring'[i] = ring[i]
         /\ \A i \in 1..Len(t) : ring'[Len(ring) + i] = t[i]
         /\ \A i \in 1..Len(ring') :
              i \in 1..Len(ring) \/ \E j \in 1..Len(t) : i = Len(ring) + j
<1>1. /\ ring' \in Seq(Requests) /\ Len(ring) \in Nat /\ Len(t) \in Nat /\ Len(ring') = Len(ring) + Len(t)
      /\ \A i \in 1..Len(ring) : ring'[i] = ring[i]
      /\ \A i \in 1..Len(t) : ring'[Len(ring) + i] = t[i]
  BY RingExtend DEF TypeInv, QueuesOK
<1>2. \A l, m \in Nat : \A i \in 1..(l + m) : i \in 1..l \/ \E j \in 1..m : i = l + j
  <2> TAKE l, m \in Nat
  <2> TAKE i \in 1..(l + m)
  <2>1. CASE i > l
    <3>1. i - l \in 1..m /\ i = l + (i - l)
      BY <2>1
    <3> QED BY <3>1
  <2> QED BY <2>1
<1>3. \A i \in 1..(Len(ring) + Len(t)) : i \in 1..Len(ring) \/ \E j \in 1..Len(t) : i = Len(ring) + j
  BY <1>1, <1>2
<1> QED BY <1>1, <1>3

LEMMA Msg3Grows ==
  ASSUME TypeInv, StationInv, NEW f, GetsMsg3(f), UNCHANGED <<task, firmware>>,
         NEW t \in Seq(Requests), Msg3Keys(f, t)
  PROVE  KeysGrow(t)
<1> DEFINE k == Kid(f.gtk)
<1>1. /\ PassesInput(f) /\ Negotiated /\ k \in Kids /\ f.gtk \in Gtks /\ f.ptk # NoKey /\ f.gtk # NoKey
      /\ UNCHANGED <<icState, stopped, failed>>
  BY DEF GetsMsg3, TakesMsg3, Negotiated, history
<1>2. icState \in Joined
  BY <1>1 DEF TypeInv, StationOK, StationInv, Low, Joined, Negotiated
<1>3. UNCHANGED <<task, have, hwPair, hwGroup, given>>
  BY DEF firmware
<1>4. /\ t \in {<<>>, <<Pairwise>>, <<k>>, <<Pairwise, k>>} /\ ring' = ring \o t
      /\ pairKey' = IF newPtk THEN f.ptk ELSE pairKey
      /\ t \in {<<Pairwise>>, <<Pairwise, k>>} <=> newPtk /\ ~newPtk'
      /\ newPtk' \in BOOLEAN /\ (newPtk' => newPtk /\ t = <<>>)
      /\ nwKeys' = IF newPtk' THEN nwKeys ELSE [nwKeys EXCEPT ![k] = f.gtk]
      /\ nsState' \in {nsState, "SCAN"}
      /\ nsState' # "SCAN" /\ nwKeys[k] # f.gtk => t \in {<<k>>, <<Pairwise, k>>}
      /\ linkUp' => linkUp \/ ~newPtk
      /\ HasSetKey(nsq') <=> HasSetKey(nsq) \/ t # <<>>
      /\ SetKeyFirst(nsq) => SetKeyFirst(nsq')
  BY DEF Msg3Keys, port
<1>5. /\ \A i \in 1..Len(t) : t[i] \in {Pairwise, k}
      /\ \A i \in 1..Len(t) : t[i] = Pairwise => i = 1 /\ t \in {<<Pairwise>>, <<Pairwise, k>>}
      /\ \A i \in 1..Len(t) : t[i] = k => t \in {<<k>>, <<Pairwise, k>>}
      /\ t \in {<<Pairwise>>, <<Pairwise, k>>} => 1 \in 1..Len(t) /\ t[1] = Pairwise
      /\ t \in {<<k>>, <<Pairwise, k>>} => \E i \in 1..Len(t) : t[i] = k
  <2> HIDE DEF k
  <2>1. k \in Kids /\ t \in {<<>>, <<Pairwise>>, <<k>>, <<Pairwise, k>>}
    BY <1>1, <1>4
  <2> QED BY <2>1, ShortRequests
<1> HIDE DEF k
<1>6. ~newPtk' => /\ HaveGroup' /\ nwKeys'[k] = f.gtk
                  /\ \A j \in Kids : nwKeys'[j] # nwKeys[j] => j = k
                  /\ \A j \in Kids : nwKeys[j] # NoKey => nwKeys'[j] # NoKey
  BY <1>1, <1>4, GroupKeyAdded
<1>7. newPtk' => nwKeys' = nwKeys /\ newPtk /\ t = <<>>
  BY <1>4
<1>8. \A r \in Requests : ~Dead(r) => ~Dead(r)'
  <2> SUFFICES ASSUME NEW r \in Requests, ~Dead(r) PROVE ~Dead(r)'
    OBVIOUS
  <2>1. CASE r = Pairwise
    BY <1>1, <1>4, <2>1 DEF Dead
  <2>2. CASE r \in Kids
    <3>1. r # Pairwise
      BY <2>2 DEF Pairwise, Kids
    <3> QED BY <1>6, <1>7, <2>2, <3>1 DEF Dead
  <2> QED BY <2>1, <2>2 DEF Requests
<1>9. \A i \in 1..Len(t) : t[i] \in Requests /\ ~Dead(t[i])'
  <2> TAKE i \in 1..Len(t)
  <2>1. ~newPtk'
    <3>1. Len(<<>>) = 0
      OBVIOUS
    <3> QED BY <1>7, <3>1
  <2>2. CASE t[i] = Pairwise
    BY <1>1, <1>4, <1>5, <2>2 DEF Dead, Requests
  <2>3. CASE t[i] = k
    <3>1. k # Pairwise
      BY <1>1 DEF Pairwise, Kids
    <3> QED BY <1>1, <1>6, <2>1, <2>3, <3>1 DEF Dead, Requests
  <2> QED BY <1>5, <2>2, <2>3
<1>10. HaveGroup => HaveGroup'
  BY <1>6, <1>7 DEF HaveGroup
<1>11. \/ HaveGroup' /\ ~newPtk /\ ~newPtk' /\ pairKey' = pairKey /\ HaveGroup
       \/ newPtk /\ newPtk' /\ (HaveGroup' => HaveGroup)
       \/ newPtk /\ ~newPtk' /\ HaveGroup' /\ pairKey' # NoKey /\ 1 \in 1..Len(t) /\ t[1] = Pairwise
  <2>1. CASE ~newPtk
    <3>1. HaveGroup
      BY <1>1, <2>1 DEF StationInv, Accepted
    <3> QED BY <1>4, <1>6, <2>1, <3>1
  <2>2. CASE newPtk /\ newPtk'
    BY <1>7, <2>2 DEF HaveGroup
  <2>3. CASE newPtk /\ ~newPtk'
    BY <1>1, <1>4, <1>5, <1>6, <2>3
  <2> QED BY <2>1, <2>2, <2>3
<1>12. \A i \in 1..Len(t) : t[i] = Pairwise => i = 1 /\ newPtk /\ ~newPtk'
  BY <1>4, <1>5
<1>13. nsState' # "SCAN" => \A j \in Kids : nwKeys'[j] # nwKeys[j] => \E i \in 1..Len(t) : t[i] = j
  <2> SUFFICES ASSUME nsState' # "SCAN", NEW j \in Kids, nwKeys'[j] # nwKeys[j]
               PROVE  \E i \in 1..Len(t) : t[i] = j
    OBVIOUS
  <2>1. ~newPtk' /\ j = k /\ nwKeys'[k] = f.gtk
    BY <1>6, <1>7
  <2>2. nwKeys[k] # f.gtk
    BY <2>1
  <2> QED BY <1>4, <1>5, <2>1, <2>2
<1>14. linkUp' => linkUp \/ hwPair # NoKey
  <2>1. CASE ~newPtk
    <3>1. rxProt
      BY <1>1, <2>1 DEF StationInv, Accepted
    <3> QED BY <1>1, <3>1 DEF PassesInput
  <2> QED BY <1>4, <2>1
<1> QED BY <1>1, <1>2, <1>3, <1>4, <1>8, <1>9, <1>10, <1>11, <1>12, <1>13, <1>14, RingGrows DEF KeysGrow

LEMMA GroupGrows ==
  ASSUME TypeInv, StationInv, GroupFrames, down # <<>>, GetsGroupMsg1(Head(down)),
         UNCHANGED <<task, firmware>>,
         NEW t \in Seq(Requests), GroupKeys(Head(down), t)
  PROVE  KeysGrow(t)
<1> DEFINE f == Head(down)
           k == Kid(f.gtk)
<1>1. /\ PassesInput(f) /\ supp = "PTKDONE" /\ f.msg = "group" /\ k \in Kids /\ f.gtk \in Gtks /\ f.gtk # NoKey
      /\ UNCHANGED <<icState, newPtk, rxProt, pairKey, stopped, failed>>
  BY DEF GetsGroupMsg1, TakesGroupMsg1, history, prot
<1>2. icState \in Joined
  BY <1>1 DEF TypeInv, StationOK, StationInv, Low, Joined
<1>3. UNCHANGED <<task, have, hwPair, hwGroup, given>>
  BY DEF firmware
<1>4. /\ t \in {<<>>, <<k>>} /\ ring' = ring \o t
      /\ nwKeys' = [nwKeys EXCEPT ![k] = f.gtk]
      /\ nsState' \in {nsState, "SCAN"}
      /\ nsState' # "SCAN" /\ nwKeys[k] # f.gtk => t = <<k>>
      /\ HasSetKey(nsq') <=> HasSetKey(nsq) \/ t # <<>>
      /\ SetKeyFirst(nsq) => SetKeyFirst(nsq')
  BY DEF GroupKeys
<1>5. /\ \A i \in 1..Len(t) : t[i] = k
      /\ t = <<k>> => \E i \in 1..Len(t) : t[i] = k
  <2> HIDE DEF k
  <2>1. CASE t = <<>>
    BY <2>1
  <2>2. CASE t = <<k>>
    BY <2>2
  <2> QED BY <1>4, <2>1, <2>2
<1>6. hwPair # NoKey /\ rxProt
  <2>1. 1 \in 1..Len(down) /\ f = down[1]
    <3>1. Len(down) \in Nat /\ Len(down) > 0 /\ Head(down) = down[1]
      BY RingHead DEF TypeInv, ApOK
    <3> QED BY <3>1
  <2>2. f.key # NoKey
    BY <1>1, <2>1 DEF GroupFrames
  <2> QED BY <1>1, <2>2 DEF PassesInput
<1>7. HaveGroup /\ pairKey # NoKey
  BY <1>2, <1>6 DEF StationInv
<1> HIDE DEF k, f
<1>8. /\ HaveGroup' /\ nwKeys'[k] = f.gtk
      /\ \A j \in Kids : nwKeys'[j] # nwKeys[j] => j = k
      /\ \A j \in Kids : nwKeys[j] # NoKey => nwKeys'[j] # NoKey
  BY <1>1, <1>4, GroupKeyAdded
<1>9. k # Pairwise /\ k \in Requests
  BY <1>1 DEF Pairwise, Kids, Requests
<1>10. \A r \in Requests : ~Dead(r) => ~Dead(r)'
  <2> SUFFICES ASSUME NEW r \in Requests, ~Dead(r) PROVE ~Dead(r)'
    OBVIOUS
  <2>1. CASE r = Pairwise
    BY <1>1, <2>1 DEF Dead
  <2>2. CASE r \in Kids
    <3>1. r # Pairwise
      BY <2>2 DEF Pairwise, Kids
    <3> QED BY <1>8, <2>2, <3>1 DEF Dead
  <2> QED BY <2>1, <2>2 DEF Requests
<1>11. \A i \in 1..Len(t) : t[i] \in Requests /\ ~Dead(t[i])'
  BY <1>1, <1>5, <1>8, <1>9 DEF Dead
<1>12. \A i \in 1..Len(t) : t[i] = Pairwise => FALSE
  BY <1>5, <1>9
<1>13. nsState' # "SCAN" => \A j \in Kids : nwKeys'[j] # nwKeys[j] => \E i \in 1..Len(t) : t[i] = j
  <2> SUFFICES ASSUME nsState' # "SCAN", NEW j \in Kids, nwKeys'[j] # nwKeys[j]
               PROVE  \E i \in 1..Len(t) : t[i] = j
    OBVIOUS
  <2>1. j = k /\ nwKeys[k] # f.gtk
    BY <1>8
  <2> QED BY <1>4, <1>5, <2>1
<1>14. \/ HaveGroup' /\ ~newPtk /\ ~newPtk' /\ pairKey' = pairKey /\ HaveGroup
       \/ newPtk /\ newPtk' /\ (HaveGroup' => HaveGroup)
  BY <1>1, <1>7, <1>8
<1> QED BY <1>1, <1>2, <1>3, <1>4, <1>6, <1>8, <1>10, <1>11, <1>12, <1>13, <1>14, RingGrows DEF KeysGrow

\* Every step, as the ring sees it.
LEMMA RingSteps ==
  ASSUME TypeInv, StationInv, GroupFrames, [Next]_vars
  PROVE  \/ UNCHANGED station
         \/ NewStateTask \/ BeginSetKeyTask \/ SendSetKey \/ SetKeyFails \/ SetKeyDone \/ EndSetKeyTask
         \/ /\ UNCHANGED <<task, firmware>> /\ down # <<>> /\ GetsMsg1(Head(down))
         \/ /\ UNCHANGED <<task, firmware, newPtk, port, keys, worker, icState, history>>
            /\ Negotiated /\ Negotiated'
         \/ \E t \in Seq(Requests) : KeysGrow(t)
         \/ UNCHANGED <<task, firmware>> /\ \E f : RecvDeauth(f)
         \/ RecvAuth \/ RecvAssocResp \/ JoinBss \/ Stop \/ Start
<1>1. CASE /\ UNCHANGED <<task, firmware>> /\ down # <<>>
           /\ GetsMsg3(Head(down)) \/ GetsGroupMsg1(Head(down))
  <2>1. CASE GetsMsg3(Head(down))
    <3>1. CASE UNCHANGED <<up, newPtk, prot, port, keys, worker>>
      <4>1. Negotiated /\ Negotiated' /\ UNCHANGED <<icState, history>>
        BY <2>1 DEF GetsMsg3, TakesMsg3, Negotiated
      <4> QED BY <1>1, <3>1, <4>1
    <3>2. ASSUME NEW t \in Seq(Requests), Msg3Keys(Head(down), t)
          PROVE  KeysGrow(t)
      BY <1>1, <2>1, <3>2, Msg3Grows
    <3> QED BY <2>1, <3>1, <3>2 DEF GetsMsg3
  <2>2. CASE GetsGroupMsg1(Head(down))
    <3>1. PICK t \in Seq(Requests) : GroupKeys(Head(down), t)
      BY <2>2 DEF GetsGroupMsg1
    <3>2. KeysGrow(t)
      BY <1>1, <2>2, <3>1, GroupGrows
    <3> QED BY <3>2
  <2> QED BY <1>1, <2>1, <2>2
<1> QED BY <1>1, StationSteps

\* Requests that are in the ring are served, before the station joins again.
QueueInv ==
  /\ ring # <<>> /\ ~stopped => task # "idle" \/ HasSetKey(nsq)
  /\ ring # <<>> /\ ~stopped /\ icState \in Low => task # "idle" \/ SetKeyFirst(nsq)
  /\ icState \in Joined /\ ~stopped => \A i \in 1..Len(ring) : ~Dead(ring[i])
  /\ icState \in Joined /\ ~HaveGroup =>
       ring = <<>> \/ (stopped /\ task = "idle" /\ ~HasSetKey(nsq))
  /\ stopped /\ icState \in Low => task # "idle" \/ SetKeyFirst(nsq) \/ ~HasSetKey(nsq)

\* The pairwise key is requested, or the firmware has it.
PairLast ==
  \E i \in From..Len(ring) : ring[i] = Pairwise /\ \A j \in (i + 1)..Len(ring) : ~Dead(ring[j])
\* It was sent, and no request that is left can take it away.
PairDone ==
  /\ hwPair # NoKey /\ (~newPtk => hwPair = pairKey)
  /\ \A j \in From..Len(ring) : ~Dead(ring[j])
PairInv == HaveGroup /\ ~failed => PairLast \/ PairDone

\* It is the first that is requested.
FirstInv ==
  ~stopped /\ ~failed /\ HaveGroup /\ hwPair = NoKey =>
    task # "wait" /\ ring # <<>> /\ ring[1] = Pairwise

\* A group key is requested, or the firmware has it.
Awaits(k) == \E i \in From..Len(ring) : ring[i] = k
GroupInv ==
  ~failed /\ nsState \in Joined => \A k \in Kids : nwKeys[k] # hwGroup[k] => Awaits(k)

RingInv == QueueInv /\ PairInv /\ FirstInv /\ GroupInv /\ LinkNeedsPairwiseKey

LEMMA NewStateEffect ==
  ASSUME TypeInv, StationInv, NewStateTask
  PROVE  /\ task = "idle" /\ nsq # <<>> /\ Head(nsq) = "newstate" /\ nsq' = Tail(nsq)
         /\ icState' = nsState /\ linkUp' = FALSE
         /\ UNCHANGED <<ring, task, stopped, failed, hwPair, given, pairKey, newPtk, nsState, anonce, snonce, rxProt>>
         /\ \/ nsState \in Low /\ ~HaveGroup' /\ supp' = "INITIALIZE"
            \/ nsState \in Joined /\ UNCHANGED <<supp, nwKeys, hwGroup>>
<1>1. /\ task = "idle" /\ nsq # <<>> /\ Head(nsq) = "newstate" /\ nsq' = Tail(nsq)
      /\ icState' = nsState /\ linkUp' = FALSE
      /\ UNCHANGED <<ring, task, stopped, failed, hwPair, given, pairKey, newPtk, nsState, anonce, snonce, rxProt>>
  BY DEF NewStateTask, NewState, history, prot
<1>2. CASE nsState \in Low
  <2>1. supp' = "INITIALIZE" /\ ClearGroupKeys
    BY <1>2 DEF NewStateTask, NewState, Low
  <2> QED BY <1>1, <1>2, <2>1, Cleared
<1>3. CASE nsState \notin Low
  <2>1. nsState \in Joined
    BY <1>3 DEF TypeInv, StationOK, Low, Joined
  <2>2. UNCHANGED <<supp, nwKeys, hwGroup>>
    BY <1>3 DEF NewStateTask, NewState, Low
  <2> QED BY <1>1, <2>1, <2>2
<1> QED BY <1>2, <1>3

LEMMA StopEffect ==
  ASSUME TypeInv, StationInv, Stop
  PROVE  /\ icState' = "INIT" /\ nsState' = "INIT" /\ nsq' = <<>> /\ linkUp' = FALSE /\ ~HaveGroup'
         /\ supp' = "INITIALIZE" /\ stopped' = (ring # <<>>)
         /\ UNCHANGED <<ring, task, pairKey, hwPair, given, failed, newPtk, anonce, snonce, rxProt>>
<1>1. /\ icState' = "INIT" /\ nsState' = "INIT" /\ nsq' = <<>> /\ linkUp' = FALSE /\ ClearGroupKeys
      /\ supp' = "INITIALIZE" /\ stopped' = (ring # <<>>)
      /\ UNCHANGED <<ring, task, pairKey, hwPair, given, failed, newPtk, anonce, snonce, rxProt>>
  BY DEF Stop, NewState, prot
<1> QED BY <1>1, Cleared

\* The first request leaves the ring.
LEMMA RingShift ==
  ASSUME TypeInv, ring # <<>>, ring' = Tail(ring)
  PROVE  /\ Len(ring) \in Nat /\ Len(ring) > 0 /\ Len(ring') \in Nat
         /\ \A i \in 1..Len(ring') : i + 1 \in 2..Len(ring) /\ ring'[i] = ring[i + 1]
         /\ \A i \in 2..Len(ring) : i - 1 \in 1..Len(ring') /\ ring'[i - 1] = ring[i]
         /\ Head(ring) = ring[1] /\ ring[1] \in Requests /\ 1 \in 1..Len(ring)
<1>1. /\ Len(ring) \in Nat /\ Len(ring) > 0 /\ Head(ring) = ring[1] /\ Head(ring) \in Requests
      /\ Len(Tail(ring)) = Len(ring) - 1
      /\ \A i \in 1..(Len(ring) - 1) : Tail(ring)[i] = ring[i + 1]
  BY RingHead DEF TypeInv, QueuesOK
<1>2. \A l \in Nat : l > 0 => /\ l - 1 \in Nat /\ 1 \in 1..l
                              /\ \A i \in 1..(l - 1) : i + 1 \in 2..l
                              /\ \A i \in 2..l : i - 1 \in 1..(l - 1) /\ (i - 1) + 1 = i
  OBVIOUS
<1>3. \A i \in 2..Len(ring) : i - 1 \in 1..(Len(ring) - 1) /\ (i - 1) + 1 = i
  BY <1>1, <1>2
<1>4. \A i \in 2..Len(ring) : Tail(ring)[i - 1] = ring[i]
  BY <1>1, <1>3
<1> QED BY <1>1, <1>2, <1>3, <1>4

LEMMA RingFirst ==
  ASSUME TypeInv, ring # <<>>
  PROVE  Head(ring) = ring[1] /\ ring[1] \in Requests /\ 1 \in 1..Len(ring) /\ Len(ring) \in Nat
<1>1. Len(ring) \in Nat /\ Len(ring) > 0 /\ Head(ring) = ring[1] /\ Head(ring) \in Requests
  BY RingHead DEF TypeInv, QueuesOK
<1> QED BY <1>1

LEMMA QueueInvStep ==
  ASSUME TypeInv, TypeInv', StationInv, GroupFrames, QueueInv, [Next]_vars
  PROVE  QueueInv'
<1>0. nsq \in Queues /\ (Low \cap Joined = {}) /\ (icState \in Low \/ icState \in Joined)
      /\ (icState' \in Low \/ icState' \in Joined)
      /\ \A i \in 1..Len(ring) : ring[i] \in Requests
  <2>1. ring \in Seq(Requests)
    BY DEF TypeInv, QueuesOK
  <2>2. \A i \in 1..Len(ring) : ring[i] \in Requests
    BY <2>1, ElementOfSeq
  <2> QED BY <2>2 DEF TypeInv, StationOK, QueuesOK, Low, Joined
<1>1. ASSUME UNCHANGED <<nsq, task, icState, pairKey, nwKeys, ring, stopped>>
      PROVE  QueueInv'
  BY <1>1 DEF QueueInv, Dead, HaveGroup
<1>2. CASE UNCHANGED station
  BY <1>1, <1>2 DEF station, worker, keys, history
<1>3. CASE NewStateTask
  <2>1. /\ task = "idle" /\ nsq # <<>> /\ Head(nsq) = "newstate" /\ nsq' = Tail(nsq)
        /\ icState' = nsState /\ UNCHANGED <<ring, task, stopped, pairKey>>
        /\ \/ nsState \in Low /\ ~HaveGroup'
           \/ nsState \in Joined /\ UNCHANGED nwKeys
    BY <1>3, NewStateEffect
  <2>2. ~SetKeyFirst(nsq) /\ (HasSetKey(nsq) => SetKeyFirst(Tail(nsq)))
        /\ (HasSetKey(Tail(nsq)) => HasSetKey(nsq))
    BY <1>0, <2>1, QueueHead
  <2>3. \A q : SetKeyFirst(q) => HasSetKey(q)
    BY DEF SetKeyFirst, HasSetKey
  <2>4. CASE icState' \in Low
    <3>1. icState' \notin Joined
      BY <1>0, <2>4
    <3>2. ring' # <<>> /\ ~stopped' => SetKeyFirst(nsq')
      BY <2>1, <2>2 DEF QueueInv
    <3>3. stopped' => SetKeyFirst(nsq') \/ ~HasSetKey(nsq')
      BY <2>1, <2>2
    <3> QED BY <2>1, <2>3, <3>1, <3>2, <3>3 DEF QueueInv
  <2>5. CASE icState' \in Joined
    <3>1. icState' \notin Low /\ UNCHANGED nwKeys
      BY <1>0, <2>1, <2>5
    <3>2. ring' # <<>> /\ ~stopped' => HasSetKey(nsq')
      BY <2>1, <2>2, <2>3 DEF QueueInv
    <3>3. CASE icState \in Joined
      BY <2>1, <2>2, <3>1, <3>2, <3>3 DEF QueueInv, Dead, HaveGroup
    <3>4. CASE icState \in Low
      <4>1. ~stopped => ring = <<>>
        BY <2>1, <2>2, <3>4 DEF QueueInv
      <4>2. stopped => ~HasSetKey(nsq')
        BY <2>1, <2>2, <3>4 DEF QueueInv
      <4>3. ring = <<>> => \A i \in 1..Len(ring) : FALSE
        OBVIOUS
      <4> QED BY <2>1, <3>1, <3>2, <4>1, <4>2, <4>3 DEF QueueInv
    <3> QED BY <1>0, <3>3, <3>4
  <2> QED BY <1>0, <2>4, <2>5
<1>4. CASE BeginSetKeyTask
  <2>1. /\ nsq # <<>> /\ Head(nsq) = "setkey" /\ task' = "setkey"
        /\ UNCHANGED <<icState, pairKey, nwKeys, ring, stopped>>
    BY <1>4 DEF BeginSetKeyTask, keys, history
  <2>2. HasSetKey(nsq)
    BY <1>0, <2>1 DEF Queues, HasSetKey
  <2> QED BY <2>1, <2>2 DEF QueueInv, Dead, HaveGroup
<1>5. CASE SendSetKey \/ SetKeyFails \/ SetKeyDone
  <2>1. /\ task # "idle" /\ task' # "idle" /\ ring # <<>> /\ (ring' = ring \/ ring' = Tail(ring))
        /\ UNCHANGED <<icState, pairKey, nwKeys, stopped>>
    BY <1>5 DEF SendSetKey, SetKeyFails, SetKeyDone, KeyAdded, keys, history, TypeInv, QueuesOK
  <2>2. icState \in Joined => HaveGroup
    BY <2>1 DEF QueueInv
  <2>3. icState \in Joined /\ ~stopped => \A i \in 1..Len(ring') : ~Dead(ring[i])'
    <3>1. CASE ring' = ring
      BY <2>1, <3>1 DEF QueueInv, Dead
    <3>2. CASE ring' = Tail(ring)
      <4>1. \A i \in 1..Len(ring') : i + 1 \in 1..Len(ring) /\ ring'[i] = ring[i + 1]
        <5>1. \A i \in 1..Len(ring') : i + 1 \in 2..Len(ring) /\ ring'[i] = ring[i + 1]
          BY <2>1, <3>2, RingShift
        <5>2. 2..Len(ring) \subseteq 1..Len(ring)
          BY <2>1, RingFirst
        <5> QED BY <5>1, <5>2
      <4> QED BY <2>1, <4>1 DEF QueueInv, Dead
    <3> QED BY <2>1, <3>1, <3>2
  <2> QED BY <2>1, <2>2, <2>3 DEF QueueInv, HaveGroup
<1>6. CASE EndSetKeyTask
  <2>1. ring' = <<>> /\ ~stopped'
    BY <1>6 DEF EndSetKeyTask, keys
  <2>2. \A i \in 1..Len(ring') : FALSE
    BY <2>1
  <2> QED BY <2>1, <2>2 DEF QueueInv
<1>7. CASE UNCHANGED <<task, firmware>> /\ GetsMsg1(Head(down))
  BY <1>1, <1>7 DEF GetsMsg1, RecvMsg1, worker, keys, history
<1>8. CASE UNCHANGED <<task, firmware, newPtk, port, keys, worker, icState, history>>
  BY <1>1, <1>8 DEF worker, keys, history
<1>9. ASSUME NEW t \in Seq(Requests), KeysGrow(t)
      PROVE  QueueInv'
  <2>1. icState' \in Joined /\ icState' \notin Low /\ UNCHANGED <<icState, task, stopped>>
    BY <1>0, <1>9 DEF KeysGrow
  <2>2. ring' # <<>> => ring # <<>> \/ t # <<>>
    <3>1. ring = <<>> /\ t = <<>> => ring' = <<>>
      <4>1. ring = <<>> /\ t = <<>> => Len(ring') = 0 /\ ring' \in Seq(Requests)
        BY <1>9 DEF KeysGrow
      <4> QED BY <4>1, EmptySeq
    <3> QED BY <3>1
  <2>3. ring' # <<>> /\ ~stopped' => task' # "idle" \/ HasSetKey(nsq')
    BY <1>9, <2>1, <2>2 DEF KeysGrow, QueueInv
  <2>4. ~stopped' => \A i \in 1..Len(ring') : ~Dead(ring[i])'
    <3> SUFFICES ASSUME ~stopped', NEW i \in 1..Len(ring') PROVE ~Dead(ring[i])'
      OBVIOUS
    <3>1. CASE i \in 1..Len(ring)
      <4>1. ~Dead(ring[i]) /\ ring[i] \in Requests /\ ring'[i] = ring[i]
        BY <1>0, <1>9, <2>1, <3>1 DEF QueueInv, KeysGrow
      <4>2. \A r \in Requests : ~Dead(r) => ~Dead(r)'
        BY <1>9 DEF KeysGrow
      <4> QED BY <4>1, <4>2
    <3>2. CASE i \notin 1..Len(ring)
      <4>1. PICK j \in 1..Len(t) : i = Len(ring) + j
        BY <1>9, <3>2 DEF KeysGrow
      <4>2. ring'[i] = t[j] /\ ~Dead(t[j])'
        BY <1>9, <4>1 DEF KeysGrow
      <4> QED BY <4>2
    <3> QED BY <3>1, <3>2
  <2>5. ~HaveGroup' => ring' = <<>> \/ (stopped' /\ task' = "idle" /\ ~HasSetKey(nsq'))
    <3> SUFFICES ASSUME ~HaveGroup' PROVE ring' = <<>> \/ (stopped' /\ task' = "idle" /\ ~HasSetKey(nsq'))
      OBVIOUS
    <3>1. newPtk' /\ ~HaveGroup
      BY <1>9 DEF KeysGrow
    <3>2. Len(t) = 0
      <4>1. \A i \in 1..Len(t) : FALSE
        <5>1. \A i \in 1..Len(t) : t[i] # Pairwise
          BY <1>9, <3>1 DEF KeysGrow
        <5>2. \A i \in 1..Len(t) : t[i] \in Kids => HaveGroup'
          <6> SUFFICES ASSUME NEW i \in 1..Len(t), t[i] \in Kids PROVE HaveGroup'
            OBVIOUS
          <6>1. t[i] # Pairwise /\ ~Dead(t[i])'
            BY <1>9, <5>1 DEF KeysGrow
          <6>2. nwKeys'[t[i]] # NoKey
            BY <6>1 DEF Dead
          <6>3. NoGroupKeys[t[i]] = NoKey
            BY DEF NoGroupKeys
          <6> QED BY <6>2, <6>3 DEF HaveGroup
        <5>3. \A i \in 1..Len(t) : t[i] \in Requests
          BY <1>9 DEF KeysGrow
        <5> QED BY <5>1, <5>2, <5>3 DEF Requests
      <4>2. Len(t) \in Nat
        BY <1>9 DEF KeysGrow
      <4> QED BY <4>1, <4>2
    <3>3. t = <<>>
      BY <3>2, EmptySeq
    <3>4. ring = <<>> => ring' = <<>>
      BY <2>2, <3>3
    <3> QED BY <1>9, <2>1, <3>1, <3>3, <3>4 DEF KeysGrow, QueueInv
  <2> QED BY <2>1, <2>3, <2>4, <2>5 DEF QueueInv
<1>10. ASSUME NEW s, Request(s), UNCHANGED <<task, icState, nwKeys, ring, stopped>>,
              icState \in Joined => UNCHANGED pairKey
       PROVE  QueueInv'
  <2>1. /\ HasSetKey(nsq') <=> HasSetKey(nsq)
        /\ SetKeyFirst(nsq) => SetKeyFirst(nsq')
    BY <1>10, RequestType
  <2> QED BY <1>10, <2>1 DEF QueueInv, Dead, HaveGroup
<1>11. CASE UNCHANGED <<task, firmware>> /\ \E f : RecvDeauth(f)
  BY <1>10, <1>11 DEF RecvDeauth, keys, history
<1>12. CASE RecvAuth \/ RecvAssocResp \/ Start
  BY <1>10, <1>12 DEF RecvAuth, RecvAssocResp, Start, keys, history
<1>13. CASE JoinBss
  <2>1. icState \notin Joined
    BY <1>13 DEF JoinBss, Joined
  <2> QED BY <1>10, <1>13, <2>1 DEF JoinBss, history
<1>14. CASE Stop
  <2>1. icState' = "INIT" /\ nsq' = <<>> /\ stopped' = (ring # <<>>) /\ ring' = ring
    BY <1>14, StopEffect
  <2>2. icState' \notin Joined
    BY <2>1 DEF Joined
  <2>3. ~HasSetKey(nsq')
    BY <2>1 DEF HasSetKey
  <2> QED BY <2>1, <2>2, <2>3 DEF QueueInv
<1> QED BY <1>2, <1>3, <1>4, <1>5, <1>6, <1>7, <1>8, <1>9, <1>11, <1>12, <1>13, <1>14, RingSteps

\* What follows a request that is not dead stays so.
LEMMA GrownRequests ==
  ASSUME TypeInv, NEW t \in Seq(Requests), KeysGrow(t), NEW n \in Nat, n > 0
  PROVE  (\A j \in n..Len(ring) : ~Dead(ring[j])) => \A j \in n..Len(ring') : ~Dead(ring[j])'
<1> SUFFICES ASSUME \A j \in n..Len(ring) : ~Dead(ring[j]), NEW j \in n..Len(ring')
             PROVE  ~Dead(ring[j])'
  OBVIOUS
<1>1. Len(ring) \in Nat /\ Len(ring') \in Nat /\ j \in 1..Len(ring')
  BY DEF KeysGrow
<1>2. CASE j \in 1..Len(ring)
  <2>1. j \in n..Len(ring)
    BY <1>1, <1>2
  <2>2. ring'[j] = ring[j] /\ ring[j] \in Requests
    BY <1>2, ElementOfSeq DEF KeysGrow, TypeInv, QueuesOK
  <2>3. \A r \in Requests : ~Dead(r) => ~Dead(r)'
    BY DEF KeysGrow
  <2> QED BY <2>1, <2>2, <2>3
<1>3. CASE j \notin 1..Len(ring)
  <2>1. PICK m \in 1..Len(t) : j = Len(ring) + m
    BY <1>1, <1>3 DEF KeysGrow
  <2> QED BY <2>1 DEF KeysGrow
<1> QED BY <1>2, <1>3

LEMMA FromValue ==
  ASSUME TypeInv
  PROVE  /\ From \in {1, 2} /\ From \in Nat /\ From > 0 /\ Len(ring) \in Nat /\ From <= Len(ring) + 1
         /\ task # "wait" => From = 1
         /\ task = "wait" => From = 2
<1>1. task \in {"idle", "setkey", "wait"} /\ (task = "wait" => ring # <<>>)
  BY DEF TypeInv, StationOK, QueuesOK
<1>2. Len(ring) \in Nat /\ (ring # <<>> => Len(ring) > 0)
  <2>1. Len(ring) \in Nat
    BY LenProperties DEF TypeInv, QueuesOK
  <2>2. ring # <<>> => Len(ring) > 0
    BY RingHead DEF TypeInv, QueuesOK
  <2> QED BY <2>1, <2>2
<1> QED BY <1>1, <1>2 DEF From

LEMMA PairInvStep ==
  ASSUME TypeInv, TypeInv', StationInv, StationInv', GroupFrames, QueueInv, PairInv, [Next]_vars
  PROVE  PairInv'
<1>0. From \in {1, 2} /\ From \in Nat /\ From > 0 /\ Len(ring) \in Nat /\ From <= Len(ring) + 1
  BY FromValue
<1>1. ASSUME UNCHANGED <<nwKeys, failed, ring, From, pairKey, hwPair>>, ~newPtk' => ~newPtk
      PROVE  PairInv'
  BY <1>1 DEF PairInv, PairLast, PairDone, HaveGroup, Dead
<1>2. CASE UNCHANGED station
  BY <1>1, <1>2 DEF station, rsn, keys, firmware, history, From
<1>3. CASE NewStateTask
  <2>1. /\ UNCHANGED <<ring, task, failed, hwPair, pairKey, newPtk>>
        /\ ~HaveGroup' \/ UNCHANGED nwKeys
    BY <1>3, NewStateEffect
  <2> QED BY <1>1, <2>1 DEF PairInv, From
<1>4. CASE BeginSetKeyTask \/ EndSetKeyTask
  <2>1. UNCHANGED <<nwKeys, failed, ring, pairKey, hwPair, newPtk>> /\ task # "wait" /\ task' # "wait"
    BY <1>4 DEF BeginSetKeyTask, EndSetKeyTask, keys, firmware, rsn, history
  <2> QED BY <1>1, <2>1 DEF From
<1>5. CASE SendSetKey
  <2>1. /\ task = "setkey" /\ task' = "wait" /\ ring # <<>> /\ Install(Head(ring))
        /\ UNCHANGED <<pairKey, nwKeys, ring, newPtk, failed>>
    BY <1>5 DEF SendSetKey, rsn, keys, history
  <2>2. From = 1 /\ From' = 2
    BY <2>1 DEF From
  <2>3. Head(ring) = ring[1] /\ ring[1] \in Requests
    BY <2>1, RingFirst
  <2> SUFFICES ASSUME HaveGroup, ~failed PROVE PairLast' \/ PairDone'
    BY <2>1 DEF PairInv, HaveGroup
  <2>4. pairKey # NoKey
    BY DEF StationInv
  <2>5. ~Dead(ring[1]) => hwPair' = IF ring[1] = Pairwise THEN pairKey ELSE hwPair
    BY <2>1, <2>3 DEF Install, Dead, IsGroup
  <2>6. CASE PairLast
    <3>1. PICK i \in 1..Len(ring) :
            ring[i] = Pairwise /\ \A j \in (i + 1)..Len(ring) : ~Dead(ring[j])
      BY <2>2, <2>6 DEF PairLast
    <3>2. CASE i = 1
      <4>1. hwPair' = pairKey
        BY <2>1, <2>3, <3>1, <3>2 DEF Install, IsGroup
      <4>2. \A j \in 2..Len(ring) : ~Dead(ring[j])
        BY <3>1, <3>2
      <4> QED BY <2>1, <2>2, <2>4, <4>1, <4>2 DEF PairDone, Dead
    <3>3. CASE i # 1
      <4>1. i \in 2..Len(ring)
        BY <1>0, <3>3
      <4> QED BY <2>1, <2>2, <3>1, <4>1 DEF PairLast, Dead
    <3> QED BY <3>2, <3>3
  <2>7. CASE PairDone
    <3>1. /\ hwPair # NoKey /\ (~newPtk => hwPair = pairKey)
          /\ \A j \in 1..Len(ring) : ~Dead(ring[j])
      BY <2>2, <2>7 DEF PairDone
    <3>2. ~Dead(ring[1]) /\ \A j \in 2..Len(ring) : ~Dead(ring[j])
      BY <1>0, <2>1, <3>1, RingFirst
    <3> QED BY <2>1, <2>2, <2>4, <2>5, <3>1, <3>2 DEF PairDone, Dead
  <2> QED BY <2>6, <2>7 DEF PairInv
<1>6. CASE SetKeyFails
  BY <1>6 DEF SetKeyFails, PairInv
<1>7. CASE SetKeyDone
  <2>1. /\ task = "wait" /\ task' = "setkey" /\ ring # <<>> /\ ring' = Tail(ring)
        /\ UNCHANGED <<pairKey, nwKeys, newPtk, failed, hwPair>>
    BY <1>7 DEF SetKeyDone, KeyAdded, rsn, history, TypeInv, QueuesOK
  <2>2. From = 2 /\ From' = 1
    BY <2>1 DEF From
  <2>3. /\ Len(ring') \in Nat
        /\ \A i \in 1..Len(ring') : i + 1 \in 2..Len(ring) /\ ring'[i] = ring[i + 1]
        /\ \A i \in 2..Len(ring) : i - 1 \in 1..Len(ring') /\ ring'[i - 1] = ring[i]
    BY <2>1, RingShift
  <2> SUFFICES ASSUME HaveGroup, ~failed PROVE PairLast' \/ PairDone'
    BY <2>1 DEF PairInv, HaveGroup
  <2>4. CASE PairLast
    <3>1. PICK i \in 2..Len(ring) :
            ring[i] = Pairwise /\ \A j \in (i + 1)..Len(ring) : ~Dead(ring[j])
      BY <2>2, <2>4 DEF PairLast
    <3>2. i - 1 \in 1..Len(ring') /\ ring'[i - 1] = Pairwise
      BY <2>3, <3>1
    <3>3. \A j \in ((i - 1) + 1)..Len(ring') : ~Dead(ring[j])'
      <4> SUFFICES ASSUME NEW j \in ((i - 1) + 1)..Len(ring') PROVE ~Dead(ring[j])'
        OBVIOUS
      <4>1. j \in 1..Len(ring') /\ i <= j
        BY <2>3, <3>1
      <4>2. j + 1 \in 2..Len(ring) /\ ring'[j] = ring[j + 1]
        BY <2>3, <4>1
      <4>3. j + 1 \in (i + 1)..Len(ring)
        BY <1>0, <4>1, <4>2
      <4> QED BY <2>1, <3>1, <4>2, <4>3 DEF Dead
    <3> QED BY <2>2, <3>2, <3>3 DEF PairLast
  <2>5. CASE PairDone
    <3>1. \A j \in 1..Len(ring') : ~Dead(ring[j])'
      BY <2>1, <2>2, <2>3, <2>5 DEF PairDone, Dead
    <3> QED BY <2>1, <2>2, <2>5, <3>1 DEF PairDone
  <2> QED BY <2>4, <2>5 DEF PairInv
<1>8. CASE UNCHANGED <<task, firmware>> /\ GetsMsg1(Head(down))
  <2>1. newPtk' /\ UNCHANGED <<nwKeys, failed, ring, task, pairKey, hwPair>>
    BY <1>8 DEF GetsMsg1, RecvMsg1, keys, firmware, history
  <2> QED BY <1>1, <2>1 DEF From
<1>9. CASE UNCHANGED <<task, firmware, newPtk, port, keys, worker, icState, history>>
  BY <1>1, <1>9 DEF keys, firmware, history, From
<1>10. ASSUME NEW t \in Seq(Requests), KeysGrow(t)
       PROVE  PairInv'
  <2> SUFFICES ASSUME HaveGroup', ~failed PROVE PairLast' \/ PairDone'
    BY <1>10 DEF KeysGrow, PairInv
  <2>1. From' = From
    BY <1>10 DEF KeysGrow, From
  <2>2. CASE newPtk /\ ~newPtk'
    <3> DEFINE i == Len(ring) + 1
    <3>1. 1 \in 1..Len(t) /\ t[1] = Pairwise /\ Len(t) \in Nat /\ Len(ring') = Len(ring) + Len(t)
          /\ ring'[Len(ring) + 1] = t[1]
      BY <1>10, <2>2 DEF KeysGrow
    <3>2. i \in From..Len(ring') /\ i + 1 \in Nat /\ i + 1 > 0
      BY <1>0, <3>1
    <3>3. \A j \in (i + 1)..Len(ring) : ~Dead(ring[j])
      BY <1>0
    <3>4. \A j \in (i + 1)..Len(ring') : ~Dead(ring[j])'
      BY <1>10, <3>2, <3>3, GrownRequests
    <3> QED BY <2>1, <3>1, <3>2, <3>4 DEF PairLast
  <2>3. CASE ~(newPtk /\ ~newPtk')
    <3>1. HaveGroup /\ (~newPtk' => ~newPtk /\ pairKey' = pairKey) /\ hwPair' = hwPair
      BY <1>10, <2>3 DEF KeysGrow
    <3>2. CASE PairLast
      <4>1. PICK i \in From..Len(ring) :
              ring[i] = Pairwise /\ \A j \in (i + 1)..Len(ring) : ~Dead(ring[j])
        BY <3>2 DEF PairLast
      <4>2. i \in 1..Len(ring) /\ i + 1 \in Nat /\ i + 1 > 0 /\ i \in From..Len(ring')
        <5>1. Len(t) \in Nat /\ Len(ring') = Len(ring) + Len(t)
          BY <1>10 DEF KeysGrow
        <5> QED BY <1>0, <5>1
      <4>3. ring'[i] = Pairwise
        BY <1>10, <4>1, <4>2 DEF KeysGrow
      <4>4. \A j \in (i + 1)..Len(ring') : ~Dead(ring[j])'
        BY <1>10, <4>1, <4>2, GrownRequests
      <4> QED BY <2>1, <4>2, <4>3, <4>4 DEF PairLast
    <3>3. CASE PairDone
      <4>1. \A j \in From..Len(ring') : ~Dead(ring[j])'
        BY <1>0, <1>10, <3>3, GrownRequests DEF PairDone
      <4> QED BY <2>1, <3>1, <3>3, <4>1 DEF PairDone
    <3> QED BY <3>1, <3>2, <3>3 DEF PairInv
  <2> QED BY <2>2, <2>3
<1>11. CASE (UNCHANGED <<task, firmware>> /\ \E f : RecvDeauth(f)) \/ RecvAssocResp \/ Start
  <2>1. UNCHANGED <<nwKeys, failed, ring, task, pairKey, hwPair, newPtk>>
    BY <1>11 DEF RecvDeauth, RecvAssocResp, Start, rsn, keys, firmware, history
  <2> QED BY <1>1, <2>1 DEF From
<1>12. CASE RecvAuth \/ JoinBss
  <2>1. ~HaveGroup'
    BY <1>12 DEF RecvAuth, JoinBss, StationInv, Low, HaveGroup, keys
  <2> QED BY <2>1 DEF PairInv
<1>13. CASE Stop
  BY <1>13, StopEffect DEF PairInv
<1> QED BY <1>2, <1>3, <1>4, <1>5, <1>6, <1>7, <1>8, <1>9, <1>10, <1>11, <1>12, <1>13, RingSteps

LEMMA FirstInvStep ==
  ASSUME TypeInv, TypeInv', StationInv, StationInv', GroupFrames, QueueInv, PairInv, FirstInv, [Next]_vars
  PROVE  FirstInv'
<1>1. ASSUME UNCHANGED <<nwKeys, failed, ring, hwPair, stopped>>, task' = "wait" => task = "wait"
      PROVE  FirstInv'
  BY <1>1 DEF FirstInv, HaveGroup
<1>2. CASE UNCHANGED station
  BY <1>1, <1>2 DEF station, keys, firmware, history
<1>3. CASE NewStateTask
  <2>1. /\ UNCHANGED <<ring, task, failed, stopped, hwPair>> /\ (~HaveGroup' \/ UNCHANGED nwKeys)
    BY <1>3, NewStateEffect
  <2> QED BY <1>1, <2>1 DEF FirstInv
<1>4. CASE BeginSetKeyTask
  <2>1. UNCHANGED <<nwKeys, failed, ring, hwPair, stopped>> /\ task' # "wait"
    BY <1>4 DEF BeginSetKeyTask, keys, firmware, history
  <2> QED BY <1>1, <2>1
<1>5. CASE EndSetKeyTask
  <2>1. ring = <<>> /\ task = "setkey" /\ UNCHANGED <<nwKeys, failed, ring, hwPair>>
    BY <1>5 DEF EndSetKeyTask, keys, firmware
  <2>2. HaveGroup /\ ~failed => hwPair # NoKey
    <3>1. ~PairLast
      <4>1. From = 1 /\ Len(ring) = 0
        BY <2>1 DEF From
      <4> QED BY <4>1 DEF PairLast
    <3> QED BY <3>1 DEF PairInv, PairDone
  <2> QED BY <2>1, <2>2 DEF FirstInv, HaveGroup
<1>6. CASE SendSetKey
  <2>1. /\ ring # <<>> /\ Install(Head(ring)) /\ UNCHANGED <<icState, pairKey, nwKeys, ring, failed, stopped>>
    BY <1>6 DEF SendSetKey, keys, history
  <2> SUFFICES ASSUME ~stopped, ~failed, HaveGroup PROVE hwPair' # NoKey
    BY <2>1 DEF FirstInv, HaveGroup
  <2>2. Head(ring) = ring[1] /\ 1 \in 1..Len(ring) /\ ring[1] \in Requests
    BY <2>1, RingFirst
  <2>3. icState \in Joined
    BY DEF StationInv, TypeInv, StationOK, Low, Joined
  <2>4. ~Dead(ring[1]) /\ pairKey # NoKey
    BY <2>2, <2>3 DEF QueueInv, StationInv
  <2>5. CASE ring[1] = Pairwise
    BY <2>1, <2>2, <2>4, <2>5 DEF Install, IsGroup
  <2>6. CASE ring[1] # Pairwise
    <3>1. UNCHANGED hwPair
      BY <2>1, <2>2, <2>4, <2>6 DEF Install, IsGroup, Dead
    <3> QED BY <2>6, <3>1 DEF FirstInv
  <2> QED BY <2>5, <2>6
<1>7. CASE SetKeyFails
  BY <1>7 DEF SetKeyFails, FirstInv
<1>8. CASE SetKeyDone
  BY <1>8 DEF SetKeyDone, KeyAdded, history, FirstInv, HaveGroup
<1>9. CASE UNCHANGED <<task, firmware>> /\ GetsMsg1(Head(down))
  BY <1>1, <1>9 DEF GetsMsg1, RecvMsg1, keys, firmware, history
<1>10. CASE UNCHANGED <<task, firmware, newPtk, port, keys, worker, icState, history>>
  BY <1>1, <1>10 DEF keys, firmware, history
<1>11. ASSUME NEW t \in Seq(Requests), KeysGrow(t)
       PROVE  FirstInv'
  <2> SUFFICES ASSUME ~stopped, ~failed, HaveGroup', hwPair = NoKey
               PROVE  task # "wait" /\ ring' # <<>> /\ ring'[1] = Pairwise
    BY <1>11 DEF KeysGrow, FirstInv
  <2>0. Len(<<>>) = 0
    OBVIOUS
  <2>1. CASE HaveGroup
    <3>1. task # "wait" /\ ring # <<>> /\ ring[1] = Pairwise
      BY <2>1 DEF FirstInv
    <3>2. 1 \in 1..Len(ring) /\ Len(ring) \in Nat
      BY <3>1, RingFirst
    <3>3. ring'[1] = ring[1] /\ Len(ring') = Len(ring) + Len(t) /\ Len(t) \in Nat
      BY <1>11, <3>2 DEF KeysGrow
    <3>4. Len(ring') # 0
      BY <3>2, <3>3
    <3> QED BY <2>0, <3>1, <3>3, <3>4
  <2>2. CASE ~HaveGroup
    <3>1. ring = <<>> /\ task # "wait"
      BY <1>11, <2>2 DEF KeysGrow, QueueInv, TypeInv, QueuesOK
    <3>2. 1 \in 1..Len(t) /\ t[1] = Pairwise /\ Len(t) \in Nat /\ Len(ring') = Len(ring) + Len(t)
          /\ \A i \in 1..Len(t) : ring'[Len(ring) + i] = t[i]
      BY <1>11, <2>2 DEF KeysGrow
    <3>3. Len(ring) = 0 /\ 0 + 1 = 1
      BY <3>1
    <3>4. ring'[1] = Pairwise
      BY <3>2, <3>3
    <3>5. Len(ring') # 0
      BY <3>2, <3>3
    <3> QED BY <2>0, <3>1, <3>4, <3>5
  <2> QED BY <2>1, <2>2
<1>12. CASE (UNCHANGED <<task, firmware>> /\ \E f : RecvDeauth(f)) \/ RecvAssocResp \/ Start
  <2>1. UNCHANGED <<nwKeys, failed, ring, task, hwPair, stopped>>
    BY <1>12 DEF RecvDeauth, RecvAssocResp, Start, keys, firmware, history
  <2> QED BY <1>1, <2>1
<1>13. CASE RecvAuth \/ JoinBss
  <2>1. ~HaveGroup'
    BY <1>13 DEF RecvAuth, JoinBss, StationInv, Low, HaveGroup, keys
  <2> QED BY <2>1 DEF FirstInv
<1>14. CASE Stop
  BY <1>14, StopEffect DEF FirstInv
<1> QED BY <1>2, <1>3, <1>4, <1>5, <1>6, <1>7, <1>8, <1>9, <1>10, <1>11, <1>12, <1>13, <1>14, RingSteps

LEMMA GroupInvStep ==
  ASSUME TypeInv, TypeInv', StationInv, StationInv', GroupFrames, GroupInv, [Next]_vars
  PROVE  GroupInv'
<1>0. From \in {1, 2} /\ From \in Nat /\ From > 0 /\ Len(ring) \in Nat
  BY FromValue
<1>1. ASSUME UNCHANGED <<nwKeys, hwGroup, failed, ring, From>>,
             nsState' \in Joined => nsState \in Joined
      PROVE  GroupInv'
  BY <1>1 DEF GroupInv, Awaits
<1>2. CASE UNCHANGED station
  BY <1>1, <1>2 DEF station, worker, keys, firmware, history, From
<1>3. CASE NewStateTask
  <2>1. /\ UNCHANGED <<ring, task, failed, nsState>>
        /\ nsState \in Low \/ (nsState \in Joined /\ UNCHANGED <<nwKeys, hwGroup>>)
    BY <1>3, NewStateEffect
  <2>2. CASE nsState \in Low
    BY <2>1, <2>2 DEF GroupInv, Low, Joined
  <2>3. CASE UNCHANGED <<nwKeys, hwGroup>>
    BY <1>1, <2>1, <2>3 DEF From
  <2> QED BY <2>1, <2>2, <2>3
<1>4. CASE BeginSetKeyTask \/ EndSetKeyTask
  <2>1. UNCHANGED <<nsState, nwKeys, failed, ring, hwGroup>> /\ task # "wait" /\ task' # "wait"
    BY <1>4 DEF BeginSetKeyTask, EndSetKeyTask, keys, firmware, history, worker
  <2> QED BY <1>1, <2>1 DEF From
<1>5. CASE SendSetKey
  <2>1. /\ task = "setkey" /\ task' = "wait" /\ ring # <<>> /\ Install(Head(ring))
        /\ UNCHANGED <<nsState, nwKeys, ring, failed>>
    BY <1>5 DEF SendSetKey, worker, keys, history
  <2>2. From = 1 /\ From' = 2
    BY <2>1 DEF From
  <2>3. Head(ring) = ring[1] /\ ring[1] \in Requests
    BY <2>1, RingFirst
  <2> SUFFICES ASSUME ~failed, nsState \in Joined, NEW k \in Kids, nwKeys[k] # hwGroup'[k]
               PROVE  Awaits(k)'
    BY <2>1 DEF GroupInv
  <2>4. nwKeys[k] # hwGroup[k] /\ ~(ring[1] = k)
    <3>1. hwGroup \in [Kids -> Gtks \cup {NoKey}] /\ k # Pairwise
      BY DEF TypeInv, StationOK, Pairwise, Kids
    <3>2. CASE IsGroup(ring[1])
      <4>1. hwGroup' = [hwGroup EXCEPT ![ring[1]] = nwKeys[ring[1]]] /\ ring[1] \in Kids
        BY <2>1, <2>3, <3>2 DEF Install, IsGroup, Requests
      <4> QED BY <3>1, <4>1
    <3>3. CASE ~IsGroup(ring[1])
      <4>1. hwGroup' = hwGroup
        BY <2>1, <2>3, <3>3 DEF Install
      <4>2. ring[1] = k => nwKeys[k] = NoKey
        BY <3>1, <3>3 DEF IsGroup
      <4>3. nwKeys[k] = NoKey => hwGroup[k] = NoKey
        BY DEF StationInv
      <4> QED BY <4>1, <4>2, <4>3
    <3> QED BY <3>2, <3>3
  <2>5. PICK i \in 1..Len(ring) : ring[i] = k
    BY <2>2, <2>4 DEF GroupInv, Awaits
  <2>6. i \in 2..Len(ring)
    <3>1. i # 1
      BY <2>4, <2>5
    <3> QED BY <1>0, <3>1
  <2> QED BY <2>1, <2>2, <2>5, <2>6 DEF Awaits
<1>6. CASE SetKeyFails
  BY <1>6 DEF SetKeyFails, GroupInv
<1>7. CASE SetKeyDone
  <2>1. /\ task = "wait" /\ task' = "setkey" /\ ring # <<>> /\ ring' = Tail(ring)
        /\ UNCHANGED <<nsState, nwKeys, failed, hwGroup>>
    BY <1>7 DEF SetKeyDone, KeyAdded, worker, history, TypeInv, QueuesOK
  <2>2. From = 2 /\ From' = 1
    BY <2>1 DEF From
  <2>3. \A i \in 2..Len(ring) : i - 1 \in 1..Len(ring') /\ ring'[i - 1] = ring[i]
    BY <2>1, RingShift
  <2> SUFFICES ASSUME ~failed, nsState \in Joined, NEW k \in Kids, nwKeys[k] # hwGroup[k]
               PROVE  Awaits(k)'
    BY <2>1 DEF GroupInv
  <2>4. PICK i \in 2..Len(ring) : ring[i] = k
    BY <2>2 DEF GroupInv, Awaits
  <2>5. i - 1 \in 1..Len(ring') /\ ring'[i - 1] = k
    BY <2>3, <2>4
  <2> QED BY <2>2, <2>5 DEF Awaits
<1>8. CASE UNCHANGED <<task, firmware>> /\ GetsMsg1(Head(down))
  BY <1>1, <1>8 DEF GetsMsg1, RecvMsg1, worker, keys, firmware, history, From
<1>9. CASE UNCHANGED <<task, firmware, newPtk, port, keys, worker, icState, history>>
  BY <1>1, <1>9 DEF keys, worker, firmware, history, From
<1>10. ASSUME NEW t \in Seq(Requests), KeysGrow(t)
       PROVE  GroupInv'
  <2> SUFFICES ASSUME ~failed, nsState' \in Joined, NEW k \in Kids, nwKeys'[k] # hwGroup[k]
               PROVE  Awaits(k)'
    BY <1>10 DEF KeysGrow, GroupInv
  <2>1. nsState \in Joined /\ nsState' # "SCAN"
    BY <1>10 DEF KeysGrow, Joined
  <2>2. From' = From /\ Len(t) \in Nat /\ Len(ring') = Len(ring) + Len(t)
    BY <1>10 DEF KeysGrow, From
  <2>3. CASE nwKeys'[k] # nwKeys[k]
    <3>1. PICK i \in 1..Len(t) : t[i] = k
      BY <1>10, <2>1, <2>3 DEF KeysGrow
    <3>2. ring'[Len(ring) + i] = k
      BY <1>10, <3>1 DEF KeysGrow
    <3>3. Len(ring) + i \in From..Len(ring')
      <4>1. From <= Len(ring) + 1
        BY FromValue
      <4> QED BY <1>0, <2>2, <4>1
    <3> QED BY <2>2, <3>2, <3>3 DEF Awaits
  <2>4. CASE nwKeys'[k] = nwKeys[k]
    <3>1. PICK i \in From..Len(ring) : ring[i] = k
      BY <2>1, <2>4 DEF GroupInv, Awaits
    <3>2. i \in 1..Len(ring) /\ i \in From..Len(ring')
      BY <1>0, <2>2
    <3>3. ring'[i] = k
      BY <1>10, <3>1, <3>2 DEF KeysGrow
    <3> QED BY <2>2, <3>2, <3>3 DEF Awaits
  <2> QED BY <2>3, <2>4
<1>11. CASE UNCHANGED <<task, firmware>> /\ \E f : RecvDeauth(f)
  <2>1. nsState' = "AUTH"
    BY <1>11, RequestType DEF RecvDeauth
  <2> QED BY <2>1 DEF GroupInv, Joined
<1>12. CASE RecvAssocResp
  <2>1. nsState = "ASSOC" /\ UNCHANGED <<nwKeys, hwGroup, failed, ring, task>>
    BY <1>12 DEF RecvAssocResp, keys, firmware, history
  <2> QED BY <1>1, <2>1 DEF From, Joined
<1>13. CASE Start
  <2>1. nsState' = "SCAN"
    BY <1>13, RequestType DEF Start
  <2> QED BY <2>1 DEF GroupInv, Joined
<1>14. CASE RecvAuth
  <2>1. ~HaveGroup /\ UNCHANGED <<nwKeys, hwGroup>>
    BY <1>14 DEF RecvAuth, keys, StationInv, Low
  <2>2. \A k \in Kids : nwKeys[k] = NoKey
    BY <2>1, HaveGroupKey
  <2>3. \A k \in Kids : hwGroup[k] = NoKey
    BY <2>2 DEF StationInv
  <2> QED BY <2>1, <2>2, <2>3 DEF GroupInv
<1>15. CASE JoinBss
  <2>1. nsState' = "AUTH"
    BY <1>15, RequestType DEF JoinBss
  <2> QED BY <2>1 DEF GroupInv, Joined
<1>16. CASE Stop
  BY <1>16, StopEffect DEF GroupInv, Joined
<1> QED BY <1>2, <1>3, <1>4, <1>5, <1>6, <1>7, <1>8, <1>9, <1>10, <1>11, <1>12, <1>13, <1>14, <1>15,
           <1>16, RingSteps

LEMMA LinkStep ==
  ASSUME TypeInv, TypeInv', StationInv, StationInv', GroupFrames, QueueInv, PairInv, FirstInv,
         LinkNeedsPairwiseKey, [Next]_vars
  PROVE  LinkNeedsPairwiseKey'
<1>0. icState = "RUN" => icState \in Joined
  BY DEF Joined
<1>1. ASSUME UNCHANGED <<icState, linkUp, failed, stopped, hwPair>>
      PROVE  LinkNeedsPairwiseKey'
  BY <1>1 DEF LinkNeedsPairwiseKey
<1>2. CASE UNCHANGED station
  BY <1>1, <1>2 DEF station, port, firmware, history
<1>3. CASE NewStateTask
  BY <1>3, NewStateEffect DEF LinkNeedsPairwiseKey
<1>4. CASE BeginSetKeyTask
  BY <1>1, <1>4 DEF BeginSetKeyTask, port, firmware, history
<1>5. CASE EndSetKeyTask
  <2>1. ring = <<>> /\ task = "setkey" /\ UNCHANGED <<icState, linkUp, failed, hwPair>>
    BY <1>5 DEF EndSetKeyTask, port, firmware
  <2>2. HaveGroup /\ ~failed => hwPair # NoKey
    <3>1. ~PairLast
      <4>1. From = 1 /\ Len(ring) = 0
        BY <2>1 DEF From
      <4> QED BY <4>1 DEF PairLast
    <3> QED BY <3>1 DEF PairInv, PairDone
  <2> QED BY <2>1, <2>2 DEF LinkNeedsPairwiseKey, StationInv
<1>6. CASE SendSetKey
  <2>1. /\ ring # <<>> /\ Install(Head(ring)) /\ UNCHANGED <<icState, linkUp, failed, stopped>>
    BY <1>6 DEF SendSetKey, port, history
  <2> SUFFICES ASSUME linkUp, icState = "RUN", ~stopped, ~failed PROVE hwPair' # NoKey
    BY <2>1 DEF LinkNeedsPairwiseKey
  <2>2. Head(ring) = ring[1] /\ 1 \in 1..Len(ring) /\ ring[1] \in Requests
    BY <2>1, RingFirst
  <2>3. ~Dead(ring[1]) /\ pairKey # NoKey
    BY <1>0, <2>2 DEF QueueInv, StationInv
  <2>4. CASE ring[1] = Pairwise
    BY <2>1, <2>2, <2>3, <2>4 DEF Install, IsGroup
  <2>5. CASE ring[1] # Pairwise
    <3>1. UNCHANGED hwPair
      BY <2>1, <2>2, <2>3, <2>5 DEF Install, IsGroup, Dead
    <3> QED BY <3>1 DEF LinkNeedsPairwiseKey
  <2> QED BY <2>4, <2>5
<1>7. CASE SetKeyFails
  BY <1>7 DEF SetKeyFails, LinkNeedsPairwiseKey
<1>8. CASE SetKeyDone
  <2>1. task = "wait" /\ UNCHANGED <<icState, failed, stopped, hwPair, nwKeys>>
    BY <1>8 DEF SetKeyDone, KeyAdded, history
  <2>2. linkUp' /\ icState' = "RUN" => HaveGroup
    BY <2>1 DEF StationInv, HaveGroup
  <2> QED BY <2>1, <2>2 DEF LinkNeedsPairwiseKey, FirstInv
<1>9. CASE UNCHANGED <<task, firmware>> /\ GetsMsg1(Head(down))
  BY <1>1, <1>9 DEF GetsMsg1, RecvMsg1, port, firmware, history
<1>10. CASE UNCHANGED <<task, firmware, newPtk, port, keys, worker, icState, history>>
  BY <1>1, <1>10 DEF port, firmware, history
<1>11. ASSUME NEW t \in Seq(Requests), KeysGrow(t)
       PROVE  LinkNeedsPairwiseKey'
  BY <1>11 DEF KeysGrow, LinkNeedsPairwiseKey
<1>12. CASE (UNCHANGED <<task, firmware>> /\ \E f : RecvDeauth(f)) \/ RecvAssocResp \/ Start
  BY <1>1, <1>12 DEF RecvDeauth, RecvAssocResp, Start, port, firmware, history
<1>13. CASE RecvAuth \/ JoinBss
  BY <1>13 DEF RecvAuth, JoinBss, LinkNeedsPairwiseKey
<1>14. CASE Stop
  BY <1>14, StopEffect DEF LinkNeedsPairwiseKey
<1> QED BY <1>2, <1>3, <1>4, <1>5, <1>6, <1>7, <1>8, <1>9, <1>10, <1>11, <1>12, <1>13, <1>14, RingSteps

\* The inductive invariant of the keys.
KeysInv == TypeInv /\ ApInv /\ GroupFrames /\ StationInv /\ RingInv

LEMMA KeysInit == Init => KeysInv
<1> SUFFICES ASSUME Init PROVE KeysInv
  OBVIOUS
<1>1. ap.phase = "off" /\ ap.key = NoKey /\ down = <<>>
  BY DEF Init
<1>2. ApInv /\ GroupFrames
  BY <1>1 DEF ApInv, GroupFrames
<1>3. ring = <<>> /\ nwKeys = NoGroupKeys /\ hwGroup = NoGroupKeys /\ linkUp = FALSE /\ stopped = FALSE
      /\ nsq = <<>> /\ icState = "ASSOC"
  BY DEF Init
<1>4. \A i \in 1..Len(ring) : FALSE
  BY <1>3
<1>5. RingInv
  BY <1>3, <1>4 DEF RingInv, QueueInv, PairInv, FirstInv, GroupInv, LinkNeedsPairwiseKey, HaveGroup, Low
<1> QED BY <1>2, <1>5, TypeInit, StationInit DEF KeysInv

LEMMA KeysStep == KeysInv /\ [Next]_vars => KeysInv'
<1> SUFFICES ASSUME KeysInv, [Next]_vars PROVE KeysInv'
  OBVIOUS
<1>1. TypeInv /\ ApInv /\ GroupFrames /\ StationInv /\ QueueInv /\ PairInv /\ FirstInv /\ GroupInv
      /\ LinkNeedsPairwiseKey
  BY DEF KeysInv, RingInv
<1>2. TypeInv'
  BY <1>1, TypeStep
<1>3. ApInv' /\ GroupFrames'
  BY <1>1, <1>2, ApKeysStep
<1>4. StationInv'
  BY <1>1, StationStep
<1>5. QueueInv'
  BY <1>1, <1>2, QueueInvStep
<1>6. PairInv' /\ FirstInv' /\ LinkNeedsPairwiseKey'
  BY <1>1, <1>2, <1>4, PairInvStep, FirstInvStep, LinkStep
<1>7. GroupInv'
  BY <1>1, <1>2, <1>4, GroupInvStep
<1> QED BY <1>2, <1>3, <1>4, <1>5, <1>6, <1>7 DEF KeysInv, RingInv

LEMMA KeysInvAlways == Spec => []KeysInv
BY KeysInit, KeysStep, PTL DEF Spec

\* The link is up only while the firmware has the pairwise key, if no key failed
\* and no request is left from before a mwx_stop.
THEOREM LinkHasPairwiseKey == Spec => []LinkNeedsPairwiseKey
<1>1. KeysInv => LinkNeedsPairwiseKey
  BY DEF KeysInv, RingInv
<1> QED BY <1>1, KeysInvAlways, PTL

LEMMA SettledKeys == KeysInv => KeysSettle
<1> SUFFICES ASSUME KeysInv, icState = "RUN", nsState = "RUN", supp = "PTKDONE", ~newPtk,
                    ring = <<>>, task = "idle", ~failed
             PROVE  hwPair = pairKey /\ hwGroup = nwKeys
  BY DEF KeysSettle
<1>1. HaveGroup
  BY DEF KeysInv, StationInv, Accepted, Negotiated
<1>2. From = 1 /\ Len(ring) = 0
  BY DEF From
<1>3. ~PairLast
  BY <1>2 DEF PairLast
<1>4. hwPair = pairKey
  BY <1>1, <1>3 DEF KeysInv, RingInv, PairInv, PairDone
<1>5. \A k \in Kids : ~Awaits(k)
  BY <1>2 DEF Awaits
<1>6. \A k \in Kids : nwKeys[k] = hwGroup[k]
  BY <1>5 DEF KeysInv, RingInv, GroupInv, Joined
<1>7. nwKeys \in [Kids -> Gtks \cup {NoKey}] /\ hwGroup \in [Kids -> Gtks \cup {NoKey}]
  BY DEF KeysInv, TypeInv, StationOK
<1> QED BY <1>4, <1>6, <1>7

\* When the requests are served, the firmware has the keys of the supplicant.
THEOREM KeysSettleInFirmware == Spec => []KeysSettle
BY SettledKeys, KeysInvAlways, PTL

----------------------------------------------------------------------------
\* The order of handshakes: a message of a handshake is never behind one of the
\* next, so that a key the supplicant has accepted is the access point's latest.

KeyMsg(f) == f.msg \in {"msg1", "msg3"}
\* The handshakes of the messages 2 that are not yet sent.
UpRounds == {up[i].ptk[1] : i \in {j \in 1..Len(up) : up[j].msg = "msg2"}}

\* No message 1 that is sent from now on, or on its way, gives the key p again.
OldKey(p) ==
  /\ p[1] <= ap.round
  /\ ap.phase = "msg1" => p[1] < ap.round
  /\ \A i \in 1..Len(down) : down[i].msg = "msg1" => p[1] < down[i].ptk[1]
\* The keys that were given or accepted are old.
OldInv == (\A p \in given : OldKey(p)) /\ (pairKey # NoKey => OldKey(pairKey))

\* p is the key of the last handshake that came as far as message 2.
Latest(p) ==
  \/ ap.phase = "off"
  \/ ap.phase = "msg1" /\ ap.key = p
  \/ ap.phase \in {"msg3", "done", "group"} /\ ap.ptk = p

\* The messages on their way to the station.
DownRounds == \A i \in 1..Len(down) : KeyMsg(down[i]) => down[i].ptk[1] <= ap.round
DownSorted ==
  \A i, j \in 1..Len(down) :
    i < j /\ KeyMsg(down[i]) /\ KeyMsg(down[j]) => down[i].ptk[1] <= down[j].ptk[1]
Msg3Inv ==
  \A i \in 1..Len(down) : down[i].msg = "msg3" =>
    /\ down[i].key = NoKey \/ down[i].key[1] < down[i].ptk[1]
    /\ Latest(down[i].ptk)
    /\ ap.phase = "msg1" => down[i].ptk[1] < ap.round
Msg1Inv ==
  \A i, j \in 1..Len(down) : i < j /\ down[i].msg = "msg3" /\ down[j].msg = "msg1" =>
    down[j].key = down[i].ptk /\ down[i].ptk[1] < down[j].ptk[1]
DownInv == DownRounds /\ DownSorted /\ Msg3Inv /\ Msg1Inv

\* The messages 2 of the station.
UpOrder ==
  \A r \in UpRounds :
    /\ r <= ap.round
    /\ \A j \in 1..Len(down) : KeyMsg(down[j]) => r <= down[j].ptk[1]
    /\ Accepted => r <= pairKey[1]
LatestInv ==
  Accepted => /\ Latest(pairKey)
              /\ \A i \in 1..Len(down) : down[i].msg = "msg1" => down[i].key = pairKey
OrderInv == OldInv /\ DownInv /\ UpOrder /\ LatestInv

LEMMA RoundTypes ==
  /\ \A p \in Ptks : p[1] \in Nat
  /\ \A f \in DownFrames : /\ KeyMsg(f) => f.ptk[1] \in Nat
                           /\ f.msg = "msg3" => f.ptk \in Ptks
                           /\ f.key \in Ptks \cup {NoKey}
<1>1. \A p \in Ptks : p[1] \in Nat
  BY BoundTypes DEF Ptks
<1>2. \A p \in (1..MaxRounds) \X (0..MaxReplay) : p[1] \in Nat
  BY BoundTypes
<1> QED BY <1>1, <1>2 DEF DownFrames, KeyMsg, KeyOrNone

LEMMA OrderTypes ==
  ASSUME TypeInv
  PROVE  /\ UpRounds \subseteq Nat /\ ap.round \in Nat
         /\ \A i \in 1..Len(down) : down[i] \in DownFrames
         /\ given \subseteq Ptks /\ pairKey \in Ptks \cup {NoKey} /\ NoKey \notin Ptks
<1>1. ap.round \in Nat
  <2>1. ap.round \in 0..MaxRounds
    BY DEF TypeInv, ApOK, ApStates
  <2> QED BY <2>1, BoundTypes
<1>2. \A i \in 1..Len(up) : up[i].ptk \in Ptks
  <2>1. \A i \in 1..Len(up) : up[i] \in UpFrames
    BY DEF TypeInv, QueuesOK
  <2> QED BY <2>1 DEF UpFrames
<1>3. UpRounds \subseteq Nat
  BY <1>2, RoundTypes DEF UpRounds
<1>4. \A i \in 1..Len(down) : down[i] \in DownFrames
  BY DEF TypeInv, ApOK
<1>5. given \subseteq Ptks /\ pairKey \in Ptks \cup {NoKey} /\ NoKey \notin Ptks
  BY NoKeyAssumption DEF TypeInv, StationOK, KeyOrNone
<1> QED BY <1>1, <1>3, <1>4, <1>5

\* What the access point sends belongs to its current handshake, and a new one
\* begins when it has the key of the last.
LEMMA ApMoveSends ==
  ASSUME TypeInv, ApInv, ApMove
  PROVE  /\ ap'.round \in Nat /\ ap.round <= ap'.round
         /\ ap'.phase = "msg1" =>
              \/ ap.phase = "msg1" /\ ap'.round = ap.round /\ ap'.key = ap.key
              \/ ap.phase = "done" /\ ap'.round = ap.round + 1 /\ ap'.key = ap.ptk
         /\ ap'.phase \in {"msg3", "done", "group"} =>
              \/ ap.phase \in {"msg3", "done", "group"} /\ ap'.ptk = ap.ptk /\ ap'.round = ap.round
              \/ ap.phase = "msg1" /\ ap'.round = ap.round /\ ap.round \in UpRounds
         /\ \/ UNCHANGED down
            \/ \E g \in DownFrames :
                 /\ down' = Append(down, g)
                 /\ KeyMsg(g) => /\ g.msg = ap'.phase /\ g.ptk = ap'.ptk /\ g.ptk[1] = ap'.round
                                 /\ g.key = ap'.key
                 /\ g.msg = "msg3" => g.key = NoKey \/ g.key[1] < g.ptk[1]
<1>0. ap.round \in Nat /\ ap.round + 1 \in Nat /\ ap.round <= ap.round /\ ap.round <= ap.round + 1
  BY OrderTypes
<1>1. CASE UNCHANGED <<ap, down>>
  <2>1. ap'.phase \in {"off", "msg1", "msg3", "done", "group"}
    BY <1>1 DEF TypeInv, ApOK, ApStates
  <2> QED BY <1>0, <1>1
<1>2. CASE Resends
  <2>1. PICK g \in DownFrames : g.msg = ap.phase /\ g.ptk = ap.ptk /\ g.key = ap.key /\ down' = Append(down, g)
    BY <1>2 DEF Resends, Sent
  <2>2. ap'.phase = ap.phase /\ ap'.round = ap.round /\ ap'.ptk = ap.ptk /\ ap'.key = ap.key
    BY <1>2 DEF Resends, SameRound
  <2>3. KeyMsg(g) => g.ptk[1] = ap'.round
    BY <2>1, <2>2 DEF ApInv, KeyMsg
  <2>4. g.msg = "msg3" => g.key = NoKey \/ g.key[1] < g.ptk[1]
    BY <2>1, <2>2, <2>3 DEF ApInv, KeyMsg
  <2> QED BY <1>0, <2>1, <2>2, <2>3, <2>4
<1>3. CASE Leaves
  <2>1. PICK g \in DownFrames : g.msg = "deauth" /\ down' = Append(down, g)
    BY <1>3 DEF Leaves, Sent
  <2>2. ~KeyMsg(g) /\ g.msg # "msg3"
    BY <2>1 DEF KeyMsg
  <2> QED BY <1>0, <1>3, <2>1, <2>2 DEF Leaves
<1>4. CASE SendsGroupKey
  <2>1. PICK g \in DownFrames : g.msg = "group" /\ down' = Append(down, g)
    BY <1>4 DEF SendsGroupKey, Sent
  <2>2. ~KeyMsg(g) /\ g.msg # "msg3"
    BY <2>1 DEF KeyMsg
  <2> QED BY <1>0, <1>4, <2>1, <2>2 DEF SendsGroupKey, SameRound
<1>5. CASE Rekeys
  <2>1. PICK g \in DownFrames : g.msg = "msg1" /\ g.ptk = <<ap.round + 1, 0>> /\ g.key = ap.key
                                  /\ down' = Append(down, g)
    BY <1>5 DEF Rekeys, Sent
  <2>2. ap.phase = "done" /\ ap'.phase = "msg1" /\ ap'.round = ap.round + 1 /\ ap'.key = ap.key
        /\ ap'.ptk = <<ap.round + 1, 0>> /\ ap.key = ap.ptk
    BY <1>5 DEF Rekeys, ApInv
  <2>3. g.ptk[1] = ap'.round
    BY <2>1, <2>2
  <2> QED BY <1>0, <2>1, <2>2, <2>3
<1>6. CASE TakesMsg2
  <2>1. PICK g \in DownFrames : g.msg = "msg3" /\ g.ptk = Head(up).ptk /\ g.key = ap.key
                                  /\ down' = Append(down, g)
    BY <1>6 DEF TakesMsg2, Sent
  <2>2. ap.phase = "msg1" /\ ap'.phase = "msg3" /\ ap'.round = ap.round /\ ap'.key = ap.key
        /\ ap'.ptk = Head(up).ptk /\ Head(up).ptk[1] = ap.round
    BY <1>6 DEF TakesMsg2
  <2>3. ap.round \in UpRounds
    <3>1. up \in Seq(UpFrames)
      BY DEF TypeInv, QueuesOK
    <3>2. Head(up) = up[1] /\ 1 \in 1..Len(up)
      BY <1>6, <3>1 DEF TakesMsg2
    <3> QED BY <1>6, <3>2 DEF TakesMsg2, UpRounds
  <2>4. g.key = NoKey \/ g.key[1] < g.ptk[1]
    BY <2>1, <2>2 DEF ApInv
  <2> QED BY <1>0, <2>1, <2>2, <2>3, <2>4
<1>7. CASE TakesMsg4
  BY <1>0, <1>7 DEF TakesMsg4
<1>8. CASE TakesGroupMsg2
  BY <1>0, <1>8 DEF TakesGroupMsg2, SameRound
<1> QED BY <1>1, <1>2, <1>3, <1>4, <1>5, <1>6, <1>7, <1>8 DEF ApMove

\* Every step, as the frames on their way see it.
LEMMA FrameSteps ==
  ASSUME TypeInv, [Next]_vars
  PROVE  \/ UNCHANGED ap /\ (UNCHANGED down \/ (down # <<>> /\ down' = Tail(down)))
         \/ ApMove /\ UNCHANGED station
         \/ RecvAuth /\ ap'.phase = "off" /\ ap'.round = ap.round /\ UNCHANGED down /\ down = <<>>
         \/ RecvAssocResp
<1>1. CASE UNCHANGED vars \/ Lose \/ Receive
  BY <1>1, ReceiveSteps DEF vars, Lose
<1>2. CASE AccessPoint \/ Transmit
  BY <1>2, ApMoves
<1>3. CASE RecvAuth
  BY <1>3 DEF RecvAuth, TypeInv, ApOK, ApStates
<1>4. CASE Worker \/ JoinBss \/ Stop \/ Start
  BY <1>4 DEF Worker, NewStateTask, BeginSetKeyTask, SendSetKey, SetKeyFails, SetKeyDone, KeyAdded,
              EndSetKeyTask, JoinBss, Stop, Start
<1> QED BY <1>1, <1>2, <1>3, <1>4 DEF Next

LEMMA UpTail ==
  ASSUME TypeInv, up # <<>>, up' = Tail(up)
  PROVE  UpRounds' \subseteq UpRounds
<1>1. /\ Len(up) \in Nat /\ Len(up') = Len(up) - 1 /\ Len(up) > 0
      /\ \A i \in 1..(Len(up) - 1) : up'[i] = up[i + 1]
  BY RingHead DEF TypeInv, QueuesOK
<1>2. \A i \in 1..Len(up') : i + 1 \in 1..Len(up) /\ up'[i] = up[i + 1]
  BY <1>1
<1> QED BY <1>2 DEF UpRounds

LEMMA UpAnswer ==
  ASSUME TypeInv, NEW msg, NEW f, NEW p, Answer(msg, f, p)
  PROVE  /\ msg # "msg2" => UpRounds' \subseteq UpRounds
         /\ UpRounds' \subseteq UpRounds \cup {p[1]}
<1>1. PICK u : up' = Append(up, u) /\ u.msg = msg /\ u.ptk = p
  BY DEF Answer
<1>2. /\ Len(up) \in Nat /\ Len(up') = Len(up) + 1
      /\ \A i \in 1..Len(up) : up'[i] = up[i]
      /\ up'[Len(up) + 1] = u
  BY <1>1, AppendAny DEF TypeInv, QueuesOK
<1>3. \A i \in 1..Len(up') : i \in 1..Len(up) \/ i = Len(up) + 1
  BY <1>2
<1> QED BY <1>1, <1>2, <1>3 DEF UpRounds

LEMMA UpProtected ==
  ASSUME TypeInv, NewStateTask
  PROVE  UpRounds' \subseteq UpRounds
<1>1. \/ up' = up
      \/ up' = [i \in DOMAIN up |-> IF up[i].prot # "wait" THEN up[i]
                  ELSE [up[i] EXCEPT !.prot = IF txProt THEN "yes" ELSE "no"]]
  BY DEF NewStateTask
<1>2. up \in Seq(UpFrames) /\ up' \in Seq(UpFrames) /\ DOMAIN up = 1..Len(up)
  BY TypeStep DEF TypeInv, QueuesOK, Next, Worker
<1>3. DOMAIN up' = DOMAIN up /\ DOMAIN up' = 1..Len(up')
  BY <1>1, <1>2
<1>4. \A i \in 1..Len(up) : up[i] \in UpFrames
  BY <1>2
<1>5. \A i \in 1..Len(up') : i \in 1..Len(up) /\ up'[i].msg = up[i].msg /\ up'[i].ptk = up[i].ptk
  <2> SUFFICES ASSUME NEW i \in 1..Len(up')
               PROVE  i \in 1..Len(up) /\ up'[i].msg = up[i].msg /\ up'[i].ptk = up[i].ptk
    OBVIOUS
  <2>1. i \in DOMAIN up /\ i \in 1..Len(up) /\ up[i] \in UpFrames
    BY <1>2, <1>3, <1>4
  <2>2. up'[i] = up[i] \/ \E x : up'[i] = [up[i] EXCEPT !.prot = x]
    BY <1>1, <2>1
  <2> QED BY <2>1, <2>2 DEF UpFrames
<1> QED BY <1>5 DEF UpRounds

LEMMA UpSteps ==
  ASSUME TypeInv, [Next]_vars
  PROVE  \/ UpRounds' \subseteq UpRounds
         \/ /\ UNCHANGED ap /\ down # <<>> /\ down' = Tail(down) /\ Head(down) \in DownFrames
            /\ GetsMsg1(Head(down)) /\ UpRounds' \subseteq UpRounds \cup {Head(down).ptk[1]}
<1>0. UNCHANGED up => UpRounds' \subseteq UpRounds
  BY DEF UpRounds
<1>1. CASE UNCHANGED vars \/ Lose \/ RecvAuth \/ RecvAssocResp \/ JoinBss \/ Stop \/ Start
  BY <1>0, <1>1 DEF vars, Lose, RecvAuth, RecvAssocResp, JoinBss, Stop, Start
<1>2. CASE AccessPoint \/ Transmit
  BY <1>0, <1>2, ApMoves, UpTail
<1>3. CASE Worker
  <2>1. CASE NewStateTask
    BY <2>1, UpProtected
  <2>2. CASE BeginSetKeyTask \/ SendSetKey \/ SetKeyFails \/ SetKeyDone \/ EndSetKeyTask
    BY <1>0, <2>2 DEF BeginSetKeyTask, SendSetKey, SetKeyFails, SetKeyDone, KeyAdded, EndSetKeyTask
  <2> QED BY <1>3, <2>1, <2>2 DEF Worker
<1>4. CASE Receive
  <2> DEFINE f == Head(down)
  <2>1. /\ UNCHANGED ap /\ down # <<>> /\ down' = Tail(down) /\ f \in DownFrames
        /\ GetsMsg1(f) \/ GetsMsg3(f) \/ GetsGroupMsg1(f) \/ RecvDeauth(f) \/ UNCHANGED up
    BY <1>4, ReceiveSteps
  <2> HIDE DEF f
  <2>2. CASE GetsMsg1(f)
    <3>1. UNCHANGED up \/ Answer("msg2", f, <<f.ptk[1], f.replay>>)
      BY <2>2 DEF GetsMsg1, RecvMsg1
    <3>2. UpRounds' \subseteq UpRounds \cup {<<f.ptk[1], f.replay>>[1]}
      BY <1>0, <3>1, UpAnswer
    <3> QED BY <2>1, <2>2, <3>2 DEF f
  <2>3. CASE GetsMsg3(f)
    <3>1. UNCHANGED up \/ Answer("msg4", f, f.ptk)
      BY <2>3 DEF GetsMsg3, Msg3Keys
    <3> QED BY <1>0, <3>1, UpAnswer
  <2>4. CASE GetsGroupMsg1(f)
    <3>1. UNCHANGED up \/ Answer("gmsg2", f, ptk)
      BY <2>4 DEF GetsGroupMsg1, GroupKeys
    <3> QED BY <1>0, <3>1, UpAnswer
  <2>5. CASE RecvDeauth(f)
    BY <1>0, <2>5 DEF RecvDeauth
  <2> QED BY <1>0, <2>1, <2>2, <2>3, <2>4, <2>5
<1> QED BY <1>1, <1>2, <1>3, <1>4 DEF Next

\* A pairwise key is given to the firmware when the supplicant has it, and it
\* gets one by message 3 only.
LEMMA KeySteps ==
  ASSUME TypeInv, StationInv, [Next]_vars
  PROVE  /\ given' \subseteq given \cup ({pairKey} \ {NoKey})
         /\ \/ pairKey' \in {pairKey, NoKey} /\ (Accepted' => Accepted /\ pairKey' = pairKey)
            \/ /\ UNCHANGED <<ap, given>> /\ down # <<>> /\ down' = Tail(down)
               /\ Head(down).msg = "msg3" /\ pairKey' = Head(down).ptk
         /\ RecvAuth \/ RecvAssocResp => ~Accepted' /\ UNCHANGED <<given, pairKey>>
<1> DEFINE Grows == /\ given' \subseteq given \cup ({pairKey} \ {NoKey})
                    /\ \/ pairKey' \in {pairKey, NoKey} /\ (Accepted' => Accepted /\ pairKey' = pairKey)
                       \/ /\ UNCHANGED <<ap, given>> /\ down # <<>> /\ down' = Tail(down)
                          /\ Head(down).msg = "msg3" /\ pairKey' = Head(down).ptk
<1>0. RecvAuth \/ RecvAssocResp => ~Accepted' /\ UNCHANGED <<given, pairKey>>
  <2>1. RecvAuth => supp = "INITIALIZE" /\ UNCHANGED <<supp, given, pairKey>>
    BY DEF RecvAuth, StationInv, Low, keys
  <2>2. RecvAssocResp => supp' = "PTKSTART" /\ UNCHANGED <<given, pairKey>>
    BY DEF RecvAssocResp, firmware, keys
  <2> QED BY <2>1, <2>2 DEF Accepted, Negotiated
<1> SUFFICES ASSUME TRUE PROVE Grows
  BY <1>0
<1>a. supp' = supp /\ newPtk' = newPtk => (Accepted' => Accepted)
  BY DEF Accepted, Negotiated
<1>b. supp' = "INITIALIZE" => ~Accepted'
  BY DEF Accepted, Negotiated
<1>1. CASE UNCHANGED station
  <2>1. UNCHANGED <<supp, newPtk, given, pairKey>>
    BY <1>1 DEF station, rsn, keys, firmware
  <2> QED BY <1>a, <2>1
<1>2. CASE NewStateTask
  <2>1. UNCHANGED <<given, pairKey, newPtk>> /\ (supp' = "INITIALIZE" \/ supp' = supp)
    BY <1>2, NewStateEffect
  <2> QED BY <1>a, <1>b, <2>1
<1>3. CASE BeginSetKeyTask \/ SetKeyDone \/ EndSetKeyTask \/ Start
  <2>1. UNCHANGED <<supp, newPtk, given, pairKey>>
    BY <1>3 DEF BeginSetKeyTask, SetKeyDone, KeyAdded, EndSetKeyTask, Start, rsn, keys, firmware
  <2> QED BY <1>a, <2>1
<1>4. CASE SendSetKey \/ SetKeyFails
  <2>1. given' \subseteq given \cup ({pairKey} \ {NoKey})
    BY <1>4 DEF SendSetKey, SetKeyFails, Install
  <2>2. UNCHANGED <<supp, newPtk, pairKey>>
    BY <1>4 DEF SendSetKey, SetKeyFails, rsn, keys
  <2> QED BY <1>a, <2>1, <2>2
<1>5. CASE /\ UNCHANGED <<task, firmware>> /\ down # <<>> /\ down' = Tail(down) /\ UNCHANGED ap
           /\ \/ GetsMsg1(Head(down)) \/ GetsMsg3(Head(down)) \/ GetsGroupMsg1(Head(down))
              \/ RecvDeauth(Head(down))
  <2>1. UNCHANGED given
    BY <1>5 DEF firmware
  <2>2. CASE GetsMsg1(Head(down))
    <3>1. newPtk' = TRUE /\ pairKey' = pairKey
      BY <2>2 DEF GetsMsg1, RecvMsg1, keys
    <3> QED BY <2>1, <3>1 DEF Accepted
  <2>3. CASE GetsMsg3(Head(down))
    <3>1. Negotiated /\ Head(down).msg = "msg3"
      BY <2>3 DEF GetsMsg3, TakesMsg3, Negotiated
    <3>2. \/ UNCHANGED <<newPtk, pairKey>>
          \/ pairKey' = Head(down).ptk
          \/ ~newPtk /\ pairKey' = pairKey
      BY <2>3 DEF GetsMsg3, Msg3Keys, keys
    <3>3. UNCHANGED newPtk => (Accepted' => Accepted)
      BY <3>1 DEF Accepted
    <3>4. ~newPtk => Accepted
      BY <3>1 DEF Accepted
    <3> QED BY <1>5, <2>1, <3>1, <3>2, <3>3, <3>4
  <2>4. CASE GetsGroupMsg1(Head(down)) \/ RecvDeauth(Head(down))
    <3>1. UNCHANGED <<supp, newPtk, pairKey>>
      BY <2>4 DEF GetsGroupMsg1, RecvDeauth, rsn, keys
    <3> QED BY <1>a, <2>1, <3>1
  <2> QED BY <1>5, <2>2, <2>3, <2>4
<1>6. CASE RecvAuth \/ RecvAssocResp
  BY <1>0, <1>6
<1>7. CASE JoinBss
  <2>1. supp' = "INITIALIZE" /\ UNCHANGED given /\ pairKey' = NoKey
    BY <1>7 DEF JoinBss, StationInv, Low, firmware
  <2> QED BY <1>b, <2>1
<1>8. CASE Stop
  <2>1. supp' = "INITIALIZE" /\ UNCHANGED <<given, pairKey>>
    BY <1>8, StopEffect
  <2> QED BY <1>b, <2>1
<1> HIDE DEF Grows
<1> QED BY <1>1, <1>2, <1>3, <1>4, <1>5, <1>6, <1>7, <1>8, StationSteps

LEMMA OldKeyStep ==
  ASSUME TypeInv, ApInv, NEW p \in Ptks, OldKey(p), [Next]_vars
  PROVE  OldKey(p)'
<1>0. p[1] \in Nat /\ ap.round \in Nat
  BY RoundTypes, OrderTypes
<1>1. CASE UNCHANGED ap /\ (UNCHANGED down \/ (down # <<>> /\ down' = Tail(down)))
  BY <1>1, DownTail DEF OldKey
<1>2. CASE ApMove
  <2>1. /\ ap'.round \in Nat /\ ap.round <= ap'.round
        /\ ap'.phase = "msg1" => (ap.phase = "msg1" /\ ap'.round = ap.round) \/ ap'.round = ap.round + 1
    BY <1>2, ApMoveSends
  <2>2. p[1] <= ap'.round /\ (ap'.phase = "msg1" => p[1] < ap'.round)
    BY <1>0, <2>1 DEF OldKey
  <2>3. CASE UNCHANGED down
    BY <2>2, <2>3 DEF OldKey
  <2>4. ASSUME NEW g \in DownFrames, down' = Append(down, g),
               KeyMsg(g) => g.msg = ap'.phase /\ g.ptk[1] = ap'.round
        PROVE  OldKey(p)'
    <3>1. g.msg = "msg1" => p[1] < g.ptk[1]
      BY <2>2, <2>4 DEF KeyMsg
    <3> QED BY <2>2, <2>4, <3>1, DownAppend DEF OldKey
  <2> QED BY <1>2, <2>3, <2>4, ApMoveSends
<1>3. CASE RecvAuth /\ ap'.phase = "off" /\ ap'.round = ap.round /\ UNCHANGED down
  BY <1>3 DEF OldKey
<1>4. CASE RecvAssocResp
  <2>1. ap'.round = ap.round + 1 /\ Sent("msg1", <<ap.round + 1, 0>>, NoKey)
    BY <1>4, AssocFrame
  <2>2. PICK g \in DownFrames : g.ptk = <<ap.round + 1, 0>> /\ down' = Append(down, g)
    BY <2>1 DEF Sent
  <2>3. p[1] <= ap.round + 1 /\ p[1] < ap.round + 1 /\ g.ptk[1] = ap.round + 1
    BY <1>0, <2>2 DEF OldKey
  <2> QED BY <2>1, <2>2, <2>3, DownAppend DEF OldKey
<1> QED BY <1>1, <1>2, <1>3, <1>4, FrameSteps

LEMMA LatestStep ==
  ASSUME TypeInv, ApInv, NEW p \in Ptks, Latest(p), ap.phase = "msg1" => p[1] < ap.round,
         \A r \in UpRounds : r <= p[1], ApMove
  PROVE  Latest(p)'
<1>0. p[1] \in Nat /\ ap.round \in Nat
  BY RoundTypes, OrderTypes
<1>1. ap.phase = "msg1" => ap.round \notin UpRounds
  BY <1>0
<1>2. ap'.phase = "off" => Latest(p)'
  BY DEF Latest
<1>3. ap'.phase = "msg1" => Latest(p)'
  BY ApMoveSends DEF Latest
<1>4. ap'.phase \in {"msg3", "done", "group"} => Latest(p)'
  BY <1>1, ApMoveSends DEF Latest
<1>5. ap'.phase \in {"off", "msg1", "msg3", "done", "group"}
  BY TypeStep DEF TypeInv, ApOK, ApStates, ApMove, Leaves, Resends, SendsGroupKey, Rekeys,
     TakesMsg2, TakesMsg4, TakesGroupMsg2
<1> QED BY <1>2, <1>3, <1>4, <1>5

\* Message 3 at the head of the queue.
LEMMA Msg3Accepted ==
  ASSUME TypeInv, DownInv, UNCHANGED ap, down # <<>>, down' = Tail(down), Head(down).msg = "msg3",
         NEW p, Head(down).ptk = p
  PROVE  /\ p \in Ptks /\ OldKey(p)' /\ Latest(p)'
         /\ \A i \in 1..Len(down') : down'[i].msg = "msg1" => down'[i].key = p
<1>1. /\ Len(down) \in Nat /\ 1 \in 1..Len(down) /\ Head(down) = down[1] /\ Len(down') \in Nat
      /\ \A i \in 1..Len(down') : i + 1 \in 1..Len(down) /\ 1 < i + 1 /\ down'[i] = down[i + 1]
  BY DownTail
<1>2. p \in Ptks
  BY <1>1, OrderTypes, RoundTypes
<1>3. KeyMsg(down[1])
  BY <1>1 DEF KeyMsg
<1>4. p[1] <= ap.round /\ (ap.phase = "msg1" => p[1] < ap.round) /\ Latest(p)
  BY <1>1, <1>3 DEF DownInv, DownRounds, Msg3Inv
<1>5. \A i \in 1..Len(down') : down'[i].msg = "msg1" => down'[i].key = p /\ p[1] < down'[i].ptk[1]
  BY <1>1 DEF DownInv, Msg1Inv
<1>6. OldKey(p)' /\ Latest(p)'
  BY <1>4, <1>5 DEF OldKey, Latest
<1> QED BY <1>2, <1>5, <1>6

LEMMA DownInvStep ==
  ASSUME TypeInv, ApInv, DownInv, UpOrder, [Next]_vars
  PROVE  DownInv'
<1>0. /\ ap.round \in Nat
      /\ \A i \in 1..Len(down) : /\ down[i] \in DownFrames
                                 /\ KeyMsg(down[i]) => down[i].ptk[1] \in Nat
                                 /\ down[i].msg = "msg3" => KeyMsg(down[i]) /\ down[i].ptk \in Ptks
  BY RoundTypes, OrderTypes DEF KeyMsg
<1>1. CASE UNCHANGED <<ap, down>>
  BY <1>1 DEF DownInv, DownRounds, DownSorted, Msg3Inv, Msg1Inv, Latest
<1>2. CASE UNCHANGED ap /\ down # <<>> /\ down' = Tail(down)
  <2>1. /\ Len(down) \in Nat /\ Len(down') \in Nat
        /\ \A i \in 1..Len(down') : i + 1 \in 1..Len(down) /\ down'[i] = down[i + 1]
    BY <1>2, DownTail
  <2>2. \A i, j \in 1..Len(down') : i < j => i + 1 < j + 1
    BY <2>1
  <2> QED BY <1>2, <2>1, <2>2 DEF DownInv, DownRounds, DownSorted, Msg3Inv, Msg1Inv, Latest
<1>3. CASE ApMove
  <2>1. /\ ap'.round \in Nat /\ ap.round <= ap'.round
        /\ ap'.phase = "msg1" =>
             \/ ap.phase = "msg1" /\ ap'.round = ap.round /\ ap'.key = ap.key
             \/ ap.phase = "done" /\ ap'.round = ap.round + 1 /\ ap'.key = ap.ptk
    BY <1>3, ApMoveSends
  \* the messages that were on their way
  <2>2. \A i \in 1..Len(down) : KeyMsg(down[i]) => down[i].ptk[1] <= ap'.round
    BY <1>0, <2>1 DEF DownInv, DownRounds
  <2>3. ASSUME NEW i \in 1..Len(down), down[i].msg = "msg3", NEW p, down[i].ptk = p
        PROVE  /\ Latest(p)' /\ (ap'.phase = "msg1" => p[1] < ap'.round)
               /\ ap'.phase = "msg1" => ap'.key = p
    <3>1. /\ p \in Ptks /\ p[1] \in Nat /\ Latest(p) /\ (ap.phase = "msg1" => p[1] < ap.round)
          /\ KeyMsg(down[i]) /\ p[1] <= ap.round
      BY <1>0, <2>3 DEF DownInv, DownRounds, Msg3Inv
    <3>2. \A r \in UpRounds : r <= p[1]
      BY <2>3, <3>1 DEF UpOrder
    <3>3. Latest(p)'
      BY <1>3, <3>1, <3>2, LatestStep
    <3>4. ap'.phase = "msg1" => p[1] < ap'.round
      BY <1>0, <2>1, <3>1
    <3>5. ap'.phase = "msg1" => ap'.key = p
      BY <3>3 DEF Latest
    <3> QED BY <3>3, <3>4, <3>5
  <2>4. CASE UNCHANGED down
    BY <2>2, <2>3, <2>4 DEF DownInv, DownRounds, DownSorted, Msg3Inv, Msg1Inv, Latest
  <2>5. ASSUME NEW g \in DownFrames, down' = Append(down, g),
               KeyMsg(g) => /\ g.msg = ap'.phase /\ g.ptk = ap'.ptk /\ g.ptk[1] = ap'.round
                            /\ g.key = ap'.key,
               g.msg = "msg3" => g.key = NoKey \/ g.key[1] < g.ptk[1]
        PROVE  DownInv'
    <3>1. /\ Len(down) \in Nat /\ Len(down') = Len(down) + 1
          /\ \A i \in 1..Len(down) : down'[i] = down[i]
          /\ down'[Len(down) + 1] = g
          /\ \A i \in 1..Len(down') : i \in 1..Len(down) \/ i = Len(down) + 1
      BY <2>5, DownAppend
    <3>2. \A i, j \in 1..Len(down') : i < j => i \in 1..Len(down) /\ (j \in 1..Len(down) \/ j = Len(down) + 1)
      BY <3>1
    <3>3. DownRounds'
      BY <2>1, <2>2, <2>5, <3>1 DEF DownRounds
    <3>4. DownSorted'
      BY <2>2, <2>5, <3>1, <3>2 DEF DownInv, DownSorted
    <3>5. Msg3Inv'
      <4>1. g.msg = "msg3" => ap'.phase = "msg3" /\ ap'.ptk = g.ptk
        BY <2>5 DEF KeyMsg
      <4>2. ASSUME NEW i \in 1..Len(down), down'[i].msg = "msg3"
            PROVE  /\ down'[i].key = NoKey \/ down'[i].key[1] < down'[i].ptk[1]
                   /\ Latest(down[i].ptk)'
                   /\ ap'.phase = "msg1" => down'[i].ptk[1] < ap'.round
        <5>1. down'[i] = down[i]
          BY <3>1
        <5>2. PICK p : p = down[i].ptk
          OBVIOUS
        <5>3. Latest(p)' /\ (ap'.phase = "msg1" => p[1] < ap'.round)
          BY <2>3, <4>2, <5>1, <5>2
        <5> QED BY <4>2, <5>1, <5>2, <5>3 DEF Latest, DownInv, Msg3Inv
      <4>3. g.msg = "msg3" => /\ g.key = NoKey \/ g.key[1] < g.ptk[1]
                              /\ ap'.phase = "msg3" /\ ap'.ptk = g.ptk
        BY <2>5, <4>1
      <4>4. ASSUME NEW i \in 1..Len(down'), down'[i].msg = "msg3", i = Len(down) + 1
            PROVE  /\ down'[i].key = NoKey \/ down'[i].key[1] < down'[i].ptk[1]
                   /\ Latest(down[i].ptk)'
                   /\ ap'.phase = "msg1" => down'[i].ptk[1] < ap'.round
        BY <3>1, <4>3, <4>4 DEF Latest
      <4> QED BY <3>1, <4>2, <4>4 DEF Msg3Inv
    <3>6. Msg1Inv'
      <4>1. g.msg = "msg1" => ap'.phase = "msg1" /\ g.key = ap'.key /\ g.ptk[1] = ap'.round
        BY <2>5 DEF KeyMsg
      <4> QED BY <2>3, <3>1, <3>2, <4>1 DEF DownInv, Msg1Inv
    <3> QED BY <3>3, <3>4, <3>5, <3>6 DEF DownInv
  <2> QED BY <1>3, <2>4, <2>5, ApMoveSends
<1>4. CASE UNCHANGED down /\ down = <<>>
  <2>1. \A i \in 1..Len(down') : FALSE
    BY <1>4
  <2> QED BY <2>1 DEF DownInv, DownRounds, DownSorted, Msg3Inv, Msg1Inv
<1>5. CASE RecvAssocResp
  <2>1. ap'.round = ap.round + 1 /\ Sent("msg1", <<ap.round + 1, 0>>, NoKey) /\ down = <<>>
    BY <1>5, AssocFrame
  <2>2. PICK g \in DownFrames : g.msg = "msg1" /\ g.ptk = <<ap.round + 1, 0>> /\ down' = Append(down, g)
    BY <2>1 DEF Sent
  <2>3. Len(down') = 1 /\ down'[1] = g /\ g.ptk[1] = ap.round + 1
    BY <2>1, <2>2, DownAppend
  <2>4. \A i \in 1..Len(down') : i = 1 /\ down'[i].msg = "msg1" /\ down'[i].ptk[1] <= ap'.round
    BY <1>0, <2>1, <2>2, <2>3
  <2>5. \A i, j \in 1..Len(down') : ~(i < j)
    BY <2>4
  <2> QED BY <2>4, <2>5 DEF DownInv, DownRounds, DownSorted, Msg3Inv, Msg1Inv
<1> QED BY <1>1, <1>2, <1>3, <1>4, <1>5, FrameSteps

LEMMA UpOrderStep ==
  ASSUME TypeInv, StationInv, ApInv, DownInv, UpOrder, [Next]_vars
  PROVE  UpOrder'
<1>0. /\ ap.round \in Nat /\ UpRounds \subseteq Nat
      /\ \A i \in 1..Len(down) : /\ down[i] \in DownFrames
                                 /\ KeyMsg(down[i]) => down[i].ptk[1] \in Nat
  BY RoundTypes, OrderTypes
<1>1. ASSUME NEW r \in UpRounds
      PROVE  /\ r <= ap'.round
             /\ \A j \in 1..Len(down') : KeyMsg(down'[j]) => r <= down'[j].ptk[1]
  <2>0. r \in Nat /\ r <= ap.round /\ \A j \in 1..Len(down) : KeyMsg(down[j]) => r <= down[j].ptk[1]
    BY <1>0 DEF UpOrder
  <2>1. CASE UNCHANGED ap /\ (UNCHANGED down \/ (down # <<>> /\ down' = Tail(down)))
    BY <2>0, <2>1, DownTail
  <2>2. CASE ApMove
    <3>1. ap'.round \in Nat /\ ap.round <= ap'.round
      BY <2>2, ApMoveSends
    <3>2. r <= ap'.round
      BY <1>0, <2>0, <3>1
    <3>3. CASE UNCHANGED down
      BY <2>0, <3>2, <3>3
    <3>4. ASSUME NEW g \in DownFrames, down' = Append(down, g), KeyMsg(g) => g.ptk[1] = ap'.round
          PROVE  \A j \in 1..Len(down') : KeyMsg(down'[j]) => r <= down'[j].ptk[1]
      BY <2>0, <3>2, <3>4, DownAppend
    <3> QED BY <2>2, <3>2, <3>3, <3>4, ApMoveSends
  <2>3. CASE ap'.round = ap.round /\ UNCHANGED down
    BY <2>0, <2>3
  <2>4. CASE RecvAssocResp
    <3>1. ap'.round = ap.round + 1 /\ Sent("msg1", <<ap.round + 1, 0>>, NoKey)
      BY <2>4, AssocFrame
    <3>2. PICK g \in DownFrames : g.ptk = <<ap.round + 1, 0>> /\ down' = Append(down, g)
      BY <3>1 DEF Sent
    <3>3. r <= ap.round + 1 /\ g.ptk[1] = ap.round + 1
      BY <1>0, <2>0, <3>2
    <3> QED BY <2>0, <3>1, <3>2, <3>3, DownAppend
  <2> QED BY <2>1, <2>2, <2>3, <2>4, FrameSteps
<1>2. ASSUME NEW r \in UpRounds, Accepted'
      PROVE  r <= pairKey'[1]
  <2>1. CASE Accepted /\ pairKey' = pairKey
    BY <2>1 DEF UpOrder
  <2>2. CASE down # <<>> /\ down' = Tail(down) /\ Head(down).msg = "msg3" /\ pairKey' = Head(down).ptk
    <3>1. 1 \in 1..Len(down) /\ Head(down) = down[1]
      BY <2>2, DownTail
    <3> QED BY <2>2, <3>1 DEF UpOrder, KeyMsg
  <2> QED BY <1>2, <2>1, <2>2, KeySteps
<1>3. ASSUME UNCHANGED ap, down # <<>>, down' = Tail(down), GetsMsg1(Head(down)),
             NEW r, r = Head(down).ptk[1]
      PROVE  /\ r <= ap'.round
             /\ \A j \in 1..Len(down') : KeyMsg(down'[j]) => r <= down'[j].ptk[1]
             /\ ~Accepted'
  <2>1. /\ Len(down) \in Nat /\ 1 \in 1..Len(down) /\ Head(down) = down[1] /\ Len(down') \in Nat
        /\ \A i \in 1..Len(down') : i + 1 \in 1..Len(down) /\ 1 < i + 1 /\ down'[i] = down[i + 1]
    BY <1>3, DownTail
  <2>2. KeyMsg(down[1]) /\ newPtk' = TRUE
    BY <1>3, <2>1 DEF GetsMsg1, RecvMsg1, TakesMsg1, KeyMsg
  <2>3. r <= ap'.round
    BY <1>3, <2>1, <2>2 DEF DownInv, DownRounds
  <2>4. \A j \in 1..Len(down') : KeyMsg(down'[j]) => r <= down'[j].ptk[1]
    BY <1>3, <2>1, <2>2 DEF DownInv, DownSorted
  <2> QED BY <2>2, <2>3, <2>4 DEF Accepted
<1>4. CASE UpRounds' \subseteq UpRounds
  BY <1>1, <1>2, <1>4 DEF UpOrder
<1>5. CASE /\ UNCHANGED ap /\ down # <<>> /\ down' = Tail(down) /\ GetsMsg1(Head(down))
           /\ UpRounds' \subseteq UpRounds \cup {Head(down).ptk[1]}
  BY <1>1, <1>2, <1>3, <1>5 DEF UpOrder
<1> QED BY <1>4, <1>5, UpSteps

LEMMA OldInvStep ==
  ASSUME TypeInv, StationInv, ApInv, DownInv, OldInv, [Next]_vars
  PROVE  OldInv'
<1>0. given \subseteq Ptks /\ pairKey \in Ptks \cup {NoKey} /\ NoKey \notin Ptks
  BY OrderTypes
<1>1. \A p \in given : OldKey(p)'
  <2>1. ASSUME NEW p \in given
        PROVE  OldKey(p)'
    <3>1. p \in Ptks /\ OldKey(p)
      BY <1>0 DEF OldInv
    <3> QED BY <3>1, OldKeyStep
  <2> QED BY <2>1
<1>2. ASSUME NEW p, p = pairKey, p # NoKey
      PROVE  OldKey(p)'
  <2>1. p \in Ptks
    BY <1>0, <1>2
  <2>2. OldKey(p)
    BY <1>2 DEF OldInv, OldKey
  <2> QED BY <2>1, <2>2, OldKeyStep
<1>3. \A p \in given' : OldKey(p)'
  <2>1. \A p \in given' : p \in given \/ (p = pairKey /\ p # NoKey)
    BY KeySteps
  <2> QED BY <1>1, <1>2, <2>1
<1>4. ASSUME NEW p, p = pairKey', p # NoKey
      PROVE  OldKey(p)'
  <2>1. CASE pairKey' \in {pairKey, NoKey}
    BY <1>2, <1>4, <2>1
  <2>2. CASE UNCHANGED ap /\ down # <<>> /\ down' = Tail(down)
             /\ Head(down).msg = "msg3" /\ pairKey' = Head(down).ptk
    BY <1>4, <2>2, Msg3Accepted
  <2> QED BY <2>1, <2>2, KeySteps
<1>5. pairKey' # NoKey => OldKey(pairKey)'
  BY <1>4 DEF OldKey
<1> QED BY <1>3, <1>5 DEF OldInv

LEMMA LatestInvStep ==
  ASSUME TypeInv, StationInv, ApInv, OrderInv, [Next]_vars
  PROVE  LatestInv'
<1> DEFINE Good(p) == Latest(p)' /\ \A i \in 1..Len(down') : down'[i].msg = "msg1" => down'[i].key = p
<1> SUFFICES ASSUME Accepted', NEW p, p = pairKey'
             PROVE  Good(p)
  <2>1. Latest(pairKey)' <=> \E p : p = pairKey' /\ Latest(p)'
    BY DEF Latest
  <2> QED BY <2>1 DEF LatestInv
<1> USE DEF OrderInv
<1>1. CASE UNCHANGED ap /\ down # <<>> /\ down' = Tail(down)
           /\ Head(down).msg = "msg3" /\ pairKey' = Head(down).ptk
  BY <1>1, Msg3Accepted
<1>2. CASE Accepted /\ pairKey' = pairKey /\ ~RecvAuth /\ ~RecvAssocResp
  <2>1. p \in Ptks
    BY <1>2, OrderTypes DEF StationInv
  <2>2. /\ Latest(p) /\ OldKey(p) /\ \A r \in UpRounds : r <= p[1]
        /\ \A i \in 1..Len(down) : down[i].msg = "msg1" => down[i].key = p
    BY <1>2, <2>1, OrderTypes DEF LatestInv, OldInv, UpOrder, Latest, OldKey
  <2>3. CASE UNCHANGED ap /\ (UNCHANGED down \/ (down # <<>> /\ down' = Tail(down)))
    BY <2>2, <2>3, DownTail DEF Latest
  <2>4. CASE ApMove
    <3>1. Latest(p)'
      BY <2>1, <2>2, <2>4, LatestStep DEF OldKey
    <3>2. ap'.phase = "msg1" => ap'.key = p
      BY <3>1 DEF Latest
    <3>3. CASE UNCHANGED down
      BY <2>2, <3>1, <3>3
    <3>4. ASSUME NEW g \in DownFrames, down' = Append(down, g),
                 KeyMsg(g) => g.msg = ap'.phase /\ g.key = ap'.key
          PROVE  Good(p)
      <4>1. g.msg = "msg1" => g.key = p
        BY <3>2, <3>4 DEF KeyMsg
      <4> QED BY <2>2, <3>1, <3>4, <4>1, DownAppend
    <3> HIDE DEF Good
    <3> QED BY <2>4, <3>1, <3>3, <3>4, ApMoveSends
  <2> QED BY <1>2, <2>3, <2>4, FrameSteps
<1> HIDE DEF Good
<1> QED BY <1>1, <1>2, KeySteps

----------------------------------------------------------------------------
\* No pairwise key is given to the firmware twice.

\* The key that the handshake under way is about.
Candidate == <<anonce, snonce>>
Expecting == Negotiated /\ newPtk
HwPairInv == hwPair # NoKey => hwPair \in given

\* The key that a handshake is about is not yet given.  What a mwx_stop leaves in
\* the ring need not be looked at: were it given, protection would be on with
\* that key, and a message 3 of the handshake is never protected with it.
FreshInv ==
  Expecting /\ Candidate \in given =>
    rxProt /\ hwPair \in {Candidate, NoKey} /\ pairKey = Candidate

\* One request of a pairwise key at most is still to be served, with a key that
\* is new, and none while the supplicant waits for a message 3.
OnceInv ==
  ~stopped =>
    /\ \A i, j \in From..Len(ring) : ring[i] = Pairwise /\ ring[j] = Pairwise => i = j
    /\ Awaits(Pairwise) => pairKey \notin given
    /\ Expecting => ~Awaits(Pairwise)

\* What a step of the task leaves of the requests.
LEMMA ServedRing ==
  ASSUME TypeInv, SendSetKey \/ SetKeyFails \/ SetKeyDone
  PROVE  /\ UNCHANGED <<pairKey, nwKeys, rsn, prot, icState, stopped>>
         /\ \E d \in {0, 1} : \A i \in From'..Len(ring') :
              i \in Nat /\ i + d \in 2..Len(ring) /\ ring'[i] = ring[i + d]
         /\ Len(ring) \in Nat /\ 2..Len(ring) \subseteq From..Len(ring)
         /\ ~SetKeyDone => From = 1 /\ task # "idle" /\ ring # <<>>
                           /\ (Install(Head(ring)) \/ UNCHANGED <<hwPair, hwGroup, given>>)
         /\ SetKeyDone => UNCHANGED <<hwPair, given>>
<1>0. Len(ring) \in Nat /\ From \in {1, 2} /\ 2..Len(ring) \subseteq From..Len(ring)
  BY FromValue
<1>1. CASE SendSetKey
  <2>1. /\ task = "setkey" /\ task' = "wait" /\ ring # <<>> /\ Install(Head(ring)) /\ ring' = ring
        /\ UNCHANGED <<pairKey, nwKeys, rsn, prot, icState, stopped>>
    BY <1>1 DEF SendSetKey, keys, history
  <2>2. From = 1 /\ From' = 2
    BY <2>1 DEF From
  <2>3. \A i \in From'..Len(ring') : i \in Nat /\ i + 0 \in 2..Len(ring) /\ ring'[i] = ring[i + 0]
    BY <1>0, <2>1, <2>2
  <2>4. ~SetKeyDone
    BY <2>1 DEF SetKeyDone, KeyAdded
  <2> QED BY <1>0, <2>1, <2>2, <2>3, <2>4
<1>2. CASE SetKeyFails \/ SetKeyDone
  <2>1. /\ ring # <<>> /\ ring' = Tail(ring) /\ task' = "setkey"
        /\ UNCHANGED <<pairKey, nwKeys, rsn, prot, icState, stopped>>
    BY <1>2 DEF SetKeyFails, SetKeyDone, KeyAdded, worker, history, TypeInv, QueuesOK
  <2>2. From' = 1
    BY <2>1 DEF From
  <2>3. \A i \in From'..Len(ring') : i \in Nat /\ i + 1 \in 2..Len(ring) /\ ring'[i] = ring[i + 1]
    BY <2>1, <2>2, RingShift
  <2>4. ~SetKeyDone => From = 1 /\ task # "idle"
                       /\ (Install(Head(ring)) \/ UNCHANGED <<hwPair, hwGroup, given>>)
    BY <1>2 DEF SetKeyFails, From
  <2>5. SetKeyDone => UNCHANGED <<hwPair, given>>
    BY DEF SetKeyDone, KeyAdded
  <2> QED BY <1>0, <2>1, <2>3, <2>4, <2>5
<1> QED BY <1>1, <1>2

\* What a request gives to the firmware.
LEMMA InstalledKey ==
  ASSUME TypeInv, ring # <<>>, Install(Head(ring)) \/ UNCHANGED <<hwPair, hwGroup, given>>
  PROVE  /\ \/ UNCHANGED given /\ hwPair' \in {hwPair, NoKey}
            \/ ring[1] = Pairwise /\ pairKey # NoKey /\ hwPair' = pairKey /\ given' = given \cup {pairKey}
<1>1. Head(ring) = ring[1]
  BY RingFirst
<1> QED BY <1>1 DEF Install

LEMMA HwPairStep ==
  ASSUME TypeInv, StationInv, HwPairInv, [Next]_vars
  PROVE  HwPairInv'
<1>1. CASE UNCHANGED <<hwPair, given>>
  BY <1>1 DEF HwPairInv
<1>2. CASE SendSetKey \/ SetKeyFails
  <2>1. ring # <<>> /\ (Install(Head(ring)) \/ UNCHANGED <<hwPair, hwGroup, given>>)
    BY <1>2 DEF SendSetKey, SetKeyFails
  <2> QED BY <2>1, InstalledKey DEF HwPairInv
<1>3. CASE RecvAuth
  BY <1>3 DEF RecvAuth, HwPairInv
<1>4. CASE UNCHANGED station \/ BeginSetKeyTask \/ SetKeyDone \/ EndSetKeyTask
           \/ UNCHANGED firmware \/ RecvAssocResp \/ JoinBss \/ Start
  BY <1>1, <1>4 DEF station, firmware, BeginSetKeyTask, SetKeyDone, KeyAdded, EndSetKeyTask, RecvAssocResp,
                    JoinBss, Start
<1>5. CASE NewStateTask \/ Stop
  BY <1>1, <1>5, NewStateEffect, StopEffect
<1>6. UNCHANGED <<task, firmware>> => UNCHANGED firmware
  OBVIOUS
<1> QED BY <1>2, <1>3, <1>4, <1>5, <1>6, StationSteps

\* A message 1 that is taken is of a handshake whose key is not yet given.
LEMMA NewCandidate ==
  ASSUME TypeInv, OldInv, down # <<>>, down' = Tail(down), GetsMsg1(Head(down))
  PROVE  Candidate' \notin given
<1>1. 1 \in 1..Len(down) /\ Head(down) = down[1] /\ down[1] \in DownFrames
  BY DownTail, OrderTypes
<1>2. down[1].msg = "msg1" /\ anonce' = down[1].ptk[1]
  BY <1>1 DEF GetsMsg1, RecvMsg1, TakesMsg1
<1>3. down[1].ptk[1] \in Nat
  BY <1>1, <1>2, RoundTypes DEF KeyMsg
<1>4. \A p \in given : p[1] < down[1].ptk[1]
  BY <1>1, <1>2 DEF OldInv, OldKey
<1>5. Candidate'[1] = down[1].ptk[1]
  BY <1>2 DEF Candidate
<1>6. ASSUME NEW c, c = Candidate', c \in given
      PROVE  FALSE
  <2>1. c[1] = down[1].ptk[1] /\ c[1] < down[1].ptk[1]
    BY <1>4, <1>5, <1>6
  <2> QED BY <1>3, <2>1
<1> QED BY <1>6

\* Nor is the key of a message 3 that is accepted.
LEMMA NewKey ==
  ASSUME TypeInv, DownInv, FreshInv, newPtk, down # <<>>, down' = Tail(down), GetsMsg3(Head(down))
  PROVE  Head(down).ptk = Candidate /\ Candidate \notin given
<1>1. 1 \in 1..Len(down) /\ Head(down) = down[1] /\ down[1] \in DownFrames
  BY DownTail, OrderTypes
<1>2. down[1].msg = "msg3" /\ down[1].ptk = Candidate /\ Negotiated /\ PassesInput(down[1])
  BY <1>1 DEF GetsMsg3, TakesMsg3, Negotiated, Candidate
<1>3. down[1].ptk[1] \in Nat
  BY <1>1, <1>2, RoundTypes DEF KeyMsg
<1>4. down[1].key = NoKey \/ down[1].key[1] < down[1].ptk[1]
  BY <1>1, <1>2 DEF DownInv, Msg3Inv
<1>5. ASSUME Candidate \in given
      PROVE  FALSE
  <2>1. rxProt /\ hwPair \in {down[1].ptk, NoKey}
    BY <1>2, <1>5 DEF FreshInv, Expecting
  <2>2. down[1].key # NoKey /\ down[1].key = down[1].ptk
    BY <1>2, <2>1 DEF PassesInput
  <2>3. \A n \in Nat : ~(n < n)
    OBVIOUS
  <2> QED BY <1>3, <1>4, <2>2, <2>3
<1> QED BY <1>1, <1>2, <1>5

LEMMA FreshInvStep ==
  ASSUME TypeInv, StationInv, QueueInv, OrderInv, FreshInv, [Next]_vars
  PROVE  FreshInv'
<1>a. Candidate' = <<anonce', snonce'>> /\ Candidate = <<anonce, snonce>>
  BY DEF Candidate
<1>b. CASE ~Expecting'
  BY <1>b DEF FreshInv
<1>c. (supp' = "INITIALIZE" \/ supp' = "PTKSTART" \/ newPtk' = FALSE) => ~Expecting'
  BY DEF Expecting, Negotiated
<1>d. ASSUME UNCHANGED <<supp, newPtk, anonce, snonce, given, rxProt, hwPair, pairKey>>
      PROVE  FreshInv'
  BY <1>d DEF FreshInv, Expecting, Negotiated, Candidate
<1>1. CASE UNCHANGED station
  BY <1>1, <1>d DEF station, rsn, prot, keys, firmware
<1>2. CASE NewStateTask
  <2>1. /\ UNCHANGED <<newPtk, anonce, snonce, given, rxProt, hwPair, pairKey>>
        /\ supp' = "INITIALIZE" \/ UNCHANGED supp
    BY <1>2, NewStateEffect
  <2> QED BY <1>b, <1>c, <1>d, <2>1
<1>3. CASE BeginSetKeyTask \/ EndSetKeyTask \/ Start \/ (UNCHANGED <<task, firmware>> /\ RecvDeauth(Head(down)))
  <2>1. UNCHANGED <<rsn, prot, pairKey, hwPair, given>>
    BY <1>3 DEF BeginSetKeyTask, EndSetKeyTask, Start, RecvDeauth, keys, firmware
  <2> QED BY <1>d, <2>1 DEF rsn, prot
<1>4. CASE SendSetKey \/ SetKeyFails \/ SetKeyDone
  <2>1. UNCHANGED <<pairKey, supp, newPtk, anonce, snonce, rxProt>>
    BY <1>4, ServedRing DEF rsn, prot
  <2>2. CASE UNCHANGED <<hwPair, given>>
    BY <1>d, <2>1, <2>2
  <2>3. CASE /\ task # "idle" /\ ring # <<>>
             /\ Install(Head(ring)) \/ UNCHANGED <<hwPair, hwGroup, given>>
    <3> SUFFICES ASSUME Expecting, Candidate \in given'
                 PROVE  rxProt /\ hwPair' \in {Candidate, NoKey} /\ pairKey = Candidate
      BY <2>1 DEF FreshInv, Expecting, Negotiated, Candidate
    <3>1. icState \in Joined
      BY DEF Expecting, Negotiated, StationInv, TypeInv, StationOK, Low, Joined
    <3>2. rxProt
      BY <2>3, <3>1 DEF QueueInv, StationInv
    <3>3. CASE Candidate \in given
      <4>1. hwPair \in {Candidate, NoKey} /\ pairKey = Candidate
        BY <3>3 DEF FreshInv
      <4> QED BY <2>3, <3>2, <4>1, InstalledKey
    <3>4. CASE Candidate \notin given
      BY <2>3, <3>2, <3>4, InstalledKey
    <3> QED BY <3>3, <3>4
  <2> QED BY <1>4, <2>2, <2>3, ServedRing
<1>5. CASE UNCHANGED <<task, firmware>> /\ down # <<>> /\ down' = Tail(down) /\ GetsMsg1(Head(down))
  <2>1. Candidate' \notin given' 
    BY <1>5, NewCandidate DEF OrderInv, firmware
  <2> QED BY <2>1 DEF FreshInv
<1>6. CASE UNCHANGED <<task, firmware>> /\ down # <<>> /\ down' = Tail(down) /\ GetsMsg3(Head(down))
  <2>1. UNCHANGED <<hwPair, given, anonce, snonce>> /\ Negotiated
    BY <1>6 DEF GetsMsg3, TakesMsg3, Negotiated, firmware
  <2>2. CASE UNCHANGED <<newPtk, prot, keys>>
    <3>1. Expecting' => Expecting
      BY <2>1, <2>2 DEF Expecting
    <3> QED BY <1>a, <2>1, <2>2, <3>1 DEF FreshInv, prot, keys
  <2>3. ASSUME NEW t \in Seq(Requests), Msg3Keys(Head(down), t)
        PROVE  FreshInv'
    <3>1. newPtk' => newPtk
      BY <2>3 DEF Msg3Keys
    <3>2. CASE newPtk
      <4>1. Candidate' \notin given'
        BY <1>6, <1>a, <2>1, <3>2, NewKey DEF OrderInv
      <4> QED BY <4>1 DEF FreshInv
    <3>3. CASE ~newPtk
      BY <3>1, <3>3 DEF FreshInv, Expecting
    <3> QED BY <3>2, <3>3
  <2> QED BY <1>6, <2>2, <2>3 DEF GetsMsg3
<1>7. CASE UNCHANGED <<task, firmware>> /\ GetsGroupMsg1(Head(down))
  <2>1. UNCHANGED <<supp, newPtk, anonce, snonce, given, rxProt, hwPair, pairKey>>
    BY <1>7 DEF GetsGroupMsg1, firmware, prot
  <2> QED BY <1>d, <2>1
<1>8. CASE RecvAuth \/ RecvAssocResp \/ JoinBss
  <2>1. supp' = "INITIALIZE" \/ supp' = "PTKSTART"
    BY <1>8 DEF RecvAuth, RecvAssocResp, JoinBss, StationInv, Low
  <2> QED BY <1>b, <1>c, <2>1
<1>9. CASE Stop
  BY <1>9, <1>b, <1>c, StopEffect
<1> QED BY <1>1, <1>2, <1>3, <1>4, <1>5, <1>6, <1>7, <1>8, <1>9, StationSteps

\* A message 1 is taken only when no pairwise key waits to be given.
LEMMA NoneAwaited ==
  ASSUME TypeInv, StationInv, QueueInv, LatestInv, HwPairInv, OnceInv, ~stopped,
         down # <<>>, down' = Tail(down), GetsMsg1(Head(down))
  PROVE  ~Awaits(Pairwise)
<1>1. 1 \in 1..Len(down) /\ Head(down) = down[1]
  BY DownTail
<1>2. down[1].msg = "msg1" /\ supp # "INITIALIZE" /\ PassesInput(down[1])
  BY <1>1 DEF GetsMsg1, RecvMsg1, TakesMsg1
<1>3. CASE Accepted
  <2>1. rxProt
    BY <1>3 DEF StationInv
  <2>2. hwPair # NoKey /\ down[1].key = hwPair
    BY <1>2, <2>1 DEF PassesInput
  <2>3. down[1].key = pairKey
    BY <1>1, <1>2, <1>3 DEF LatestInv
  <2>4. pairKey \in given
    BY <2>2, <2>3 DEF HwPairInv
  <2> QED BY <2>4 DEF OnceInv
<1>4. CASE Expecting
  BY <1>4 DEF OnceInv
<1>5. CASE ~Negotiated
  <2>1. supp = "PTKSTART"
    BY <1>2, <1>5 DEF Negotiated, TypeInv, StationOK
  <2>2. icState \in Joined /\ ~HaveGroup
    BY <2>1 DEF StationInv, TypeInv, StationOK, Low, Joined
  <2>3. ring = <<>>
    BY <2>2 DEF QueueInv
  <2>4. \A i \in From..Len(ring) : FALSE
    <3>1. Len(ring) = 0
      BY <2>3
    <3> QED BY <3>1, FromValue
  <2> QED BY <2>4 DEF Awaits
<1> QED BY <1>3, <1>4, <1>5 DEF Accepted, Expecting

\* The requests that a message adds to the ring.
LEMMA AwaitedAdded ==
  ASSUME TypeInv, NEW k \in Kids, NEW t \in {<<>>, <<Pairwise>>, <<k>>, <<Pairwise, k>>},
         ring' = ring \o t, UNCHANGED task
  PROVE  /\ From' = From
         /\ \A i \in From'..Len(ring') : ring'[i] = Pairwise =>
              \/ i \in From..Len(ring) /\ ring[i] = Pairwise
              \/ i = Len(ring) + 1 /\ t \in {<<Pairwise>>, <<Pairwise, k>>}
<1>1. t \in Seq(Requests)
  BY TwoRequests
<1>2. /\ Len(ring) \in Nat /\ Len(t) \in Nat /\ Len(ring') = Len(ring) + Len(t)
      /\ \A i \in 1..Len(ring) : ring'[i] = ring[i]
      /\ \A i \in 1..Len(t) : ring'[Len(ring) + i] = t[i]
      /\ \A i \in 1..Len(ring') :
           i \in 1..Len(ring) \/ \E j \in 1..Len(t) : i = Len(ring) + j
  BY <1>1, RingGrows
<1>3. From' = From /\ From \in Nat /\ From > 0
  BY FromValue DEF From
<1>4. \A i \in 1..Len(t) : t[i] = Pairwise => i = 1 /\ t \in {<<Pairwise>>, <<Pairwise, k>>}
  <2>1. /\ Len(<<>>) = 0 /\ Len(<<Pairwise>>) = 1 /\ Len(<<k>>) = 1 /\ <<k>>[1] = k /\ Pairwise # k
        /\ Len(<<Pairwise, k>>) = 2 /\ <<Pairwise, k>>[2] = k
    BY TwoRequests
  <2>2. CASE t = <<>> \/ t = <<k>>
    BY <2>1, <2>2
  <2>3. CASE t = <<Pairwise>> \/ t = <<Pairwise, k>>
    <3>1. Len(t) = 1 \/ (Len(t) = 2 /\ t[2] # Pairwise)
      BY <2>1, <2>3
    <3>2. (\A i \in 1..1 : i = 1) /\ (\A i \in 1..2 : i = 1 \/ i = 2)
      OBVIOUS
    <3>3. \A i \in 1..Len(t) : i = 1 \/ (i = 2 /\ t[2] # Pairwise)
      BY <3>1, <3>2, Zenon
    <3> QED BY <2>3, <3>3, Zenon
  <2> QED BY <2>2, <2>3
<1> SUFFICES ASSUME NEW i \in From..Len(ring'), ring'[i] = Pairwise
             PROVE  \/ i \in From..Len(ring) /\ ring[i] = Pairwise
                    \/ i = Len(ring) + 1 /\ t \in {<<Pairwise>>, <<Pairwise, k>>}
  BY <1>3
<1>5. i \in 1..Len(ring')
  BY <1>2, <1>3
<1>6. CASE i \in 1..Len(ring)
  BY <1>2, <1>3, <1>6
<1>7. ASSUME NEW j \in 1..Len(t), i = Len(ring) + j
      PROVE  i = Len(ring) + 1 /\ t \in {<<Pairwise>>, <<Pairwise, k>>}
  BY <1>2, <1>4, <1>7
<1> QED BY <1>2, <1>5, <1>6, <1>7

LEMMA OnceInvStep ==
  ASSUME TypeInv, StationInv, QueueInv, OrderInv, HwPairInv, FreshInv, OnceInv, [Next]_vars
  PROVE  OnceInv'
<1>a. ASSUME UNCHANGED <<stopped, pairKey, given>>, Expecting' => Expecting,
             From' = From, ring' = ring
      PROVE  OnceInv'
  BY <1>a DEF OnceInv, Awaits
<1>b. (task' = task) \/ (task # "wait" /\ task' # "wait") => From' = From
  BY DEF From
<1>c. UNCHANGED <<supp, newPtk>> => (Expecting' => Expecting)
  BY DEF Expecting, Negotiated
<1>d. supp' = "INITIALIZE" \/ supp' = "PTKSTART" \/ newPtk' = FALSE => ~Expecting'
  BY DEF Expecting, Negotiated
<1>e. ASSUME ring' = <<>>
      PROVE  OnceInv'
  <2>1. From' \in {1, 2} /\ Len(ring') = 0
    BY <1>e DEF From
  <2>2. \A i \in From'..Len(ring') : FALSE
    BY <2>1
  <2> QED BY <2>2 DEF OnceInv, Awaits
<1>1. CASE UNCHANGED station
  <2>1. UNCHANGED <<stopped, pairKey, given, task, ring, supp, newPtk>>
    BY <1>1 DEF station, rsn, keys, firmware, history
  <2> QED BY <1>a, <1>b, <1>c, <2>1
<1>2. CASE NewStateTask
  <2>1. /\ UNCHANGED <<stopped, pairKey, given, task, ring, newPtk>>
        /\ supp' = "INITIALIZE" \/ UNCHANGED supp
    BY <1>2, NewStateEffect
  <2> QED BY <1>a, <1>b, <1>c, <1>d, <2>1
<1>3. CASE BeginSetKeyTask
  <2>1. UNCHANGED <<stopped, pairKey, given, ring, supp, newPtk>> /\ task # "wait" /\ task' # "wait"
    BY <1>3 DEF BeginSetKeyTask, rsn, keys, firmware, history
  <2> QED BY <1>a, <1>b, <1>c, <2>1
<1>4. CASE EndSetKeyTask
  BY <1>4, <1>e DEF EndSetKeyTask, keys
<1>5. CASE SendSetKey \/ SetKeyFails \/ SetKeyDone
  <2>1. /\ UNCHANGED <<pairKey, supp, newPtk, stopped>>
        /\ Len(ring) \in Nat /\ 2..Len(ring) \subseteq From..Len(ring)
    BY <1>5, ServedRing DEF rsn
  <2>2. PICK d \in {0, 1} : \A i \in From'..Len(ring') :
              i \in Nat /\ i + d \in 2..Len(ring) /\ ring'[i] = ring[i + d]
    BY <1>5, ServedRing
  <2> SUFFICES ASSUME ~stopped
               PROVE  /\ \A i, j \in From'..Len(ring') : ring'[i] = Pairwise /\ ring'[j] = Pairwise => i = j
                      /\ Awaits(Pairwise)' => pairKey \notin given'
                      /\ Expecting' => ~Awaits(Pairwise)'
    BY <2>1 DEF OnceInv
  <2>3. \A i, j \in 2..Len(ring) : ring[i] = Pairwise /\ ring[j] = Pairwise => i = j
    BY <2>1 DEF OnceInv
  <2>4. \A i, j \in From'..Len(ring') : ring'[i] = Pairwise /\ ring'[j] = Pairwise => i = j
    <3>1. \A i, j \in Nat : i + d = j + d => i = j
      OBVIOUS
    <3> QED BY <2>2, <2>3, <3>1
  <2>5. Awaits(Pairwise)' => \E i \in 2..Len(ring) : ring[i] = Pairwise
    BY <2>2 DEF Awaits
  <2>6. Awaits(Pairwise)' => Awaits(Pairwise)
    BY <2>1, <2>5 DEF Awaits
  <2>7. Awaits(Pairwise)' => given' = given
    <3>1. CASE SetKeyDone
      BY <3>1, ServedRing
    <3>2. CASE ~SetKeyDone /\ Awaits(Pairwise)'
      <4>1. /\ From = 1 /\ ring # <<>>
            /\ Install(Head(ring)) \/ UNCHANGED <<hwPair, hwGroup, given>>
        BY <1>5, <3>2, ServedRing
      <4>2. ring[1] # Pairwise
        <5>1. PICK i \in 2..Len(ring) : ring[i] = Pairwise
          BY <2>5, <3>2
        <5>2. 1 \in From..Len(ring) /\ i \in From..Len(ring) /\ i # 1
          BY <2>1, <4>1, <5>1, RingFirst
        <5> QED BY <5>1, <5>2 DEF OnceInv
      <4> QED BY <4>1, <4>2, InstalledKey
    <3> QED BY <3>1, <3>2
  <2> QED BY <1>c, <2>1, <2>4, <2>6, <2>7 DEF OnceInv
<1>6. CASE UNCHANGED <<task, firmware>> /\ down # <<>> /\ down' = Tail(down) /\ GetsMsg1(Head(down))
  <2>1. UNCHANGED <<stopped, pairKey, given, ring, task>>
    BY <1>6 DEF GetsMsg1, RecvMsg1, keys, firmware, history
  <2>2. From' = From
    BY <1>b, <2>1
  <2>3. ~stopped => ~Awaits(Pairwise)
    BY <1>6, NoneAwaited DEF OrderInv
  <2> QED BY <2>1, <2>2, <2>3 DEF OnceInv, Awaits
<1>7. CASE UNCHANGED <<task, firmware>> /\ down # <<>> /\ down' = Tail(down) /\ GetsMsg3(Head(down))
  <2>1. UNCHANGED <<stopped, given, task>> /\ Negotiated
    BY <1>7 DEF GetsMsg3, TakesMsg3, Negotiated, firmware, history
  <2>2. CASE UNCHANGED <<newPtk, keys>>
    <3>1. Expecting' => Expecting
      BY <2>1, <2>2 DEF Expecting
    <3> QED BY <1>a, <1>b, <2>1, <2>2, <3>1 DEF keys
  <2>3. ASSUME NEW t \in Seq(Requests), Msg3Keys(Head(down), t)
        PROVE  OnceInv'
    <3>1. PICK k : k = Kid(Head(down).gtk) /\ k \in Kids
      BY <1>7 DEF GetsMsg3
    <3>2. /\ t \in {<<>>, <<Pairwise>>, <<k>>, <<Pairwise, k>>} /\ ring' = ring \o t
          /\ pairKey' = IF newPtk THEN Head(down).ptk ELSE pairKey
          /\ t \in {<<Pairwise>>, <<Pairwise, k>>} <=> newPtk /\ ~newPtk'
          /\ newPtk' => newPtk
      BY <2>3, <3>1 DEF Msg3Keys
    <3>3. /\ From' = From
          /\ \A i \in From'..Len(ring') : ring'[i] = Pairwise =>
               \/ i \in From..Len(ring) /\ ring[i] = Pairwise
               \/ i = Len(ring) + 1 /\ newPtk /\ ~newPtk'
      BY <2>1, <3>1, <3>2, AwaitedAdded
    <3> SUFFICES ASSUME ~stopped
                 PROVE  /\ \A i, j \in From'..Len(ring') : ring'[i] = Pairwise /\ ring'[j] = Pairwise => i = j
                        /\ Awaits(Pairwise)' => pairKey' \notin given'
                        /\ Expecting' => ~Awaits(Pairwise)'
      BY <2>1 DEF OnceInv
    <3>4. CASE newPtk
      <4>1. \A i \in From..Len(ring) : ring[i] # Pairwise
        BY <2>1, <3>4 DEF OnceInv, Expecting, Awaits
      <4>2. pairKey' \notin given'
        BY <1>7, <2>1, <3>2, <3>4, NewKey DEF OrderInv
      <4>3. Expecting' => newPtk'
        BY DEF Expecting
      <4> QED BY <3>3, <4>1, <4>2, <4>3 DEF Awaits
    <3>5. CASE ~newPtk
      <4>1. ~Expecting' /\ pairKey' = pairKey /\ given' = given
        BY <2>1, <3>2, <3>5 DEF Expecting
      <4>2. \A i \in From'..Len(ring') : ring'[i] = Pairwise => i \in From..Len(ring) /\ ring[i] = Pairwise
        BY <3>3, <3>5
      <4>3. Awaits(Pairwise)' => Awaits(Pairwise)
        BY <4>2 DEF Awaits
      <4> QED BY <4>1, <4>2, <4>3 DEF OnceInv
    <3> QED BY <3>4, <3>5
  <2> QED BY <1>7, <2>2, <2>3 DEF GetsMsg3
<1>8. CASE UNCHANGED <<task, firmware>> /\ down # <<>> /\ down' = Tail(down) /\ GetsGroupMsg1(Head(down))
  <2>1. UNCHANGED <<stopped, given, task, pairKey>> /\ (Expecting' => Expecting)
    BY <1>8, <1>c DEF GetsGroupMsg1, firmware, history
  <2>2. PICK t \in Seq(Requests) : GroupKeys(Head(down), t)
    BY <1>8 DEF GetsGroupMsg1
  <2>3. PICK k : k = Kid(Head(down).gtk) /\ k \in Kids
    BY <1>8 DEF GetsGroupMsg1
  <2>4. t \in {<<>>, <<k>>} /\ ring' = ring \o t
    BY <2>2, <2>3 DEF GroupKeys
  <2>5. t \notin {<<Pairwise>>, <<Pairwise, k>>}
    <3>1. Len(t) = 0 \/ (Len(t) = 1 /\ t[1] # Pairwise)
      BY <2>3, <2>4, TwoRequests
    <3>2. Len(<<Pairwise>>) = 1 /\ <<Pairwise>>[1] = Pairwise /\ Len(<<Pairwise, k>>) = 2
      OBVIOUS
    <3> QED BY <3>1, <3>2
  <2>6. /\ From' = From
        /\ \A i \in From'..Len(ring') : ring'[i] = Pairwise => i \in From..Len(ring) /\ ring[i] = Pairwise
    BY <2>1, <2>3, <2>4, <2>5, AwaitedAdded
  <2>7. Awaits(Pairwise)' => Awaits(Pairwise)
    BY <2>6 DEF Awaits
  <2> QED BY <2>1, <2>6, <2>7 DEF OnceInv
<1>9. CASE RecvAuth \/ RecvAssocResp \/ Start \/ (UNCHANGED <<task, firmware>> /\ RecvDeauth(Head(down)))
  <2>1. UNCHANGED <<stopped, given, task, pairKey, ring>>
    BY <1>9 DEF RecvAuth, RecvAssocResp, Start, RecvDeauth, keys, firmware, history
  <2>2. UNCHANGED <<supp, newPtk>> \/ supp' = "PTKSTART"
    BY <1>9 DEF RecvAuth, RecvAssocResp, Start, RecvDeauth, rsn
  <2> QED BY <1>a, <1>b, <1>c, <1>d, <2>1, <2>2
<1>10. CASE JoinBss
  <2>1. UNCHANGED <<stopped, given, task, ring>> /\ pairKey' = NoKey /\ newPtk' = FALSE
    BY <1>10 DEF JoinBss, firmware, history
  <2>2. pairKey' \notin given' /\ ~Expecting' /\ From' = From
    BY <1>b, <1>d, <2>1, OrderTypes
  <2> QED BY <2>1, <2>2 DEF OnceInv
<1>11. CASE Stop
  <2>1. stopped' = (ring # <<>>) /\ ring' = ring
    BY <1>11, StopEffect
  <2>2. CASE ring = <<>>
    BY <1>e, <2>1, <2>2
  <2>3. CASE ring # <<>>
    BY <2>1, <2>3 DEF OnceInv
  <2> QED BY <2>2, <2>3
<1> QED BY <1>1, <1>2, <1>3, <1>4, <1>5, <1>6, <1>7, <1>8, <1>9, <1>10, <1>11, StationSteps

OnceAlways == KeysInv /\ OrderInv /\ HwPairInv /\ FreshInv /\ OnceInv

LEMMA OnceInit == Init => OnceAlways
<1> SUFFICES ASSUME Init PROVE OnceAlways
  OBVIOUS
<1>1. /\ supp = "INITIALIZE" /\ pairKey = NoKey /\ ring = <<>> /\ hwPair = NoKey /\ given = {}
      /\ down = <<>> /\ up = <<>>
  BY DEF Init
<1>2. (\A i \in 1..Len(down) : FALSE) /\ (\A i \in 1..Len(up) : FALSE) /\ UpRounds = {}
  BY <1>1 DEF UpRounds
<1>3. OldInv /\ DownInv /\ UpOrder
  BY <1>1, <1>2 DEF OldInv, DownInv, DownRounds, DownSorted, Msg3Inv, Msg1Inv, UpOrder
<1>4. LatestInv /\ HwPairInv /\ FreshInv
  BY <1>1 DEF LatestInv, Accepted, Negotiated, HwPairInv, FreshInv, Expecting
<1>5. From \in {1, 2} /\ Len(ring) = 0
  BY <1>1 DEF From
<1>6. \A i \in From..Len(ring) : FALSE
  BY <1>5
<1>7. OnceInv
  BY <1>6 DEF OnceInv, Awaits
<1> QED BY <1>3, <1>4, <1>7, KeysInit DEF OnceAlways, OrderInv

LEMMA OnceStep == OnceAlways /\ [Next]_vars => OnceAlways'
<1> SUFFICES ASSUME OnceAlways, [Next]_vars PROVE OnceAlways'
  OBVIOUS
<1>1. /\ KeysInv /\ TypeInv /\ ApInv /\ StationInv /\ QueueInv
      /\ OrderInv /\ OldInv /\ DownInv /\ UpOrder /\ HwPairInv /\ FreshInv /\ OnceInv
  BY DEF OnceAlways, KeysInv, RingInv, OrderInv
<1>2. KeysInv'
  BY <1>1, KeysStep
<1>3. OldInv' /\ DownInv' /\ UpOrder' /\ LatestInv'
  BY <1>1, OldInvStep, DownInvStep, UpOrderStep, LatestInvStep
<1>4. HwPairInv' /\ FreshInv' /\ OnceInv'
  BY <1>1, HwPairStep, FreshInvStep, OnceInvStep
<1> QED BY <1>2, <1>3, <1>4 DEF OnceAlways, OrderInv

LEMMA GivenOnce == OnceAlways /\ [Next]_vars => (GivenAgain => stopped)
<1> SUFFICES ASSUME OnceAlways, GivenAgain, ~stopped PROVE FALSE
  OBVIOUS
<1>1. TypeInv /\ OnceInv
  BY DEF OnceAlways, KeysInv
<1>2. task = "setkey" /\ ring # <<>> /\ Head(ring) = Pairwise /\ pairKey \in given
  BY DEF GivenAgain, SendSetKey
<1>3. From = 1 /\ ring[1] = Pairwise /\ 1 \in 1..Len(ring)
  BY <1>1, <1>2, RingFirst DEF From
<1>4. Awaits(Pairwise)
  BY <1>3 DEF Awaits
<1> QED BY <1>1, <1>2, <1>4 DEF OnceInv

\* No pairwise key is given to the firmware twice, whatever is repeated, lost or
\* deauthenticated, unless a mwx_stop has left requests in the ring.
THEOREM PtkIsGivenOnce == Spec => PtkGivenOnceUnlessStopped
<1>1. OnceAlways /\ [Next]_vars => [GivenAgain => stopped]_vars
  BY GivenOnce
<1> QED BY <1>1, OnceInit, OnceStep, PTL DEF Spec, PtkGivenOnceUnlessStopped
=============================================================================
