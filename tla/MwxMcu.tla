------------------------------- MODULE MwxMcu -------------------------------
(***************************************************************************)
(* Commands to the firmware and their answers, in MtkMwx.cpp: a caller     *)
(* takes a sequence number (mwx_mcu_send_mbuf), claims the slot of         *)
(* sc_mcu_wait with that number, posts the command and sleeps on the slot  *)
(* (mwx_mcu_wait_resp_int / _msg); the interrupt handler puts the answer   *)
(* into the slot the answer names and wakes who sleeps there               *)
(* (mwx_mcu_rx_event).  Nothing excludes the handler from the callers, or  *)
(* the callers from each other: splnet() is a stub.                        *)
(*                                                                         *)
(* A full command ring, and the retries it causes, are in MwxTxRing; what  *)
(* mwx_reset does is not modelled here.  Which mcu_cmd a slot holds only   *)
(* chooses how an answer is decoded, so it is left out.                    *)
(*                                                                         *)
(* The firmware is external: it answers each command it has at most once,  *)
(* at any later time and in any order, or not at all.                      *)
(***************************************************************************)
EXTENDS Naturals, FiniteSets

CONSTANTS
  Callers,      \* the threads that send commands
  Cmds,         \* the commands that exist at one time
  SeqCount,     \* nitems(sc_mcu_wait): sequence numbers are 1..SeqCount-1
  MaxPending,   \* bound: the commands the firmware has taken and not answered
  None          \* no command, no answer

ASSUME SeqAssumption == SeqCount \in Nat /\ SeqCount > 1
ASSUME PendingAssumption == MaxPending \in Nat \ {0}
ASSUME NoneAssumption == None \notin Cmds

VARIABLES
  seqNo,      \* sc_mcu_seq & 0x0f
  slot,       \* sc_mcu_wait: the command whose answer mcu_int and mcu_m came
              \* with, and whether mcu_m is there
  fw,         \* the commands in the firmware, as [seq, cmd]
  pc,         \* where each caller is
  cmd,        \* its command
  kind,       \* "post": sent with seqp == NULL; "wait": and wait for the answer
  seq,        \* its local seq, and before that what it read of sc_mcu_seq
  reused      \* history: the numbers given out while they were in use

caller == <<pc, cmd, kind, seq>>
mcuVars == <<seqNo, slot, fw, caller, reused>>

Seqs == 0..(SeqCount - 1)
Empty == [answer |-> None, m |-> FALSE]

McuInit ==
  /\ seqNo = 0
  /\ slot = [s \in Seqs |-> Empty]
  /\ fw = {}
  /\ pc = [c \in Callers |-> "idle"]
  /\ cmd = [c \in Callers |-> None]
  /\ kind = [c \in Callers |-> "post"]
  /\ seq = [c \in Callers |-> 0]
  /\ reused = {}

----------------------------------------------------------------------------
(* The callers                                                             *)

InFlight == {e.cmd : e \in fw} \cup {cmd[c] : c \in Callers}

\* mwx_mcu_alloc_msg succeeds and mwx_mcu_send_mbuf is called.
Begin(c) ==
  /\ pc[c] = "idle"
  /\ \E k \in {"post", "wait"}, m \in Cmds \ InFlight :
       /\ cmd' = [cmd EXCEPT ![c] = m]
       /\ kind' = [kind EXCEPT ![c] = k]
  /\ pc' = [pc EXCEPT ![c] = "load"]
  /\ UNCHANGED <<seqNo, slot, fw, seq, reused>>

\* seq = ++sc->sc_mcu_seq & 0x0f, once more if that is 0.  The load and the
\* store are not one access.
LoadSeq(c) ==
  /\ pc[c] \in {"load", "reload"}
  /\ seq' = [seq EXCEPT ![c] = seqNo]
  /\ pc' = [pc EXCEPT ![c] = IF pc[c] = "load" THEN "store" ELSE "restore"]
  /\ UNCHANGED <<seqNo, slot, fw, cmd, kind, reused>>

\* A caller that has its number, from mwx_mcu_alloc_wait to its return
HasNumber(c) == pc[c] \in {"build", "post", "posted", "asleep", "awake"}

\* Number s is in use: another caller has it, because both read the same
\* sc_mcu_seq or the counter came round, or the firmware has it, with a command
\* that nobody waits for any more or ever did.
InUse(s) ==
  \/ \E d \in Callers : HasNumber(d) /\ seq[d] = s
  \/ \E e \in fw : e.seq = s

\* Mutant: no & 0x0f.
StoreSeqUnmasked(c) ==
  /\ pc[c] \in {"store", "restore"}
  /\ seqNo' = seq[c] + 1
  /\ seq' = [seq EXCEPT ![c] = seqNo']
  /\ pc' = [pc EXCEPT ![c] = "build"]
  /\ UNCHANGED <<slot, fw, cmd, kind, reused>>

StoreSeq(c) ==
  /\ pc[c] \in {"store", "restore"}
  /\ seqNo' = (seq[c] + 1) % SeqCount
  /\ seq' = [seq EXCEPT ![c] = seqNo']
  /\ pc' = [pc EXCEPT ![c] = IF seqNo' = 0 /\ pc[c] = "store" THEN "reload" ELSE "build"]
  /\ reused' = IF InUse(seqNo') THEN reused \cup {seqNo'} ELSE reused
  /\ UNCHANGED <<slot, fw, cmd, kind>>

Return(c) ==
  /\ pc' = [pc EXCEPT ![c] = "idle"]
  /\ cmd' = [cmd EXCEPT ![c] = None]
  /\ kind' = [kind EXCEPT ![c] = "post"]
  /\ seq' = [seq EXCEPT ![c] = 0]

\* There is no memory for the header: ENOMEM, nothing was claimed.
BuildFails(c) ==
  /\ pc[c] = "build"
  /\ Return(c)
  /\ UNCHANGED <<seqNo, slot, fw, reused>>

\* A caller that will wait clears its slot, and with it an answer nobody took.
ClaimSlot(c) ==
  /\ pc[c] = "build"
  /\ slot' = IF kind[c] = "post" THEN slot
             ELSE [slot EXCEPT ![seq[c]] = Empty]
  /\ pc' = [pc EXCEPT ![c] = "post"]
  /\ UNCHANGED <<seqNo, fw, cmd, kind, seq, reused>>

\* mwx_dma_tx_enqueue succeeds: the firmware has the command.
Post(c) ==
  /\ pc[c] = "post"
  /\ Cardinality(fw) < MaxPending
  /\ fw' = fw \cup {[seq |-> seq[c], cmd |-> cmd[c]]}
  /\ IF kind[c] = "post"
     THEN Return(c)
     ELSE pc' = [pc EXCEPT ![c] = "posted"] /\ UNCHANGED <<cmd, kind, seq>>
  /\ UNCHANGED <<seqNo, slot, reused>>

\* mwx_dma_tx_enqueue fails for good: the slot is cleared again.
PostFails(c) ==
  /\ pc[c] = "post"
  /\ slot' = IF kind[c] = "post" THEN slot ELSE [slot EXCEPT ![seq[c]] = Empty]
  /\ Return(c)
  /\ UNCHANGED <<seqNo, fw, reused>>

\* tsleep_nsec on the slot, without a look at mcu_m first
Sleep(c) ==
  /\ pc[c] = "posted"
  /\ pc' = [pc EXCEPT ![c] = "asleep"]
  /\ UNCHANGED <<seqNo, slot, fw, cmd, kind, seq, reused>>

\* Mutant: tsleep with INFSLP.
TimeoutOfNobody(c) == FALSE /\ UNCHANGED mcuVars

\* Three seconds are over.  The caller also asks for a reset of the device
\* (mwx_reset); it leaves the slot as it is.
Timeout(c) ==
  /\ pc[c] = "asleep"
  /\ Return(c)
  /\ UNCHANGED <<seqNo, slot, fw, reused>>

\* The caller was woken: it takes mcu_int or mcu_m out of its slot.
TakeAnswer(c) ==
  /\ pc[c] = "awake"
  /\ slot' = [slot EXCEPT ![seq[c]].m = FALSE]
  /\ Return(c)
  /\ UNCHANGED <<seqNo, fw, reused>>

----------------------------------------------------------------------------
(* The interrupt handler                                                   *)

\* Mutant: wakes every caller.
RxEventWakesAll ==
  /\ \E e \in fw :
       /\ e.seq # 0
       /\ slot' = [slot EXCEPT ![e.seq].answer = e.cmd, ![e.seq].m = TRUE]
       /\ pc' = [c \in Callers |-> IF pc[c] = "asleep" THEN "awake" ELSE pc[c]]
       /\ fw' = fw \ {e}
  /\ UNCHANGED <<seqNo, cmd, kind, seq, reused>>

\* mwx_mcu_rx_event with the answer to a command: the slot is the one the
\* answer names, whoever has claimed it since.
RxEvent ==
  /\ \E e \in fw :
       /\ e.seq # 0
       /\ slot' = [slot EXCEPT ![e.seq].answer = e.cmd, ![e.seq].m = TRUE]
       /\ pc' = [c \in Callers |->
                   IF pc[c] = "asleep" /\ seq[c] = e.seq THEN "awake" ELSE pc[c]]
       /\ fw' = fw \ {e}
  /\ UNCHANGED <<seqNo, cmd, kind, seq, reused>>

\* The firmware does not answer, or the answer is too short to be decoded or
\* names number 0 and is dropped.
NoAnswer ==
  /\ \E e \in fw : fw' = fw \ {e}
  /\ UNCHANGED <<seqNo, slot, caller, reused>>

Send(c) ==
  \/ LoadSeq(c) \/ StoreSeq(c) \/ BuildFails(c) \/ ClaimSlot(c)
  \/ Post(c) \/ PostFails(c) \/ Sleep(c) \/ Timeout(c) \/ TakeAnswer(c)

McuNext ==
  \/ \E c \in Callers : Begin(c) \/ Send(c)
  \/ RxEvent \/ NoAnswer

McuSpec == McuInit /\ [][McuNext]_mcuVars

(***************************************************************************)
(* Fairness: a caller that is not asleep runs, the timer of one that is    *)
(* goes off.  Nothing is assumed of the firmware.                          *)
(***************************************************************************)
McuFairSpec == McuSpec /\ \A c \in Callers : WF_mcuVars(Send(c))

----------------------------------------------------------------------------
(* Properties                                                              *)

McuTypeOK ==
  /\ seqNo \in Seqs
  /\ slot \in [Seqs -> [answer : Cmds \cup {None}, m : BOOLEAN]]
  /\ fw \subseteq [seq : Seqs, cmd : Cmds]
  /\ pc \in [Callers -> {"idle", "load", "store", "reload", "restore", "build",
                         "post", "posted", "asleep", "awake"}]
  /\ cmd \in [Callers -> Cmds \cup {None}]
  /\ kind \in [Callers -> {"post", "wait"}]
  /\ seq \in [Callers -> Seqs]
  /\ reused \subseteq Seqs

\* A caller that was woken finds the answer to its own command: not one to a
\* command that timed out, was posted by another thread, or had the same
\* sequence number a round earlier.  What breaks it is a number that is given
\* out while it is in use, and then only for that number.
AnswerIsMine ==
  \A c \in Callers : pc[c] = "awake" =>
    \/ seq[c] \in reused
    \/ slot[seq[c]].answer = cmd[c] /\ slot[seq[c]].m

\* Whatever the firmware does, a command ends: with its answer, an error or a
\* timeout.
EveryCommandEnds == \A c \in Callers : pc[c] = "load" ~> pc[c] = "idle"
=============================================================================
