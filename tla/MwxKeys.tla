------------------------------ MODULE MwxKeys ------------------------------
(***************************************************************************)
(* The keys of an association: the supplicant of                           *)
(* net80211/ieee80211_pae_input.c, which the interrupt thread runs, the    *)
(* ring of set-key requests that SimpleMtkWlan/hal_mwx/MtkMwx.cpp puts     *)
(* between it and the firmware, and the task on sc_nswq that empties the   *)
(* ring, which shares its thread with mwx_newstate_task.  The link goes up *)
(* when the firmware has the keys.                                         *)
(*                                                                         *)
(* The access point is external: it repeats a message that is not answered *)
(* with a higher replay counter, MaxTx times, and then deauthenticates.    *)
(* Its frames are those of a correct access point with a usable RSN IE, so *)
(* the checks of lengths and elements are left out.  A nonce is the number *)
(* of the handshake (ANonce) or the replay counter of the message 1 that   *)
(* it answers (SNonce), a PTK the pair of them, a GTK a number; there is   *)
(* no IGTK.  A command takes effect in the firmware when it is sent; its   *)
(* answer comes later.                                                     *)
(***************************************************************************)
EXTENDS Integers, Sequences, FiniteSets, SequencesExt

CONSTANTS
  RingSize,    \* nitems(sc_setkey_arg)
  MaxTx,       \* how often the access point sends a message
  MaxRounds,   \* the handshakes there are
  MaxGtk,      \* the group keys there are
  MaxUp,       \* the station's frames that are not yet sent
  MaxDown,     \* the frames on their way from the access point
  Events,      \* what may happen
  NoKey        \* no key

ASSUME RingAssumption == RingSize \in Nat /\ RingSize > 1
ASSUME BoundsAssumption == {MaxTx, MaxRounds, MaxGtk, MaxUp, MaxDown} \subseteq Nat \ {0}
ASSUME EventsAssumption ==
  Events \subseteq {"loss", "noframe", "failset", "grouprekey", "rekey", "deauth", "stop"}

VARIABLES
  icState,    \* ic_state
  nsState,    \* sc_ns_state
  nsq,        \* the tasks that are queued on sc_nswq
  task,       \* what the thread of sc_nswq does: "idle", "setkey", "wait"
  supp,       \* ni_rsn_supp_state
  newPtk,     \* IEEE80211_NODE_RSN_NEW_PTK
  txProt,     \* IEEE80211_NODE_TXPROT
  rxProt,     \* IEEE80211_NODE_RXPROT
  portValid,  \* ni_port_valid
  linkUp,     \* the link state of the interface
  replay,     \* ni_replaycnt; 0 if not ni_replaycnt_ok
  anonce,     \* ni_nonce
  snonce,     \* ic_nonce
  ptk,        \* ni_ptk
  pairKey,    \* ni_pairwise_key
  nwKeys,     \* ic_nw_keys
  ring,       \* sc_setkey_arg from sc_setkey_tail to sc_setkey_cur
  have,       \* MWX_NODE_FLAG_HAVE_PAIRWISE_KEY and .._GROUP_KEY
  hwPair,     \* the pairwise key the firmware has
  hwGroup,    \* the group keys it has
  ap,         \* the access point
  down,       \* the frames on their way from it
  up,         \* the frames of the station that are not yet sent
  given,      \* history: the PTKs that were given to the firmware
  stopped,    \* history: requests from before a mwx_stop may be in the ring
  failed      \* history: since the last authentication a key was not set, or
              \* its answer was lost

worker == <<nsState, nsq>>
rsn == <<supp, newPtk, replay, anonce, snonce, ptk>>
prot == <<txProt, rxProt>>
port == <<portValid, linkUp>>
keys == <<pairKey, nwKeys, ring>>
firmware == <<have, hwPair, hwGroup, given>>
history == <<stopped, failed>>
vars == <<icState, worker, task, rsn, prot, port, keys, firmware, ap, down, up, history>>

Pairwise == 0
Kids == {1, 2}
Kid(gtk) == 1 + (gtk % 2)
MaxReplay == MaxTx * (2 * MaxRounds + MaxGtk)
Ptks == (1..MaxRounds) \X (1..MaxReplay)
Gtks == 1..MaxGtk
NoSuchKey == <<0, 0>>
NoGroupKeys == [k \in Kids |-> NoKey]

ASSUME NoKeyAssumption == NoKey \notin Ptks \cup Gtks \cup {NoSuchKey}

(***************************************************************************)
(* The access point                                                        *)
(***************************************************************************)
Frame(msg, replayCnt, ptkOf, gtk, key) ==
  [msg |-> msg, replay |-> replayCnt, ptk |-> ptkOf, gtk |-> gtk, key |-> key]

\* It sends message msg, for the tries-th time, with the next replay counter.
ApSends(a, msg) ==
  /\ ap' = [a EXCEPT !.phase = msg, !.replay = @ + 1,
                     !.first = IF a.tries = 0 THEN a.replay + 1 ELSE @,
                     !.tries = @ + 1]
  /\ down' = Append(down, Frame(msg, a.replay + 1, a.ptk, a.gtk, a.key))

\* No answer: the message again, or at last a deauthentication.
ApTimeout ==
  /\ ap.phase \in {"msg1", "msg3", "group"}
  /\ Len(down) < MaxDown
  /\ IF ap.tries < MaxTx
     THEN ApSends(ap, ap.phase)
     ELSE /\ ap' = [ap EXCEPT !.phase = "off", !.key = NoKey]
          /\ down' = Append(down, Frame("deauth", 0, NoKey, 0, NoKey))
  /\ UNCHANGED <<icState, worker, task, rsn, prot, port, keys, firmware, up, history>>

ApDeauths ==
  /\ "deauth" \in Events
  /\ ap.phase # "off"
  /\ ap.round < MaxRounds
  /\ ap' = [ap EXCEPT !.phase = "off", !.key = NoKey]
  /\ down' = Append(down, Frame("deauth", 0, NoKey, 0, NoKey))
  /\ UNCHANGED <<icState, worker, task, rsn, prot, port, keys, firmware, up, history>>

\* A group key handshake, or another 4-way handshake, when one is complete.
ApRekeys ==
  /\ ap.phase = "done"
  /\ \/ /\ "grouprekey" \in Events
        /\ ap.gtk < MaxGtk
        /\ ApSends([ap EXCEPT !.gtk = @ + 1, !.tries = 0], "group")
     \/ /\ "rekey" \in Events
        /\ ap.round < MaxRounds
        /\ ApSends([ap EXCEPT !.round = @ + 1, !.tries = 0, !.ptk = <<ap.round + 1, 0>>], "msg1")
  /\ UNCHANGED <<icState, worker, task, rsn, prot, port, keys, firmware, up, history>>

\* It takes an answer to any of the frames it has sent of a message.  A frame
\* that is protected other than it expects is not taken.
ApReceives(f, key) ==
  IF key # ap.key \/ f.replay < ap.first
  THEN UNCHANGED <<ap, down>>
  ELSE CASE f.msg = "msg2" /\ ap.phase = "msg1" /\ f.ptk[1] = ap.round ->
              ApSends([ap EXCEPT !.ptk = f.ptk, !.tries = 0], "msg3")
         [] f.msg = "msg4" /\ ap.phase = "msg3" /\ f.ptk = ap.ptk ->
              ap' = [ap EXCEPT !.phase = "done", !.key = f.ptk] /\ UNCHANGED down
         [] f.msg = "gmsg2" /\ ap.phase = "group" /\ f.ptk = ap.ptk ->
              ap' = [ap EXCEPT !.phase = "done"] /\ UNCHANGED down
         [] OTHER -> UNCHANGED <<ap, down>>

\* The device sends a frame, encrypted with the key it has by then.
Transmit ==
  /\ up # <<>>
  /\ Head(up).prot # "wait"
  /\ up' = Tail(up)
  /\ \/ "loss" \in Events /\ UNCHANGED <<ap, down>>
     \/ ApReceives(Head(up), CASE Head(up).prot = "no" -> NoKey
                                [] hwPair = NoKey -> NoSuchKey
                                [] OTHER -> hwPair)
  /\ UNCHANGED <<icState, worker, task, rsn, prot, port, keys, firmware, history>>

(***************************************************************************)
(* Requests to the thread of sc_nswq                                       *)
(***************************************************************************)
\* task_add: a task is queued once.  Mutant: without the test.
QueuedAgain(q, t) == Append(q, t)
Queued(q, t) == IF Contains(q, t) THEN q ELSE Append(q, t)

\* mwx_newstate
Request(state) ==
  IF nsState = state /\ state \notin {"SCAN", "AUTH"}
  THEN UNCHANGED worker
  ELSE nsState' = state /\ nsq' = Queued(nsq, "newstate")

\* The requests of keys that mwx_set_key takes, in the order they are made: the
\* first that finds the ring full gets ENOSPC, and none is made after it.
Room == RingSize - 1 - Len(ring)
Taken(requests) == SubSeq(requests, 1, IF Len(requests) <= Room THEN Len(requests) ELSE Room)

(***************************************************************************)
(* The supplicant, run by the interrupt thread                             *)
(***************************************************************************)
Answer(msg, f, ptkOf) ==
  /\ Len(up) < MaxUp
  /\ up' = Append(up, [msg |-> msg, replay |-> f.replay, ptk |-> ptkOf,
                       prot |-> CASE icState # "RUN" -> "wait"
                                  [] txProt -> "yes"
                                  [] OTHER -> "no"])

\* ieee80211_inputm: with protection on, what the hardware did not decrypt is
\* dropped, in clear or not; with protection off, what is encrypted.
PassesInput(f) == IF rxProt THEN f.key # NoKey /\ f.key = hwPair ELSE f.key = NoKey

TakesMsg1(f) == f.msg = "msg1" /\ supp # "INITIALIZE" /\ f.replay > replay

RecvMsg1(f) ==
  /\ TakesMsg1(f)
  /\ anonce' = f.ptk[1] /\ snonce' = f.replay
  /\ newPtk' = TRUE
  /\ supp' = "PTKNEGOTIATING"
  /\ \/ "noframe" \in Events /\ UNCHANGED up
     \/ Answer("msg2", f, <<f.ptk[1], f.replay>>)
  /\ UNCHANGED <<icState, worker, replay, ptk, prot, port, keys, history>>

TakesMsg3(f) ==
  /\ f.msg = "msg3" /\ supp \in {"PTKNEGOTIATING", "PTKDONE"} /\ f.replay > replay
  /\ f.ptk = <<anonce, snonce>>

\* Message 4 is sent before the keys are requested; if it cannot be sent, they
\* wait for the message 3 that the access point will send again.  expectsPtk is
\* IEEE80211_NODE_RSN_NEW_PTK, defers whether a request in the ring defers the link.
HandleMsg3(f, expectsPtk, defers) ==
  LET pair == IF expectsPtk THEN <<Pairwise>> ELSE <<>>
      group == IF nwKeys[Kid(f.gtk)] = f.gtk THEN <<>> ELSE <<Kid(f.gtk)>>
      requests == pair \o group
      pairTaken == Len(pair) <= Room
      allTaken == Len(requests) <= Room
      opens == allTaken /\ ~(defers /\ requests # <<>>)
      queue == IF Taken(requests) # <<>> THEN Queued(nsq, "setkey") ELSE nsq
  IN /\ TakesMsg3(f)
     /\ ptk' = f.ptk /\ replay' = f.replay /\ supp' = "PTKDONE"
     /\ \/ /\ "noframe" \in Events
           /\ UNCHANGED <<up, newPtk, prot, port, keys, worker>>
        \/ /\ Answer("msg4", f, f.ptk)
           /\ pairKey' = IF expectsPtk THEN f.ptk ELSE pairKey
           /\ nwKeys' = IF pairTaken THEN [nwKeys EXCEPT ![Kid(f.gtk)] = f.gtk] ELSE nwKeys
           /\ ring' = ring \o Taken(requests)
           /\ newPtk' = (newPtk /\ ~pairTaken)
           /\ rxProt' = (allTaken \/ (expectsPtk /\ pairTaken) \/ rxProt)
           /\ txProt' = (allTaken \/ (txProt /\ ~(expectsPtk /\ pairTaken)))
           /\ portValid' = (portValid \/ opens) /\ linkUp' = (linkUp \/ opens)
           /\ IF allTaken
              THEN nsState' = nsState /\ nsq' = queue
              ELSE nsState' = "SCAN" /\ nsq' = Queued(queue, "newstate")
     /\ UNCHANGED <<icState, anonce, snonce, history>>

\* Mutants: the link comes up at once; every message 3 installs the pairwise key.
RecvMsg3UpAtOnce(f) == HandleMsg3(f, newPtk, FALSE)
RecvMsg3Reinstalls(f) == HandleMsg3(f, TRUE, TRUE)
RecvMsg3(f) == HandleMsg3(f, newPtk, TRUE)

TakesGroupMsg1(f) ==
  f.msg = "group" /\ supp = "PTKDONE" /\ f.replay > replay /\ f.ptk = ptk

\* ieee80211_recv_rsn_group_msg1 brings the link up at once.
RecvGroupMsg1(f) ==
  LET group == IF nwKeys[Kid(f.gtk)] = f.gtk THEN <<>> ELSE <<Kid(f.gtk)>>
  IN /\ TakesGroupMsg1(f)
     /\ nwKeys' = [nwKeys EXCEPT ![Kid(f.gtk)] = f.gtk]
     /\ IF Len(group) <= Room
        THEN /\ ring' = ring \o group
             /\ nsState' = nsState
             /\ nsq' = IF group = <<>> THEN nsq ELSE Queued(nsq, "setkey")
             /\ portValid' = TRUE /\ linkUp' = TRUE
             /\ replay' = f.replay
             /\ \/ "noframe" \in Events /\ UNCHANGED up
                \/ Answer("gmsg2", f, ptk)
        ELSE /\ Request("SCAN")
             /\ UNCHANGED <<ring, port, replay, up>>
     /\ UNCHANGED <<icState, supp, newPtk, anonce, snonce, ptk, prot, pairKey, history>>

RecvDeauth(f) ==
  /\ f.msg = "deauth"
  /\ Request("AUTH")
  /\ UNCHANGED <<icState, rsn, prot, port, keys, up, history>>

\* A frame that ieee80211_inputm or its handler returns from early.
Refuse(f) ==
  /\ f.msg # "deauth"
  /\ PassesInput(f) => ~(TakesMsg1(f) \/ TakesMsg3(f) \/ TakesGroupMsg1(f))
  /\ UNCHANGED <<icState, worker, rsn, prot, port, keys, up, history>>

\* The next frame arrives, or, if it is not a deauthentication, is lost.
Receive ==
  /\ down # <<>>
  /\ down' = Tail(down)
  /\ LET f == Head(down)
     IN \/ PassesInput(f) /\ (RecvMsg1(f) \/ RecvMsg3(f) \/ RecvGroupMsg1(f))
        \/ RecvDeauth(f)
        \/ Refuse(f)
  /\ UNCHANGED <<task, firmware, ap>>

Lose ==
  /\ "loss" \in Events
  /\ down # <<>> /\ Head(down).msg # "deauth"
  /\ down' = Tail(down)
  /\ UNCHANGED <<icState, worker, task, rsn, prot, port, keys, firmware, ap, up, history>>

(***************************************************************************)
(* The thread of sc_nswq: mwx_newstate_task and mwx_setkey_task            *)
(***************************************************************************)
\* ieee80211_crypto_clear_groupkeys.  Mutant: the firmware keeps them.
ClearGroupKeysInMemory ==
  nwKeys' = NoGroupKeys /\ UNCHANGED <<have, hwGroup>>
ClearGroupKeys ==
  /\ nwKeys' = NoGroupKeys
  /\ IF nwKeys = NoGroupKeys
     THEN UNCHANGED <<have, hwGroup>>
     ELSE have' = have \ {"group"} /\ hwGroup' = NoGroupKeys

\* ieee80211_newstate
NewState(state) ==
  /\ icState' = state
  /\ linkUp' = FALSE
  /\ IF state \in {"INIT", "SCAN", "AUTH"}
     THEN supp' = "INITIALIZE" /\ ClearGroupKeys
     ELSE UNCHANGED <<supp, nwKeys, have, hwGroup>>

\* In RUN the frames that had to wait are encapsulated.
NewStateTask ==
  /\ task = "idle"
  /\ nsq # <<>> /\ Head(nsq) = "newstate"
  /\ nsq' = Tail(nsq)
  /\ NewState(nsState)
  /\ up' = IF nsState # "RUN" THEN up
           ELSE [i \in DOMAIN up |-> IF up[i].prot # "wait" THEN up[i]
                   ELSE [up[i] EXCEPT !.prot = IF txProt THEN "yes" ELSE "no"]]
  /\ UNCHANGED <<nsState, task, newPtk, replay, anonce, snonce, ptk, prot, portValid,
                 pairKey, ring, hwPair, given, ap, down, history>>

BeginSetKeyTask ==
  /\ task = "idle"
  /\ nsq # <<>> /\ Head(nsq) = "setkey"
  /\ nsq' = Tail(nsq)
  /\ task' = "setkey"
  /\ UNCHANGED <<icState, nsState, rsn, prot, port, keys, firmware, ap, down, up, history>>

\* A request points at the key: it is read now.  What has been cleared since has
\* no IEEE80211_KEY_GROUP either.
IsGroup(request) == request # Pairwise /\ nwKeys[request] # NoKey

\* The firmware takes the key that a request points at.
Install(request) ==
  IF IsGroup(request)
  THEN /\ hwGroup' = [hwGroup EXCEPT ![request] = nwKeys[request]]
       /\ UNCHANGED <<hwPair, given>>
  ELSE LET key == IF request = Pairwise THEN pairKey ELSE NoKey
       IN /\ hwPair' = key
          /\ given' = given \cup ({key} \ {NoKey})
          /\ UNCHANGED hwGroup

\* mt7921_mcu_sta_key_update fails before its command is sent, or it gets no
\* answer to it; mwx_setkey_task does not look at the result.
SetKeyFails ==
  /\ "failset" \in Events
  /\ task = "setkey" /\ ring # <<>>
  /\ Install(Head(ring)) \/ UNCHANGED <<hwPair, hwGroup, given>>
  /\ ring' = Tail(ring)
  /\ failed' = TRUE
  /\ UNCHANGED <<icState, worker, task, rsn, prot, port, pairKey, nwKeys, have, ap, down, up,
                 stopped>>

SendSetKey ==
  /\ task = "setkey" /\ ring # <<>>
  /\ Install(Head(ring))
  /\ task' = "wait"
  /\ UNCHANGED <<icState, worker, rsn, prot, port, keys, have, ap, down, up, history>>

\* The answer is there: with both keys the link is up.
KeyAdded(flags) ==
  /\ task = "wait"
  /\ have' = flags
  /\ portValid' = (portValid \/ flags = {"pairwise", "group"})
  /\ linkUp' = (linkUp \/ flags = {"pairwise", "group"})
  /\ ring' = Tail(ring)
  /\ task' = "setkey"
  /\ UNCHANGED <<icState, worker, rsn, prot, pairKey, nwKeys, hwPair, hwGroup, given,
                 ap, down, up, history>>

Added == IF IsGroup(Head(ring)) THEN "group" ELSE "pairwise"

\* Mutant: the flag of this key replaces that of the other.
SetKeyDoneForgetsOther == KeyAdded({Added})
SetKeyDone == KeyAdded(have \cup {Added})

EndSetKeyTask ==
  /\ ring = <<>>
  /\ task = "setkey"
  /\ task' = "idle"
  /\ stopped' = FALSE
  /\ UNCHANGED <<icState, worker, rsn, prot, port, keys, firmware, ap, down, up, failed>>

(***************************************************************************)
(* Leaving and joining                                                     *)
(***************************************************************************)
\* The access point answers the authentication frame: ieee80211_recv_auth.
RecvAuth ==
  /\ icState = "AUTH" /\ nsState = "AUTH" /\ down = <<>>
  /\ txProt' = FALSE /\ rxProt' = FALSE /\ portValid' = FALSE /\ replay' = 0
  /\ have' = have \ {"pairwise"} /\ hwPair' = NoKey
  /\ Request("ASSOC")
  /\ ap' = [ap EXCEPT !.phase = "off", !.key = NoKey]
  /\ failed' = FALSE
  /\ UNCHANGED <<icState, task, supp, newPtk, anonce, snonce, ptk, linkUp, keys,
                 hwGroup, given, down, up, stopped>>

\* It answers the association request, and starts a handshake.
RecvAssocResp ==
  /\ icState = "ASSOC" /\ nsState = "ASSOC" /\ down = <<>>
  /\ ap.round < MaxRounds
  /\ supp' = "PTKSTART"
  /\ Request("RUN")
  /\ ApSends([ap EXCEPT !.round = @ + 1, !.ptk = <<ap.round + 1, 0>>, !.replay = 0,
                        !.tries = 0, !.key = NoKey], "msg1")
  /\ UNCHANGED <<icState, task, newPtk, replay, anonce, snonce, ptk, prot, port, keys,
                 firmware, up, history>>

\* The scan has found an access point: ieee80211_node_join_bss copies its node
\* over ic_bss, the flags of struct mwx_node stay.
JoinBss ==
  /\ icState = "SCAN" /\ nsState = "SCAN"
  /\ newPtk' = FALSE /\ txProt' = FALSE /\ rxProt' = FALSE /\ portValid' = FALSE
  /\ replay' = 0 /\ ptk' = NoKey /\ pairKey' = NoKey
  /\ Request("AUTH")
  /\ UNCHANGED <<icState, task, supp, anonce, snonce, linkUp, nwKeys, ring, firmware, ap,
                 down, up, history>>

\* mwx_stop, in another thread: it deletes the tasks that are queued and enters
\* INIT.  What is in the ring stays there.
Stop ==
  /\ "stop" \in Events
  /\ icState # "INIT"
  /\ nsq' = <<>>
  /\ nsState' = "INIT"
  /\ NewState("INIT")
  /\ stopped' = (ring # <<>>)
  /\ UNCHANGED <<task, newPtk, replay, anonce, snonce, ptk, prot, portValid, pairKey,
                 ring, hwPair, given, ap, down, up, failed>>

\* mwx_init
Start ==
  /\ icState = "INIT" /\ task = "idle"
  /\ Request("SCAN")
  /\ UNCHANGED <<icState, task, rsn, prot, port, keys, firmware, ap, down, up, history>>

\* The station has authenticated and sent its association request.
Init ==
  /\ icState = "ASSOC" /\ nsState = "ASSOC" /\ nsq = <<>> /\ task = "idle"
  /\ supp = "INITIALIZE" /\ newPtk = FALSE /\ replay = 0 /\ anonce = 0 /\ snonce = 0
  /\ ptk = NoKey /\ txProt = FALSE /\ rxProt = FALSE /\ portValid = FALSE /\ linkUp = FALSE
  /\ pairKey = NoKey /\ nwKeys = NoGroupKeys /\ ring = <<>>
  /\ have = {} /\ hwPair = NoKey /\ hwGroup = NoGroupKeys /\ given = {}
  /\ ap = [phase |-> "off", round |-> 0, replay |-> 0, first |-> 0, tries |-> 0,
           ptk |-> <<0, 0>>, key |-> NoKey, gtk |-> 1]
  /\ down = <<>> /\ up = <<>> /\ stopped = FALSE /\ failed = FALSE

Worker == NewStateTask \/ BeginSetKeyTask \/ SendSetKey \/ SetKeyFails \/ SetKeyDone \/ EndSetKeyTask
AccessPoint == ApTimeout \/ ApDeauths \/ ApRekeys
Next == Worker \/ AccessPoint \/ Transmit \/ Receive \/ Lose
          \/ RecvAuth \/ RecvAssocResp \/ JoinBss \/ Stop \/ Start

Spec == Init /\ [][Next]_vars

FairSpec ==
  /\ Spec
  /\ WF_vars(Worker) /\ WF_vars(Transmit) /\ WF_vars(Receive)
  /\ WF_vars(ApTimeout)

(***************************************************************************)
(* Properties                                                              *)
(***************************************************************************)
UpFrames == [msg : {"msg2", "msg4", "gmsg2"}, replay : 1..MaxReplay,
             ptk : Ptks, prot : {"yes", "no", "wait"}]

\* Every variable keeps its type; the ring is never over full and a task is
\* queued once (the ring of mwx_set_key, task_add).
TypeOK ==
  /\ icState \in {"INIT", "SCAN", "AUTH", "ASSOC", "RUN"}
  /\ nsState \in {"INIT", "SCAN", "AUTH", "ASSOC", "RUN"}
  /\ IsInjective(nsq) /\ Range(nsq) \subseteq {"newstate", "setkey"}
  /\ task \in {"idle", "setkey", "wait"}
  /\ supp \in {"INITIALIZE", "PTKSTART", "PTKNEGOTIATING", "PTKDONE"}
  /\ {newPtk, txProt, rxProt, portValid, linkUp, stopped, failed} \subseteq BOOLEAN
  /\ {replay, snonce} \subseteq 0..MaxReplay
  /\ anonce \in 0..MaxRounds
  /\ {ptk, pairKey, hwPair} \subseteq Ptks \cup {NoKey}
  /\ {nwKeys, hwGroup} \subseteq [Kids -> Gtks \cup {NoKey}]
  /\ Range(ring) \subseteq {Pairwise} \cup Kids /\ Len(ring) < RingSize
  /\ have \subseteq {"pairwise", "group"}
  /\ given \subseteq Ptks
  /\ Range(up) \subseteq UpFrames

\* The link is up only while the firmware has the pairwise key (the deferlink
\* of ieee80211_recv_4way_msg3, mt7921_mcu_sta_key_update), unless a key could
\* not be set or requests from before a mwx_stop are still being served.
LinkNeedsPairwiseKey ==
  linkUp /\ icState = "RUN" /\ ~stopped /\ ~failed => hwPair # NoKey

\* When the requests are served, the firmware has the keys that the supplicant
\* has, whatever came in between (requests point at the keys).
KeysSettle ==
  icState = "RUN" /\ nsState = "RUN" /\ supp = "PTKDONE" /\ ~newPtk
      /\ ring = <<>> /\ task = "idle" /\ ~failed
    => hwPair = pairKey /\ hwGroup = nwKeys

\* No pairwise key is given to the firmware twice ("Only install a new pairwise key if
\* we are still expecting a new key", ieee80211_pae_input.c:559),
\* unless a mwx_stop has left requests in the ring, which are served then too.
GivenAgain == SendSetKey /\ Head(ring) = Pairwise /\ pairKey \in given
PtkGivenOnceUnlessStopped == [][GivenAgain => stopped]_vars

\* A station that is associated and has no link gets one, or leaves, unless a
\* key could not be set.
HandshakeEnds ==
  (icState = "RUN" /\ ~linkUp) ~> (linkUp \/ icState # "RUN" \/ failed)

=============================================================================
