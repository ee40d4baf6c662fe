----------------------------- MODULE RemoteRelay -----------------------------
(***************************************************************************)
(* The relay of messages from one bud to the other (remote_mgr.c), over    *)
(* the data channel of bt_rdtp.c and an ACL link that the power manager    *)
(* bt_pm.c takes in and out of sniff mode.  The relay is a subscriber of   *)
(* the power manager, and calls it back from within its callback.          *)
(*                                                                         *)
(* The ACL link is up and ready throughout; sessions come and go on it.    *)
(* An action is one handler of the host of one bud.  The sender's link is  *)
(* the record of BtPmOps with the fields of T_REMOTE_DB added:             *)
(*                                                                         *)
(*   refused   a history nobody asks for here: it stays as it is           *)
(*   queue, credits, tx_seq   as in T_REMOTE_DB                            *)
(*   armed, fired   the retransmission timer is counting, and its expiry   *)
(*                  messages in the sys_timer queue                        *)
(*   rsps           L2C_DATA_RSP still to come                             *)
(*   chan           what was sent and has not reached the peer             *)
(*   noBuf          bound: times mpa_get_l2c_buf may still return NULL     *)
(***************************************************************************)
EXTENDS SniffController, FiniteSetsExt

CONSTANTS
    QueueNum,       \* REMOTE_MSG_QUEUE_NUM
    MsgCredits,     \* REMOTE_MSG_CREDITS
    SeqMod,         \* 2^8: seq is a uint8_t
    MaxCalls,       \* bound: calls of remote_async_msg_relay
    MaxRefusals,    \* bound: calls refused in a row
    MaxNoBuf,       \* bound: failures of mpa_get_l2c_buf
    MaxInFlight,    \* bound: the peer changes the mode with fewer in flight
    MaxPosted       \* bound: expiry messages of each timer in the queue

ASSUME RemoteRelayAssumption ==
    /\ {QueueNum, MsgCredits, MaxCalls, MaxRefusals, MaxNoBuf, MaxInFlight, MaxPosted} \subseteq Nat
    /\ SeqMod \in Nat \ {0}
    /\ MsgCredits > 0

VARIABLES
    session,    \* the session at the sender: "down", "up", or "closing" once
                \* remote_session_close was called
    calls,      \* calls of remote_async_msg_relay so far, the number of a message
    refused,    \* the last calls that were refused, in a row
    rup,        \* the session at the receiver
    rx_seq,     \* T_REMOTE_DB.rx_seq of the receiver
    last        \* the message the receiver's channel callback got last

vars == <<link, mode, evq, session, calls, refused, rup, rx_seq, last>>

Init ==
    /\ link = [pm_state |-> "ACTIVE", pm_action |-> "IDLE", pm_enable |-> TRUE,
               policy |-> TRUE, listed |-> TRUE, running |-> TRUE, posted |-> 0,
               cmds |-> <<>>, unexpected |-> FALSE, refused |-> "now",
               queue |-> <<>>, credits |-> 0, tx_seq |-> 0,
               armed |-> FALSE, fired |-> 0, rsps |-> 0, chan |-> <<>>, noBuf |-> MaxNoBuf]
    /\ mode = "active"
    /\ evq = <<>>
    /\ session = "down"
    /\ calls = 0
    /\ refused = 0
    /\ rup = FALSE
    /\ rx_seq = 0
    /\ last = 0

Up == session # "down"

-----------------------------------------------------------------------------
(* remote_msg_dequeue                                                      *)

\* n messages given to bt_rdtp_data_send, which asks to leave sniff mode first.
Sent(s, n) ==
    {[t EXCEPT !.queue = SubSeq(s.queue, n + 1, Len(s.queue)),
               !.chan = @ \o SubSeq(s.queue, 1, n),
               !.credits = @ - n,
               !.rsps = @ + n] :
        t \in IF n = 0 THEN {s} ELSE bt_sniff_mode_exit(s, FALSE)}

\* Mutant: the credit is taken before the send is known to succeed.
SendFailsCredit(s) ==
    (IF session = "up" THEN {} ELSE {[s EXCEPT !.armed = TRUE, !.credits = @ - 1]})
        \cup (IF s.noBuf = 0 THEN {}
              ELSE {[s EXCEPT !.armed = TRUE, !.credits = @ - 1, !.noBuf = @ - 1]})

\* The send that ends the loop: the channel is closing, or there is no buffer.
SendFails(s) ==
    (IF session = "up" THEN {} ELSE {[s EXCEPT !.armed = TRUE]})
        \cup (IF s.noBuf = 0 THEN {} ELSE {[s EXCEPT !.armed = TRUE, !.noBuf = @ - 1]})

\* A failed send leaves some of the messages there is a credit for.
SentInPart(s, most) == UNION {UNION {SendFails(t) : t \in Sent(s, n)} : n \in 0..(most - 1)}

remote_msg_dequeue(s) ==
    LET most == Min({Len(s.queue), s.credits})
    IN  CASE s.pm_state # "ACTIVE" -> SniffExitReq(s)
          [] s.pm_state = "ACTIVE" /\ most = 0 -> {s}
          [] s.pm_state = "ACTIVE" /\ most > 0 /\ session = "up" ->
                Sent(s, most) \cup SentInPart(s, most)
          [] OTHER -> SendFails(s)

-----------------------------------------------------------------------------
(* remote_async_msg_relay                                                  *)

\* Mutant: the queue takes one message more.
RelayOneMore ==
    /\ Up
    /\ calls < MaxCalls
    /\ calls' = calls + 1
    /\ LET s == [link EXCEPT !.tx_seq = (@ + 1) % SeqMod]
           m == [id |-> calls + 1, seq |-> s.tx_seq]
       IN  /\ Len(s.queue) <= QueueNum
           /\ link' \in remote_msg_dequeue([s EXCEPT !.queue = Append(@, m)])
           /\ refused' = 0
    /\ UNCHANGED <<mode, evq, session, rup, rx_seq, last>>

Relay ==
    /\ Up
    /\ calls < MaxCalls
    /\ calls' = calls + 1
    /\ LET s == [link EXCEPT !.tx_seq = (@ + 1) % SeqMod]
           m == [id |-> calls + 1, seq |-> s.tx_seq]
       IN  \/ /\ Len(s.queue) < QueueNum
              /\ link' \in remote_msg_dequeue([s EXCEPT !.queue = Append(@, m)])
              /\ refused' = 0
           \/ /\ Len(s.queue) = QueueNum
              /\ refused < MaxRefusals
              /\ link' = s
              /\ refused' = refused + 1
    /\ UNCHANGED <<mode, evq, session, rup, rx_seq, last>>

-----------------------------------------------------------------------------
(* remote_bt_pm_cback, between the two halves of the handler of an event.  *)

\* Mutant: the callback only acts on the events after which the link is active.
CbackOnActive(s, ev) ==
    IF ev \in {"conn_sniff", "exit_fail"} THEN {s} ELSE remote_msg_dequeue(s)

remote_bt_pm_cback(s, ev) ==
    IF ev \in {"conn_sniff", "exit_fail"}
    THEN IF s.queue # <<>> THEN SniffExitReq(s) ELSE {s}
    ELSE remote_msg_dequeue(s)

Handle(s, ev) ==
    IF PmIgnores(s, ev) THEN {s}
    ELSE UNION {UNION {PmEnd(u, ev) : u \in IF Up THEN remote_bt_pm_cback(t, ev) ELSE {t}} :
                  t \in PmBegin(s, ev)}

HandleEvent ==
    /\ evq # <<>>
    /\ link' \in Handle(link, Head(evq))
    /\ evq' = Tail(evq)
    /\ UNCHANGED <<mode, session, calls, refused, rup, rx_seq, last>>

\* Mutant: messages that wait do not keep the link awake.
NeverVetoed == FALSE

\* remote_session_mode_req(REMOTE_SESSION_MODE_SLEEP)
Vetoed == Up /\ link.queue # <<>>

-----------------------------------------------------------------------------
(* Timers.                                                                 *)

IdleTimerExpires ==
    /\ link.running
    /\ link.posted < MaxPosted
    /\ link' = [link EXCEPT !.running = FALSE, !.posted = @ + 1]
    /\ UNCHANGED <<mode, evq, session, calls, refused, rup, rx_seq, last>>

bt_pm_timeout_cback ==
    /\ link.posted > 0
    /\ LET taken == [link EXCEPT !.posted = @ - 1]
       IN  link' \in IF taken.listed THEN SniffEnterReq(taken, Vetoed) ELSE {taken}
    /\ UNCHANGED <<mode, evq, session, calls, refused, rup, rx_seq, last>>

RetransTimerExpires ==
    /\ link.armed
    /\ link.fired < MaxPosted
    /\ link' = [link EXCEPT !.armed = FALSE, !.fired = @ + 1]
    /\ UNCHANGED <<mode, evq, session, calls, refused, rup, rx_seq, last>>

remote_retrans_timer_cback ==
    /\ link.fired > 0
    /\ link' \in {[t EXCEPT !.armed = @ \/ t.queue # <<>>] :
                    t \in remote_msg_dequeue([link EXCEPT !.fired = @ - 1])}
    /\ UNCHANGED <<mode, evq, session, calls, refused, rup, rx_seq, last>>

-----------------------------------------------------------------------------
(* The data channel.                                                       *)

\* Mutant: a response gives the credit back and sends nothing.
DataRspCreditOnly ==
    /\ link.rsps > 0
    /\ link' = [link EXCEPT !.rsps = @ - 1,
                            !.credits = IF @ < MsgCredits THEN @ + 1 ELSE @]
    /\ UNCHANGED <<mode, evq, session, calls, refused, rup, rx_seq, last>>

remote_relay_data_rsp ==
    /\ link.rsps > 0
    /\ link' \in remote_msg_dequeue(
                    [link EXCEPT !.rsps = @ - 1,
                                 !.credits = IF @ < MsgCredits THEN @ + 1 ELSE @])
    /\ UNCHANGED <<mode, evq, session, calls, refused, rup, rx_seq, last>>

remote_relay_data_ind ==
    /\ rup
    /\ link.chan # <<>>
    /\ LET m == Head(link.chan)
       IN  IF m.seq = rx_seq THEN UNCHANGED <<rx_seq, last>>
           ELSE rx_seq' = m.seq /\ last' = m.id
    /\ link' = [link EXCEPT !.chan = Tail(@)]
    /\ UNCHANGED <<mode, evq, session, calls, refused, rup>>

\* BT_IPC_REMOTE_CONNECTED, at both ends.
SessionConnected ==
    /\ session = "down" /\ ~rup
    /\ session' = "up" /\ rup' = TRUE
    /\ link' = [link EXCEPT !.credits = MsgCredits]
    /\ UNCHANGED <<mode, evq, calls, refused, rx_seq, last>>

\* remote_session_close -> bt_rdtp_disconnect_req
remote_session_close ==
    /\ session = "up"
    /\ session' = "closing"
    /\ link' \in bt_sniff_mode_exit(link, FALSE)
    /\ UNCHANGED <<mode, evq, calls, refused, rup, rx_seq, last>>

\* Mutant: tx_seq goes on counting into the next session.
SenderKeepsSeq ==
    /\ Up
    /\ session' = "down"
    /\ link' = [link EXCEPT !.queue = <<>>, !.rsps = 0, !.chan = IF rup THEN @ ELSE <<>>]
    /\ refused' = 0
    /\ UNCHANGED <<mode, evq, calls, rup, rx_seq, last>>

\* BT_IPC_REMOTE_DISCONNECTED at the sender.  What was sent may still arrive
\* as long as the receiver has not closed; no response comes any more.
SenderDisconnected ==
    /\ Up
    /\ session' = "down"
    /\ link' = [link EXCEPT !.queue = <<>>, !.tx_seq = 0, !.rsps = 0,
                            !.chan = IF rup THEN @ ELSE <<>>]
    /\ refused' = 0
    /\ UNCHANGED <<mode, evq, calls, rup, rx_seq, last>>

\* The same handler at the receiver.
ReceiverDisconnected ==
    /\ rup
    /\ rup' = FALSE
    /\ rx_seq' = 0
    /\ link' = [link EXCEPT !.chan = <<>>]
    /\ UNCHANGED <<mode, evq, session, calls, refused, last>>

-----------------------------------------------------------------------------
Ctrl == (CtrlSucceeds \/ CtrlFails) /\ UNCHANGED <<session, calls, refused, rup, rx_seq, last>>

PeerSniffs ==
    /\ Len(link.cmds) + Len(evq) < MaxInFlight
    /\ PeerChangesMode
    /\ UNCHANGED <<session, calls, refused, rup, rx_seq, last>>

Next ==
    \/ Relay
    \/ HandleEvent
    \/ IdleTimerExpires \/ bt_pm_timeout_cback
    \/ RetransTimerExpires \/ remote_retrans_timer_cback
    \/ remote_relay_data_rsp \/ remote_relay_data_ind
    \/ SessionConnected \/ remote_session_close
    \/ SenderDisconnected \/ ReceiverDisconnected
    \/ Ctrl \/ PeerSniffs

Spec == Init /\ [][Next]_vars

\* The host handles its events, the timers run, the channel transports, and a
\* session that one end has closed is closed at the other.  Nobody must call
\* remote_async_msg_relay or close a session.
FairSpec ==
    /\ Spec
    /\ WF_vars(Ctrl) /\ WF_vars(HandleEvent)
    /\ WF_vars(RetransTimerExpires) /\ WF_vars(remote_retrans_timer_cback)
    /\ WF_vars(remote_relay_data_rsp) /\ WF_vars(remote_relay_data_ind)
    /\ WF_vars((session = "closing" \/ ~rup) /\ SenderDisconnected)

-----------------------------------------------------------------------------
(* Properties.                                                             *)

Messages == [id : 1..MaxCalls, seq : 0..(SeqMod - 1)]

TypeOK ==
    /\ link.pm_state \in PmState /\ link.pm_action \in PmAction
    /\ link.queue \in Seq(Messages) /\ Len(link.queue) <= QueueNum
    /\ link.chan \in Seq(Messages)
    /\ link.credits \in 0..MsgCredits /\ link.tx_seq \in 0..(SeqMod - 1)
    /\ link.armed \in BOOLEAN /\ link.fired \in 0..MaxPosted
    /\ link.rsps \in Nat /\ link.noBuf \in 0..MaxNoBuf
    /\ mode \in Modes /\ evq \in Seq(PmEvents)
    /\ session \in {"down", "up", "closing"}
    /\ calls \in 0..MaxCalls /\ refused \in 0..MaxRefusals
    /\ rup \in BOOLEAN /\ rx_seq \in 0..(SeqMod - 1) /\ last \in 0..MaxCalls

\* Every credit is either in the relay's hands or on its way back as the
\* response to a message that was sent: sends that fail, sessions that end
\* with responses missing and the cap of remote_relay_data_rsp lose none and
\* make none.
CreditsConserved == Up => link.credits + link.rsps = MsgCredits

\* Messages that wait always wait for something: a response that brings a
\* credit, the retransmission timer, or the mode change whose event makes
\* remote_bt_pm_cback send them or ask to leave sniff mode again.
BacklogHasWaker ==
    session = "up" /\ link.queue # <<>> =>
        \/ link.credits = 0 /\ link.rsps > 0
        \/ link.armed \/ link.fired > 0
        \/ link.pm_state \in {"SNIFF_PENDING", "ACTIVE_PENDING"}

\* No command to enter sniff mode is given while messages wait: not by the idle
\* timer, and not by a request that was remembered before they came.
EntersSniffDrained ==
    [][link'.pm_state = "SNIFF_PENDING" /\ link.pm_state # "SNIFF_PENDING" /\ Up' =>
          link'.queue = <<>>]_vars

\* The relay is what RelayService promises.  What is in the queue and in the
\* channel is what was accepted and not delivered.
Pending ==
    LET all == link.chan \o link.queue IN [i \in DOMAIN all |-> all[i].id]

Service == INSTANCE RelayService
             WITH Msgs <- 1..MaxCalls, pending <- Pending, up <- Up

DeliversInOrder == Service!Spec

\* A message that was accepted reaches the peer, or the session ends.
InTransit(m) == \E i \in DOMAIN Pending : Pending[i] = m

AcceptedIsSettled == \A m \in 1..MaxCalls : InTransit(m) ~> ~InTransit(m)
=============================================================================
