-------------------------- MODULE RemoteRelay_proofs --------------------------
(***************************************************************************)
(* What is proved of RemoteRelay, for any size of the queue, any number of *)
(* credits and of sequence numbers, and any bounds.                        *)
(*                                                                         *)
(* The operators of bt_pm leave the relay alone (PmMoves); sending moves   *)
(* messages from the queue to the channel and credits to responses         *)
(* (Moved).  Inv adds to the properties what a session leaves behind       *)
(* (Closed) and that a request to enter sniff mode is remembered only      *)
(* while nothing waits (Drained).                                          *)
(*                                                                         *)
(* For the refinement, FlowInv says of the messages on their way, first    *)
(* the channel and then the queue, that they are in the order they were    *)
(* accepted, that no two neighbours have the same seq, and how far tx_seq  *)
(* is from the seq that was used last: as many as were refused since.      *)
(***************************************************************************)
EXTENDS RemoteRelay, TLAPS, SequenceTheorems

Seqs == 0..(SeqMod - 1)

Links ==
    [pm_state : PmState, pm_action : PmAction, pm_enable : BOOLEAN,
     policy : BOOLEAN, listed : BOOLEAN, running : BOOLEAN,
     posted : Nat, cmds : Seq(Commands), unexpected : BOOLEAN, refused : Refusals,
     queue : Seq(Messages), credits : Nat, tx_seq : Seqs,
     armed : BOOLEAN, fired : 0..MaxPosted, rsps : Nat, chan : Seq(Messages),
     noBuf : 0..MaxNoBuf]

\* What the power manager may do to the link when it is asked for a mode.
PmMoves(s, t) ==
    /\ t \in Links
    /\ t.queue = s.queue /\ t.credits = s.credits /\ t.tx_seq = s.tx_seq
    /\ t.armed = s.armed /\ t.fired = s.fired /\ t.rsps = s.rsps
    /\ t.chan = s.chan /\ t.noBuf = s.noBuf

\* bt_sniff_mode_enter and _exit note the request in pm_action; nothing of the relay
\* changes.
LEMMA NotedMoves ==
    ASSUME NEW s \in Links, NEW a \in PmAction
    PROVE  /\ PmMoves(s, Noted(s, a))
           /\ Noted(s, a).pm_state = s.pm_state /\ Noted(s, a).pm_action = a
<1>1. s.unexpected \/ Marked(s) \in BOOLEAN
  BY DEF Links, Marked
<1> DEFINE b == s.unexpected \/ Marked(s)
<1>2. Noted(s, a) = [s EXCEPT !.pm_action = a, !.unexpected = b]
  BY DEF Noted
<1>3. b \in BOOLEAN
  BY <1>1
<1> HIDE DEF b
<1> QED BY <1>2, <1>3 DEF Links, PmMoves

\* A call GAP refuses only leaves its history, and only where GAP may refuse.
LEMMA RefusedMoves ==
    ASSUME NEW s \in Links, NEW t \in Refused(s)
    PROVE  /\ PmMoves(s, t) /\ t.pm_state = s.pm_state /\ t.pm_action = s.pm_action
           /\ GapMayReject = TRUE
<1>1. GapMayReject = TRUE /\ t = [s EXCEPT !.refused = "now"]
  BY GapMayRejectAssumption DEF Refused
<1> QED BY <1>1 DEF Links, PmMoves, Refusals

\* A move of the power manager leads to a link.
LEMMA PmMovesTyped == \A s, t : PmMoves(s, t) => t \in Links
BY DEF PmMoves

\* A command that is issued puts the link in the transient state of the command,
\* unless GAP refuses it.
LEMMA IssueMoves ==
    ASSUME NEW s \in Links, NEW cmd \in Commands, NEW pending \in PmState, NEW t \in Issue(s, cmd, pending)
    PROVE  /\ PmMoves(s, t) /\ t.pm_action = s.pm_action
           /\ \/ t.pm_state = pending
              \/ GapMayReject = TRUE /\ t.pm_state = s.pm_state
<1>1. CASE t \in Refused(s)
  BY <1>1, RefusedMoves
<1>2. CASE t = [s EXCEPT !.pm_state = pending, !.cmds = Append(s.cmds, cmd)]
  <2>1. Append(s.cmds, cmd) \in Seq(Commands)
    BY DEF Links
  <2> QED BY <1>2, <2>1 DEF Links, PmMoves
<1>3. s.cmds \in Seq(Commands)
  BY DEF Links
<1> QED BY <1>1, <1>2, <1>3 DEF Issue, Links

\* bt_sniff_mode_enter leaves a request pending only in ACTIVE_PENDING, and takes
\* the link from ACTIVE to SNIFF_PENDING or leaves its state.
LEMMA EnterMoves ==
    ASSUME NEW s \in Links, NEW t \in bt_sniff_mode_enter(s)
    PROVE  /\ PmMoves(s, t)
           /\ t.pm_action # "IDLE" => t.pm_action = "SNIFF_ENTER" /\ t.pm_state = "ACTIVE_PENDING"
           /\ \/ t.pm_state = s.pm_state
              \/ s.pm_state = "ACTIVE" /\ t.pm_state = "SNIFF_PENDING"
<1>1. "IDLE" \in PmAction /\ "SNIFF_ENTER" \in PmAction /\ "enter" \in Commands /\ "SNIFF_PENDING" \in PmState
  BY DEF PmAction, Commands, PmState
<1>2. s.pm_state \in {"ACTIVE", "SNIFF_PENDING", "SNIFF", "ACTIVE_PENDING"}
  BY DEF Links, PmState
<1> DEFINE idle == Noted(s, "IDLE")
           back == Noted(s, "SNIFF_ENTER")
<1>3. PmMoves(s, idle) /\ idle.pm_state = s.pm_state /\ idle.pm_action = "IDLE"
  BY <1>1, NotedMoves
<1>4. PmMoves(s, back) /\ back.pm_state = s.pm_state /\ back.pm_action = "SNIFF_ENTER"
  BY <1>1, NotedMoves
<1>5. CASE s.pm_state = "ACTIVE"
  <2>1. t \in Issue(idle, "enter", "SNIFF_PENDING")
    BY <1>5 DEF bt_sniff_mode_enter
  <2> HIDE DEF idle
  <2>2. /\ PmMoves(idle, t) /\ t.pm_action = "IDLE"
        /\ t.pm_state = "SNIFF_PENDING" \/ t.pm_state = idle.pm_state
    BY <1>1, <1>3, <2>1, IssueMoves, PmMovesTyped
  <2> QED BY <1>3, <1>5, <2>2 DEF PmMoves
<1>6. CASE s.pm_state \in {"SNIFF_PENDING", "SNIFF"}
  <2>1. t = idle
    BY <1>6 DEF bt_sniff_mode_enter
  <2> HIDE DEF idle
  <2> QED BY <1>3, <2>1
<1>7. CASE s.pm_state = "ACTIVE_PENDING"
  <2>1. t = back
    BY <1>7 DEF bt_sniff_mode_enter
  <2> HIDE DEF back
  <2> QED BY <1>4, <1>7, <2>1
<1> QED BY <1>2, <1>5, <1>6, <1>7

\* Starting or stopping timer_sniff changes neither the state nor the relay.
LEMMA StartMoves ==
    ASSUME NEW s \in Links
    PROVE  /\ PmMoves(s, sys_timer_start(s)) /\ PmMoves(s, sys_timer_stop(s))
           /\ sys_timer_start(s).pm_state = s.pm_state /\ sys_timer_start(s).pm_action = s.pm_action
           /\ sys_timer_stop(s).pm_state = s.pm_state /\ sys_timer_stop(s).pm_action = s.pm_action
BY DEF sys_timer_start, sys_timer_stop, Links, PmMoves

\* bt_sniff_mode_exit leaves no request to enter sniff mode, takes the link from
\* SNIFF to ACTIVE_PENDING or leaves its state, and never leaves it in SNIFF unless
\* GAP refused the command.
LEMMA ExitMoves ==
    ASSUME NEW s \in Links, NEW refresh \in BOOLEAN, NEW t \in bt_sniff_mode_exit(s, refresh)
    PROVE  /\ PmMoves(s, t)
           /\ t.pm_action # "SNIFF_ENTER"
           /\ \/ t.pm_state = s.pm_state
              \/ s.pm_state = "SNIFF" /\ t.pm_state = "ACTIVE_PENDING"
           /\ GapMayReject = FALSE => t.pm_state # "SNIFF"
<1>1. "IDLE" \in PmAction /\ "SNIFF_EXIT" \in PmAction /\ "exit" \in Commands /\ "ACTIVE_PENDING" \in PmState
  BY DEF PmAction, Commands, PmState
<1>2. s.pm_state \in {"ACTIVE", "SNIFF_PENDING", "SNIFF", "ACTIVE_PENDING"}
  BY DEF Links, PmState
<1> DEFINE idle == Noted(s, "IDLE")
           back == Noted(s, "SNIFF_EXIT")
<1>3. PmMoves(s, idle) /\ idle.pm_state = s.pm_state /\ idle.pm_action = "IDLE"
  BY <1>1, NotedMoves
<1>4. PmMoves(s, back) /\ back.pm_state = s.pm_state /\ back.pm_action = "SNIFF_EXIT"
  BY <1>1, NotedMoves
<1>5. CASE s.pm_state = "ACTIVE"
  <2>1. t = IF refresh THEN sys_timer_start(idle) ELSE idle
    BY <1>5 DEF bt_sniff_mode_exit
  <2> HIDE DEF idle
  <2>2. PmMoves(idle, sys_timer_start(idle)) /\ sys_timer_start(idle).pm_state = idle.pm_state
        /\ sys_timer_start(idle).pm_action = idle.pm_action
    BY <1>3, StartMoves DEF PmMoves
  <2> QED BY <1>3, <1>5, <2>1, <2>2 DEF PmMoves
<1>6. CASE s.pm_state = "SNIFF"
  <2>1. t \in Issue(idle, "exit", "ACTIVE_PENDING")
    BY <1>6 DEF bt_sniff_mode_exit
  <2> HIDE DEF idle
  <2>2. /\ PmMoves(idle, t) /\ t.pm_action = "IDLE"
        /\ \/ t.pm_state = "ACTIVE_PENDING"
           \/ GapMayReject = TRUE /\ t.pm_state = idle.pm_state
    BY <1>1, <1>3, <2>1, IssueMoves, PmMovesTyped
  <2> QED BY <1>3, <1>6, <2>2 DEF PmMoves
<1>7. CASE s.pm_state = "SNIFF_PENDING"
  <2>1. t = back
    BY <1>7 DEF bt_sniff_mode_exit
  <2> HIDE DEF back
  <2> QED BY <1>4, <1>7, <2>1
<1>8. CASE s.pm_state = "ACTIVE_PENDING"
  <2>1. t = idle
    BY <1>8 DEF bt_sniff_mode_exit
  <2> HIDE DEF idle
  <2> QED BY <1>3, <1>8, <2>1
<1> QED BY <1>2, <1>5, <1>6, <1>7, <1>8

-----------------------------------------------------------------------------
(* Sending.                                                                *)

Woken(s) ==
    \/ s.credits = 0 /\ s.rsps > 0
    \/ s.armed \/ s.fired > 0
    \/ s.pm_state \in {"SNIFF_PENDING", "ACTIVE_PENDING"}

\* The expiry messages of the retransmission timer.
LEMMA FiredField == \A s \in Links : s.fired \in Nat /\ s.fired <= MaxPosted
BY DEF Links

\* Sending moves messages from the queue to the channel and credits to the
\* responses that are to come.
Moved(s, t) ==
    /\ t \in Links
    /\ t.credits + t.rsps = s.credits + s.rsps /\ t.credits <= s.credits
    /\ t.tx_seq = s.tx_seq /\ t.fired = s.fired
    /\ t.chan \o t.queue = s.chan \o s.queue
    /\ Len(t.queue) <= Len(s.queue)
    /\ s.queue = <<>> => t.queue = <<>> /\ t.chan = s.chan /\ t.credits = s.credits
    /\ t.pm_action = "SNIFF_ENTER" => s.pm_action = "SNIFF_ENTER"

\* What is assumed of the constants, in the form the steps use.
LEMMA Constants ==
    /\ QueueNum \in Nat /\ MsgCredits \in Nat /\ MsgCredits > 0 /\ SeqMod \in Nat /\ SeqMod > 0
    /\ MaxCalls \in Nat /\ MaxRefusals \in Nat /\ MaxNoBuf \in Nat /\ MaxPosted \in Nat
BY RemoteRelayAssumption

\* tx_seq counted on is a number again.
LEMMA CountedTyped ==
    ASSUME NEW b \in Seqs
    PROVE  (b + 1) % SeqMod \in Seqs
<1>1. SeqMod \in Nat /\ SeqMod > 0 /\ b \in Nat /\ b + 1 \in Nat
  BY Constants DEF Seqs
<1>2. (b + 1) % SeqMod \in 0..(SeqMod - 1)
  BY <1>1
<1> QED BY <1>2 DEF Seqs

\* The smaller of the queue's length and the credits.
LEMMA MinIs ==
    ASSUME NEW a \in Nat, NEW b \in Nat
    PROVE  Min({a, b}) = IF a <= b THEN a ELSE b
BY DEF Min

\* The types of the fields that sending is about.
LEMMA LinkFields ==
    ASSUME NEW s \in Links
    PROVE  /\ s.queue \in Seq(Messages) /\ Len(s.queue) \in Nat /\ s.chan \in Seq(Messages)
           /\ s.credits \in Nat /\ s.rsps \in Nat /\ s.pm_state \in PmState
BY DEF Links

\* What the power manager does by itself is a special case of sending nothing.
LEMMA PmMovesMoved ==
    ASSUME NEW s \in Links, NEW t, PmMoves(s, t), t.pm_action = "SNIFF_ENTER" => s.pm_action = "SNIFF_ENTER"
    PROVE  Moved(s, t)
BY LinkFields DEF PmMoves, Moved

\* A queue is what is sent of it and the rest.
LEMMA Split ==
    ASSUME NEW S, NEW q \in Seq(S), NEW n \in 0..Len(q)
    PROVE  /\ SubSeq(q, 1, n) \in Seq(S) /\ Len(SubSeq(q, 1, n)) = n
           /\ SubSeq(q, n + 1, Len(q)) \in Seq(S) /\ Len(SubSeq(q, n + 1, Len(q))) = Len(q) - n
           /\ SubSeq(q, 1, n) \o SubSeq(q, n + 1, Len(q)) = q
<1>1. \A i \in 1..Len(q) : q[i] \in S
  OBVIOUS
<1>2. SubSeq(q, 1, n) \in Seq(S) /\ Len(SubSeq(q, 1, n)) = n
  BY <1>1, SubSeqProperties
<1>3. SubSeq(q, n + 1, Len(q)) \in Seq(S) /\ Len(SubSeq(q, n + 1, Len(q))) = Len(q) - n
  BY <1>1, SubSeqProperties
<1>4. SubSeq(q, 1, n) \o SubSeq(q, n + 1, Len(q)) = SubSeq(q, 1, Len(q))
  <2>1. /\ Len(q) \in Nat /\ 1 \in 1..Len(q) + 1
        /\ n \in 1 - 1..Len(q) /\ Len(q) \in n..Len(q)
    OBVIOUS
  <2> QED BY <2>1, ConcatAdjacentSubSeq
<1> QED BY <1>2, <1>3, <1>4, SubSeqFull

\* Concatenation is associative, for the messages of this relay.
LEMMA JoinAssociative ==
    \A a, b, c \in Seq(Messages) : (a \o b) \o c = a \o (b \o c)
BY ConcatAssociative

\* bt_rdtp_data_send for n messages, each with the credit it has: the exit from
\* sniff mode it asks for changes nothing on an active link.
LEMMA SentMoves ==
    ASSUME NEW s \in Links, s.pm_state = "ACTIVE", NEW n \in 0..Len(s.queue), n <= s.credits,
           NEW t \in Sent(s, n)
    PROVE  /\ Moved(s, t) /\ t.pm_state = "ACTIVE" /\ t.armed = s.armed
           /\ t.credits = s.credits - n /\ Len(t.queue) = Len(s.queue) - n /\ t.noBuf = s.noBuf
<1>1. PICK u \in (IF n = 0 THEN {s} ELSE bt_sniff_mode_exit(s, FALSE)) :
        t = [u EXCEPT !.queue = SubSeq(s.queue, n + 1, Len(s.queue)),
                      !.chan = @ \o SubSeq(s.queue, 1, n),
                      !.credits = @ - n,
                      !.rsps = @ + n]
  BY DEF Sent
<1>2. /\ PmMoves(s, u) /\ u.pm_state = "ACTIVE"
      /\ u.pm_action = "SNIFF_ENTER" => s.pm_action = "SNIFF_ENTER"
  <2>1. PmMoves(s, s)
    BY DEF PmMoves
  <2>2. FALSE \in BOOLEAN
    OBVIOUS
  <2> QED BY <1>1, <2>1, <2>2, ExitMoves
<1> DEFINE gone == SubSeq(s.queue, 1, n)
           rest == SubSeq(s.queue, n + 1, Len(s.queue))
<1>3. /\ gone \in Seq(Messages) /\ rest \in Seq(Messages)
      /\ Len(rest) = Len(s.queue) - n /\ Len(gone) = n
      /\ gone \o rest = s.queue
  BY LinkFields, Split
<1>4. t = [u EXCEPT !.queue = rest, !.chan = s.chan \o gone,
                    !.credits = s.credits - n, !.rsps = s.rsps + n]
  BY <1>1, <1>2 DEF PmMoves
<1> HIDE DEF gone, rest
<1>5. s.chan \o gone \in Seq(Messages) /\ s.credits - n \in Nat /\ s.rsps + n \in Nat
  BY <1>3, LinkFields
<1>6. /\ t \in Links
      /\ t.queue = rest /\ t.chan = s.chan \o gone /\ t.credits = s.credits - n /\ t.rsps = s.rsps + n
      /\ t.pm_state = u.pm_state /\ t.pm_action = u.pm_action /\ t.armed = u.armed
      /\ t.tx_seq = u.tx_seq /\ t.fired = u.fired /\ t.noBuf = u.noBuf
  BY <1>2, <1>3, <1>4, <1>5 DEF PmMoves, Links
<1>7. t.chan \o t.queue = s.chan \o s.queue
  <2>1. s.chan \in Seq(Messages) /\ gone \in Seq(Messages) /\ rest \in Seq(Messages)
    BY <1>3, LinkFields
  <2>2. (s.chan \o gone) \o rest = s.chan \o (gone \o rest)
    BY <2>1, JoinAssociative
  <2> QED BY <1>3, <1>6, <2>2
<1>8. s.queue = <<>> => t.queue = <<>> /\ t.chan = s.chan /\ t.credits = s.credits
  <2> SUFFICES ASSUME s.queue = <<>> PROVE rest = <<>> /\ s.chan \o gone = s.chan /\ s.credits - n = s.credits
    BY <1>6
  <2>1. Len(rest) = 0 /\ Len(gone) = 0
    BY <1>3, LinkFields
  <2>2. rest = <<>> /\ gone = <<>>
    BY <1>3, <2>1
  <2>3. n = 0
    OBVIOUS
  <2> QED BY <2>2, <2>3, LinkFields
<1>9. u.tx_seq = s.tx_seq /\ u.fired = s.fired /\ u.armed = s.armed /\ u.noBuf = s.noBuf
  BY <1>2 DEF PmMoves
<1>10. /\ t.credits + t.rsps = s.credits + s.rsps /\ t.credits <= s.credits
       /\ Len(t.queue) <= Len(s.queue)
  <2>1. s.credits \in Nat /\ s.rsps \in Nat /\ Len(s.queue) \in Nat /\ n \in Nat
    BY LinkFields
  <2> QED BY <1>3, <1>6, <2>1
<1>11. t.pm_action = "SNIFF_ENTER" => s.pm_action = "SNIFF_ENTER"
  BY <1>2, <1>6
<1>12. Moved(s, t)
  BY <1>6, <1>7, <1>8, <1>9, <1>10, <1>11 DEF Moved
<1> QED BY <1>2, <1>3, <1>6, <1>9, <1>12

\* The send that fails keeps its message and its credit and arms
\* retrans_timer.
LEMMA SendFailsMoves ==
    ASSUME NEW s \in Links, NEW t \in SendFails(s)
    PROVE  /\ Moved(s, t) /\ t.pm_state = s.pm_state /\ t.pm_action = s.pm_action
           /\ t.armed /\ t.queue = s.queue
<1>1. s.noBuf # 0 => s.noBuf - 1 \in 0..MaxNoBuf
  BY Constants DEF Links
<1>3. \/ t = [s EXCEPT !.armed = TRUE]
      \/ s.noBuf # 0 /\ t = [s EXCEPT !.armed = TRUE, !.noBuf = s.noBuf - 1]
  BY DEF SendFails
<1>2. /\ t \in Links /\ t.queue = s.queue /\ t.chan = s.chan /\ t.credits = s.credits /\ t.rsps = s.rsps
      /\ t.tx_seq = s.tx_seq /\ t.fired = s.fired /\ t.armed = TRUE
      /\ t.pm_state = s.pm_state /\ t.pm_action = s.pm_action
  <2>1. CASE t = [s EXCEPT !.armed = TRUE]
    BY <2>1 DEF Links
  <2>2. CASE s.noBuf # 0 /\ t = [s EXCEPT !.armed = TRUE, !.noBuf = s.noBuf - 1]
    BY <1>1, <2>2 DEF Links
  <2> QED BY <1>3, <2>1, <2>2
<1> QED BY <1>2, LinkFields DEF Moved

\* Sending in two parts is sending.
LEMMA MovedTransitive ==
    ASSUME NEW s \in Links, NEW t, NEW u, Moved(s, t), Moved(t, u)
    PROVE  Moved(s, u)
<1>1. t \in Links /\ u \in Links
  BY DEF Moved
<1>2. /\ u.credits + u.rsps = s.credits + s.rsps /\ u.credits <= s.credits
      /\ Len(u.queue) <= Len(s.queue)
  <2>1. /\ s.credits \in Nat /\ t.credits \in Nat /\ u.credits \in Nat
        /\ Len(s.queue) \in Nat /\ Len(t.queue) \in Nat /\ Len(u.queue) \in Nat
    BY <1>1, LinkFields
  <2> QED BY <2>1 DEF Moved
<1> QED BY <1>1, <1>2 DEF Moved

\* remote_msg_dequeue: whatever it sends, and whether or not a send fails, no message
\* and no credit is lost; a request to enter sniff mode does not survive it on a link
\* that is not active; and while the session is up what it leaves in the queue has
\* something to wait for.
LEMMA DequeueMoves ==
    ASSUME NEW s \in Links, NEW t \in remote_msg_dequeue(s)
    PROVE  /\ Moved(s, t)
           /\ s.armed => t.armed
           /\ \/ t.pm_state = s.pm_state
              \/ s.pm_state = "SNIFF" /\ t.pm_state = "ACTIVE_PENDING"
           /\ s.pm_state # "ACTIVE" => t.pm_action # "SNIFF_ENTER"
           /\ session = "up" /\ GapMayReject = FALSE /\ s.credits + s.rsps = MsgCredits =>
                t.queue = <<>> \/ Woken(t)
<1> DEFINE most == Min({Len(s.queue), s.credits})
<1>1. /\ most \in Nat /\ most <= Len(s.queue) /\ most <= s.credits
      /\ most = Len(s.queue) \/ most = s.credits
  BY LinkFields, MinIs
<1> HIDE DEF most
<1>2. CASE s.pm_state # "ACTIVE"
  <2>1. t \in bt_sniff_mode_exit(s, FALSE) /\ FALSE \in BOOLEAN
    BY <1>2 DEF remote_msg_dequeue, SniffExitReq
  <2>2. /\ PmMoves(s, t) /\ t.pm_action # "SNIFF_ENTER"
        /\ \/ t.pm_state = s.pm_state
           \/ s.pm_state = "SNIFF" /\ t.pm_state = "ACTIVE_PENDING"
        /\ GapMayReject = FALSE => t.pm_state # "SNIFF"
    BY <2>1, ExitMoves
  <2>3. Moved(s, t) /\ t.armed = s.armed
    BY <2>2, PmMovesMoved DEF PmMoves
  <2>4. GapMayReject = FALSE => Woken(t)
    <3>1. t.pm_state \in {"ACTIVE", "SNIFF_PENDING", "SNIFF", "ACTIVE_PENDING"}
      BY <2>2 DEF PmMoves, Links, PmState
    <3> QED BY <1>2, <2>2, <3>1 DEF Woken
  <2> QED BY <1>2, <2>2, <2>3, <2>4
<1>3. CASE s.pm_state = "ACTIVE" /\ most = 0
  <2>1. t = s
    BY <1>3 DEF remote_msg_dequeue, most
  <2>2. Moved(s, s)
    BY LinkFields DEF Moved
  <2>3. s.credits + s.rsps = MsgCredits => s.queue = <<>> \/ Woken(s)
    BY <1>1, <1>3, LinkFields, Constants DEF Woken
  <2> QED BY <1>3, <2>1, <2>2, <2>3
<1>4. CASE s.pm_state = "ACTIVE" /\ most > 0 /\ session = "up"
  <2>1. t \in Sent(s, most) \cup SentInPart(s, most)
    BY <1>4 DEF remote_msg_dequeue, most
  <2>2. CASE t \in Sent(s, most)
    <3>1. /\ Moved(s, t) /\ t.pm_state = "ACTIVE" /\ t.armed = s.armed
          /\ t.credits = s.credits - most /\ Len(t.queue) = Len(s.queue) - most
      <4>1. most \in 0..Len(s.queue)
        BY <1>1, LinkFields
      <4> QED BY <1>1, <1>4, <2>2, <4>1, SentMoves
    <3>2. t \in Links /\ t.credits + t.rsps = s.credits + s.rsps
      BY <3>1 DEF Moved
    <3>3. s.credits + s.rsps = MsgCredits => t.queue = <<>> \/ Woken(t)
      <4>1. CASE most = Len(s.queue)
        <5>1. Len(t.queue) = 0 /\ t.queue \in Seq(Messages)
          BY <3>1, <3>2, <4>1, LinkFields
        <5> QED BY <5>1
      <4>2. CASE most = s.credits
        BY <3>1, <3>2, <4>2, LinkFields, Constants DEF Woken
      <4> QED BY <1>1, <4>1, <4>2
    <3> QED BY <1>4, <3>1, <3>3
  <2>3. CASE t \in SentInPart(s, most)
    <3>1. PICK n \in 0..(most - 1) : t \in UNION {SendFails(u) : u \in Sent(s, n)}
      BY <2>3 DEF SentInPart
    <3>2. PICK u \in Sent(s, n) : t \in SendFails(u)
      BY <3>1
    <3>3. n \in 0..Len(s.queue) /\ n <= s.credits
      BY <1>1, LinkFields
    <3>4. Moved(s, u) /\ u.pm_state = "ACTIVE"
      BY <1>4, <3>2, <3>3, SentMoves
    <3>5. u \in Links
      BY <3>4 DEF Moved
    <3>6. Moved(u, t) /\ t.pm_state = u.pm_state /\ t.armed
      BY <3>2, <3>5, SendFailsMoves
    <3>7. Moved(s, t)
      BY <3>4, <3>6, MovedTransitive
    <3> QED BY <1>4, <3>4, <3>6, <3>7 DEF Woken
  <2> QED BY <2>1, <2>2, <2>3
<1>5. CASE s.pm_state = "ACTIVE" /\ most > 0 /\ session # "up"
  <2>1. t \in SendFails(s)
    BY <1>5 DEF remote_msg_dequeue, most
  <2>2. Moved(s, t) /\ t.pm_state = s.pm_state /\ t.armed
    BY <2>1, SendFailsMoves
  <2> QED BY <1>5, <2>2
<1>6. most = 0 \/ most > 0
  BY <1>1
<1> QED BY <1>2, <1>3, <1>4, <1>5, <1>6

-----------------------------------------------------------------------------
(* An event of the controller, with the relay called back in the middle.   *)

\* A request to enter sniff mode is remembered only while nothing waits.
Drained(s) ==
    s.pm_action = "SNIFF_ENTER" => s.pm_state = "ACTIVE_PENDING" /\ s.queue = <<>>

EventState(ev) == IF ev \in {"enter_fail", "conn_active"} THEN "ACTIVE" ELSE "SNIFF"

\* Doing nothing is a move of the power manager.
LEMMA PmMovesSame == \A s \in Links : PmMoves(s, s)
BY DEF PmMoves

\* Two moves of the power manager are one.
LEMMA PmMovesTransitive ==
    ASSUME NEW s, NEW t, NEW u, PmMoves(s, t), PmMoves(t, u)
    PROVE  PmMoves(s, u)
BY DEF PmMoves

\* A change of pm_state or pm_action.
LEMMA StateMoves ==
    ASSUME NEW s \in Links, NEW x \in PmState, NEW a \in PmAction
    PROVE  /\ PmMoves(s, [s EXCEPT !.pm_state = x]) /\ PmMoves(s, [s EXCEPT !.pm_action = a])
           /\ [s EXCEPT !.pm_state = x].pm_state = x /\ [s EXCEPT !.pm_state = x].pm_action = s.pm_action
           /\ [s EXCEPT !.pm_action = a].pm_action = a /\ [s EXCEPT !.pm_action = a].pm_state = s.pm_state
BY DEF Links, PmMoves

\* bt_link_policy_set changes neither the state nor the relay.
LEMMA PolicyMoves ==
    ASSUME NEW s \in Links, NEW b \in BOOLEAN, NEW t \in SetPolicy(s, b)
    PROVE  PmMoves(s, t) /\ t.pm_state = s.pm_state /\ t.pm_action = s.pm_action
<1>1. CASE t \in Refused(s)
  BY <1>1, RefusedMoves
<1>2. CASE t = [s EXCEPT !.policy = b]
  BY <1>2 DEF Links, PmMoves
<1> QED BY <1>1, <1>2 DEF SetPolicy

\* The first half of the handler of an event sets the state the event reports.
LEMMA BeginMoves ==
    ASSUME NEW s \in Links, NEW ev \in PmEvents, NEW t \in PmBegin(s, ev)
    PROVE  PmMoves(s, t) /\ t.pm_state = EventState(ev) /\ t.pm_action = s.pm_action
<1>0. "SNIFF" \in PmState /\ "ACTIVE" \in PmState /\ FALSE \in BOOLEAN /\ "IDLE" \in PmAction
  BY DEF PmState, PmAction
<1>1. ASSUME NEW u \in Links, NEW x \in PmState
      PROVE  /\ PmMoves(u, [sys_timer_start(u) EXCEPT !.pm_state = x])
             /\ PmMoves(u, [sys_timer_stop(u) EXCEPT !.pm_state = x])
             /\ [sys_timer_start(u) EXCEPT !.pm_state = x].pm_state = x
             /\ [sys_timer_start(u) EXCEPT !.pm_state = x].pm_action = u.pm_action
             /\ [sys_timer_stop(u) EXCEPT !.pm_state = x].pm_state = x
             /\ [sys_timer_stop(u) EXCEPT !.pm_state = x].pm_action = u.pm_action
  <2> DEFINE a == sys_timer_start(u)
             b == sys_timer_stop(u)
  <2>1. PmMoves(u, a) /\ PmMoves(u, b) /\ a.pm_action = u.pm_action /\ b.pm_action = u.pm_action
    BY <1>1, StartMoves
  <2> HIDE DEF a, b
  <2>2. a \in Links /\ b \in Links
    BY <2>1 DEF PmMoves
  <2>3. PmMoves(a, [a EXCEPT !.pm_state = x]) /\ PmMoves(b, [b EXCEPT !.pm_state = x])
    BY <1>0, <1>1, <2>2, StateMoves
  <2>4. /\ [a EXCEPT !.pm_state = x].pm_state = x /\ [a EXCEPT !.pm_state = x].pm_action = a.pm_action
        /\ [b EXCEPT !.pm_state = x].pm_state = x /\ [b EXCEPT !.pm_state = x].pm_action = b.pm_action
    BY <1>0, <1>1, <2>2, StateMoves
  <2>5. PmMoves(u, [a EXCEPT !.pm_state = x]) /\ PmMoves(u, [b EXCEPT !.pm_state = x])
    BY <2>1, <2>3, PmMovesTransitive
  <2> QED BY <2>1, <2>4, <2>5 DEF a, b
<1>2. CASE ev \in {"conn_sniff", "exit_fail"}
  <2>1. t = [sys_timer_stop(s) EXCEPT !.pm_state = "SNIFF"]
    BY <1>2 DEF PmBegin, SniffEnterSuccessBegin, SniffExitFailBegin
  <2> QED BY <1>0, <1>1, <1>2, <2>1 DEF EventState
<1>3. CASE ev = "enter_fail"
  <2>1. t = [sys_timer_start(s) EXCEPT !.pm_state = "ACTIVE"]
    BY <1>3 DEF PmBegin, SniffEnterFailBegin
  <2> QED BY <1>0, <1>1, <1>3, <2>1 DEF EventState
<1>4. CASE ev = "conn_active"
  <2>1. PICK u \in (IF s.pm_enable THEN {s} ELSE SetPolicy(s, FALSE)) :
          t = [sys_timer_start(u) EXCEPT !.pm_state = "ACTIVE"]
    BY <1>4 DEF PmBegin, SniffExitSuccessBegin
  <2>2. PmMoves(s, u) /\ u.pm_action = s.pm_action
    BY <1>0, <2>1, PolicyMoves, PmMovesSame
  <2>3. u \in Links
    BY <2>2 DEF PmMoves
  <2>4. PmMoves(u, t) /\ t.pm_state = "ACTIVE" /\ t.pm_action = u.pm_action
    BY <1>0, <1>1, <2>1, <2>3
  <2> QED BY <1>4, <2>2, <2>4, PmMovesTransitive DEF EventState
<1> QED BY <1>2, <1>3, <1>4 DEF PmEvents

\* After the callback a request that was remembered is carried out.
LEMMA EndMoves ==
    ASSUME NEW s \in Links, NEW ev \in PmEvents, NEW t \in PmEnd(s, ev),
           EventState(ev) = "ACTIVE" => s.pm_state = "ACTIVE"
    PROVE  /\ PmMoves(s, t) /\ t.pm_action # "SNIFF_ENTER"
           /\ \/ t.pm_state = s.pm_state
              \/ s.pm_state = "SNIFF" /\ t.pm_state = "ACTIVE_PENDING"
              \/ s.pm_state = "ACTIVE" /\ t.pm_state = "SNIFF_PENDING" /\ s.pm_action = "SNIFF_ENTER"
<1> DEFINE idle == [s EXCEPT !.pm_action = "IDLE"]
<1>1. "IDLE" \in PmAction /\ FALSE \in BOOLEAN /\ s.pm_state \in PmState
  BY DEF PmAction, Links
<1>2. PmMoves(s, idle) /\ idle.pm_state = s.pm_state /\ idle.pm_action = "IDLE"
  BY <1>1 DEF Links, PmMoves
<1>3. CASE EventState(ev) = "SNIFF"
  <2>1. t \in bt_sniff_mode_exit(idle, FALSE) \/ t = idle
    BY <1>3 DEF EventState, PmEvents, PmEnd, SniffEnterSuccessEnd, SniffExitFailEnd
  <2> HIDE DEF idle
  <2>2. CASE t = idle
    BY <1>2, <2>2
  <2>3. CASE t \in bt_sniff_mode_exit(idle, FALSE)
    <3>1. /\ PmMoves(idle, t) /\ t.pm_action # "SNIFF_ENTER"
          /\ \/ t.pm_state = idle.pm_state
             \/ idle.pm_state = "SNIFF" /\ t.pm_state = "ACTIVE_PENDING"
      BY <1>1, <1>2, <2>3, ExitMoves, PmMovesTyped
    <3>2. PmMoves(s, t)
      BY <1>2, <3>1, PmMovesTransitive
    <3> QED BY <1>2, <3>1, <3>2
  <2> QED BY <2>1, <2>2, <2>3
<1>4. CASE EventState(ev) = "ACTIVE"
  <2>1. IF s.pm_action = "SNIFF_ENTER" THEN t \in bt_sniff_mode_enter(idle) ELSE t = idle
    BY <1>4 DEF EventState, PmEvents, PmEnd, SniffEnterFailEnd, SniffExitSuccessEnd, EnterIfPending
  <2> HIDE DEF idle
  <2>2. CASE s.pm_action # "SNIFF_ENTER"
    BY <1>2, <2>1, <2>2
  <2>3. CASE s.pm_action = "SNIFF_ENTER"
    <3>1. /\ PmMoves(idle, t)
          /\ t.pm_action # "IDLE" => t.pm_action = "SNIFF_ENTER" /\ t.pm_state = "ACTIVE_PENDING"
          /\ \/ t.pm_state = idle.pm_state
             \/ idle.pm_state = "ACTIVE" /\ t.pm_state = "SNIFF_PENDING"
      BY <1>2, <2>1, <2>3, EnterMoves DEF PmMoves
    <3>2. PmMoves(s, t)
      BY <1>2, <3>1, PmMovesTransitive
    <3> QED BY <1>2, <1>4, <2>3, <3>1, <3>2
  <2> QED BY <2>2, <2>3
<1> QED BY <1>3, <1>4 DEF EventState

\* remote_bt_pm_cback, called with the state of the event: on an active link it sends,
\* on one in sniff mode it asks to leave it when messages wait.
LEMMA CbackMoves ==
    ASSUME NEW s \in Links, NEW ev \in PmEvents, s.pm_state = EventState(ev),
           NEW t \in remote_bt_pm_cback(s, ev)
    PROVE  /\ Moved(s, t)
           /\ s.armed => t.armed
           /\ EventState(ev) = "ACTIVE" => t.pm_state = "ACTIVE"
           /\ EventState(ev) = "SNIFF" => t.pm_state \in {"SNIFF", "ACTIVE_PENDING"}
           /\ session = "up" /\ GapMayReject = FALSE /\ s.credits + s.rsps = MsgCredits =>
                t.queue = <<>> \/ Woken(t)
<1>1. CASE EventState(ev) = "ACTIVE"
  <2>1. t \in remote_msg_dequeue(s)
    BY <1>1 DEF remote_bt_pm_cback, EventState, PmEvents
  <2> QED BY <1>1, <2>1, DequeueMoves
<1>2. CASE EventState(ev) = "SNIFF"
  <2>1. IF s.queue # <<>> THEN t \in bt_sniff_mode_exit(s, FALSE) ELSE t = s
    BY <1>2 DEF remote_bt_pm_cback, EventState, PmEvents, SniffExitReq
  <2>2. CASE s.queue = <<>>
    <3>1. PmMoves(s, s)
      BY PmMovesSame
    <3>2. Moved(s, s)
      BY <3>1, PmMovesMoved
    <3> QED BY <1>2, <2>1, <2>2, <3>2
  <2>3. CASE s.queue # <<>>
    <3>1. t \in bt_sniff_mode_exit(s, FALSE) /\ FALSE \in BOOLEAN
      BY <2>1, <2>3
    <3>2. /\ PmMoves(s, t) /\ t.pm_action # "SNIFF_ENTER"
          /\ \/ t.pm_state = s.pm_state
             \/ s.pm_state = "SNIFF" /\ t.pm_state = "ACTIVE_PENDING"
          /\ GapMayReject = FALSE => t.pm_state # "SNIFF"
      BY <3>1, ExitMoves
    <3>3. Moved(s, t) /\ t.armed = s.armed
      BY <3>2, PmMovesMoved DEF PmMoves
    <3> QED BY <1>2, <3>2, <3>3 DEF Woken
  <2> QED BY <2>2, <2>3
<1> QED BY <1>1, <1>2 DEF EventState

\* The whole handler of an event: no message and no credit is lost, a request is
\* remembered and a command to enter sniff mode is given only when nothing waits, and
\* what waits keeps its waker.
LEMMA HandleMoves ==
    ASSUME NEW s \in Links, Drained(s), NEW ev \in PmEvents, NEW t \in Handle(s, ev)
    PROVE  /\ Moved(s, t)
           /\ s.armed => t.armed
           /\ Drained(t)
           /\ t.pm_state = "SNIFF_PENDING" /\ s.pm_state # "SNIFF_PENDING" => t.queue = <<>>
           /\ session = "up" /\ GapMayReject = FALSE /\ s.credits + s.rsps = MsgCredits
              /\ (s.queue = <<>> \/ Woken(s)) =>
                t.queue = <<>> \/ Woken(t)
<1>1. CASE PmIgnores(s, ev)
  <2>1. t = s
    BY <1>1 DEF Handle
  <2>2. PmMoves(s, s)
    BY PmMovesSame
  <2>3. Moved(s, s)
    BY <2>2, PmMovesMoved
  <2> QED BY <2>1, <2>3
<1>2. CASE ~PmIgnores(s, ev)
  <2>1. PICK a \in PmBegin(s, ev) :
          t \in UNION {PmEnd(u, ev) : u \in IF Up THEN remote_bt_pm_cback(a, ev) ELSE {a}}
    BY <1>2 DEF Handle
  <2>2. PICK b \in (IF Up THEN remote_bt_pm_cback(a, ev) ELSE {a}) : t \in PmEnd(b, ev)
    BY <2>1
  <2>3. PmMoves(s, a) /\ a.pm_state = EventState(ev) /\ a.pm_action = s.pm_action
    BY <2>1, BeginMoves
  <2>4. a \in Links /\ Moved(s, a) /\ a.armed = s.armed
    BY <2>3, PmMovesMoved DEF PmMoves
  <2>5. /\ Moved(a, b)
        /\ a.armed => b.armed
        /\ EventState(ev) = "ACTIVE" => b.pm_state = "ACTIVE"
        /\ EventState(ev) = "SNIFF" => b.pm_state \in {"SNIFF", "ACTIVE_PENDING"}
        /\ session = "up" /\ GapMayReject = FALSE /\ s.credits + s.rsps = MsgCredits =>
             b.queue = <<>> \/ Woken(b)
    <3>1. CASE Up
      BY <2>2, <2>3, <2>4, <3>1, CbackMoves DEF PmMoves
    <3>2. CASE ~Up
      <4>1. PmMoves(a, a) /\ b = a
        BY <2>2, <2>4, <3>2, PmMovesSame
      <4>2. Moved(a, b)
        BY <2>4, <4>1, PmMovesMoved
      <4> QED BY <2>3, <3>2, <4>1, <4>2 DEF Up
    <3> QED BY <3>1, <3>2
  <2>6. b \in Links
    BY <2>5 DEF Moved
  <2>7. /\ PmMoves(b, t) /\ t.pm_action # "SNIFF_ENTER"
        /\ \/ t.pm_state = b.pm_state
           \/ b.pm_state = "SNIFF" /\ t.pm_state = "ACTIVE_PENDING"
           \/ b.pm_state = "ACTIVE" /\ t.pm_state = "SNIFF_PENDING" /\ b.pm_action = "SNIFF_ENTER"
    BY <2>2, <2>5, <2>6, EndMoves
  <2>8. Moved(s, t) /\ t.armed = b.armed
    <3>1. Moved(b, t) /\ t.armed = b.armed
      BY <2>6, <2>7, PmMovesMoved DEF PmMoves
    <3>2. Moved(s, b)
      BY <2>4, <2>5, MovedTransitive
    <3> QED BY <3>1, <3>2, MovedTransitive
  <2>9. t.pm_state = "SNIFF_PENDING" => t.queue = <<>>
    <3> SUFFICES ASSUME t.pm_state = "SNIFF_PENDING" PROVE t.queue = <<>>
      OBVIOUS
    <3>1. b.pm_action = "SNIFF_ENTER"
      BY <2>5, <2>7 DEF EventState
    <3>2. s.pm_action = "SNIFF_ENTER"
      BY <2>3, <2>5, <3>1 DEF Moved
    <3>3. s.queue = <<>>
      BY <3>2 DEF Drained
    <3> QED BY <2>8, <3>3 DEF Moved
  <2>10. session = "up" /\ GapMayReject = FALSE /\ s.credits + s.rsps = MsgCredits => t.queue = <<>> \/ Woken(t)
    BY <2>5, <2>7 DEF Woken, PmMoves
  <2> QED BY <2>4, <2>5, <2>7, <2>8, <2>9, <2>10 DEF Drained
<1> QED BY <1>1, <1>2

\* The idle timer asks to enter sniff mode.
LEMMA EnterReqMoves ==
    ASSUME NEW s \in Links, NEW vetoed, NEW t \in SniffEnterReq(s, vetoed)
    PROVE  /\ PmMoves(s, t)
           /\ \/ t.pm_state = s.pm_state /\ t.pm_action \in {s.pm_action, "IDLE"}
              \/ /\ ~vetoed
                 /\ t.pm_action # "IDLE" => t.pm_state = "ACTIVE_PENDING"
                 /\ \/ t.pm_state = s.pm_state
                    \/ s.pm_state = "ACTIVE" /\ t.pm_state = "SNIFF_PENDING"
<1> DEFINE stopped == sys_timer_stop(s)
<1>1. PmMoves(s, stopped) /\ stopped.pm_state = s.pm_state /\ stopped.pm_action = s.pm_action
  BY StartMoves
<1> HIDE DEF stopped
<1>2. stopped \in Links
  BY <1>1 DEF PmMoves
<1>3. \A u \in Links : /\ PmMoves(u, sys_timer_start(u))
                       /\ sys_timer_start(u).pm_state = u.pm_state /\ sys_timer_start(u).pm_action = u.pm_action
  BY StartMoves
<1>4. CASE vetoed
  <2>1. t = sys_timer_start(stopped)
    BY <1>4 DEF SniffEnterReq, stopped
  <2> QED BY <1>1, <1>2, <1>3, <2>1, PmMovesTransitive
<1>5. CASE ~vetoed
  <2>1. PICK u \in bt_sniff_mode_enter(stopped) : t = u \/ t = sys_timer_start(u)
    BY <1>5 DEF SniffEnterReq, stopped
  <2>2. /\ PmMoves(stopped, u)
        /\ u.pm_action # "IDLE" => u.pm_action = "SNIFF_ENTER" /\ u.pm_state = "ACTIVE_PENDING"
        /\ \/ u.pm_state = stopped.pm_state
           \/ stopped.pm_state = "ACTIVE" /\ u.pm_state = "SNIFF_PENDING"
    BY <1>2, <2>1, EnterMoves
  <2>3. u \in Links
    BY <2>2 DEF PmMoves
  <2>4. PmMoves(u, t) /\ t.pm_state = u.pm_state /\ t.pm_action = u.pm_action
    BY <1>3, <2>1, <2>3, PmMovesSame
  <2>5. PmMoves(s, t)
    BY <1>1, <2>2, <2>4, PmMovesTransitive
  <2> QED BY <1>1, <1>5, <2>2, <2>4, <2>5
<1> QED BY <1>4, <1>5

-----------------------------------------------------------------------------
(* The invariant.                                                          *)

Types ==
    /\ link \in Links /\ Len(link.queue) <= QueueNum /\ link.credits <= MsgCredits
    /\ mode \in Modes /\ evq \in Seq(PmEvents)
    /\ session \in {"down", "up", "closing"}
    /\ calls \in 0..MaxCalls /\ refused \in 0..MaxRefusals
    /\ rup \in BOOLEAN /\ rx_seq \in Seqs /\ last \in 0..MaxCalls

\* Without a session nothing is kept of it.
Closed == ~Up => link.rsps = 0 /\ link.queue = <<>> /\ link.tx_seq = 0 /\ refused = 0

Inv == Types /\ CreditsConserved /\ Closed /\ Drained(link)

\* What a step must do: keep the invariant, keep a waker for the messages that
\* wait, and never ask for sniff mode while there are any.
Waits == session = "up" => link.queue = <<>> \/ Woken(link)

Enters ==
    link'.pm_state = "SNIFF_PENDING" /\ link.pm_state # "SNIFF_PENDING" /\ Up' => link'.queue = <<>>

Sound == Inv' /\ (GapMayReject = FALSE /\ Waits => Waits') /\ Enters

\* The invariant holds before the first session.
LEMMA InitInv == Init => Inv /\ Waits
<1> SUFFICES ASSUME Init PROVE Inv /\ Waits
  OBVIOUS
<1>1. link \in Links
  <2>1. 0 \in Seqs /\ MaxNoBuf \in 0..MaxNoBuf /\ 0 \in 0..MaxPosted
    BY Constants DEF Seqs
  <2> QED BY <2>1 DEF Init, Links, PmState, PmAction, Refusals
<1>2. Types
  <2>1. link.queue = <<>> /\ link.credits = 0 /\ evq = <<>>
    BY DEF Init
  <2>2. 0 <= QueueNum /\ 0 <= MsgCredits /\ 0 \in 0..MaxCalls /\ 0 \in 0..MaxRefusals /\ 0 \in Seqs
    BY Constants DEF Seqs
  <2>3. Len(link.queue) = 0 /\ evq \in Seq(PmEvents)
    BY <2>1
  <2>4. mode \in Modes /\ session = "down" /\ calls = 0 /\ refused = 0 /\ rup = FALSE /\ rx_seq = 0 /\ last = 0
    BY DEF Init, Modes
  <2> QED BY <1>1, <2>1, <2>2, <2>3, <2>4 DEF Types
<1> QED BY <1>2 DEF Init, Inv, CreditsConserved, Closed, Drained, Waits, Up

\* The steps that change nothing the relay relies on.
LEMMA TimersSound ==
    ASSUME Inv, IdleTimerExpires \/ RetransTimerExpires
    PROVE  Sound
<1>1. link \in Links
  BY DEF Inv, Types
<1>2. CASE IdleTimerExpires
  <2>1. /\ link' \in Links
        /\ link'.pm_state = link.pm_state /\ link'.pm_action = link.pm_action
        /\ link'.queue = link.queue /\ link'.credits = link.credits /\ link'.rsps = link.rsps
        /\ link'.tx_seq = link.tx_seq /\ link'.armed = link.armed /\ link'.fired = link.fired
    <3>1. link' = [link EXCEPT !.running = FALSE, !.posted = link.posted + 1]
      BY <1>2 DEF IdleTimerExpires
    <3>2. link.posted + 1 \in Nat
      BY <1>1 DEF Links
    <3> QED BY <1>1, <3>1, <3>2 DEF Links
  <2> QED BY <1>2, <2>1 DEF IdleTimerExpires, Sound, Inv, Types, CreditsConserved, Closed, Drained, Up,
                           Waits, Woken, Enters
<1>3. CASE RetransTimerExpires
  <2>1. link.fired + 1 \in 0..MaxPosted /\ link.fired + 1 > 0
    BY <1>1, <1>3, FiredField, Constants DEF RetransTimerExpires
  <2>2. link' = [link EXCEPT !.armed = FALSE, !.fired = link.fired + 1]
    BY <1>3 DEF RetransTimerExpires
  <2>3. /\ link' \in Links
        /\ link'.pm_state = link.pm_state /\ link'.pm_action = link.pm_action
        /\ link'.queue = link.queue /\ link'.credits = link.credits /\ link'.rsps = link.rsps
        /\ link'.tx_seq = link.tx_seq /\ link'.fired = link.fired + 1
    BY <1>1, <2>1, <2>2 DEF Links
  <2> QED BY <1>3, <2>1, <2>3 DEF RetransTimerExpires, Sound, Inv, Types, CreditsConserved, Closed, Drained,
                                 Up, Waits, Woken, Enters
<1> QED BY <1>2, <1>3

\* The controller and the peer change the mode and queue an event; the host's link
\* keeps all but its commands.
LEMMA CtrlSound ==
    ASSUME Inv, Ctrl \/ PeerSniffs
    PROVE  Sound
<1>1. link \in Links /\ evq \in Seq(PmEvents)
  BY DEF Inv, Types
<1>2. CASE Ctrl
  <2>1. \E b : link' = [link EXCEPT !.cmds = Tail(link.cmds), !.refused = b] /\ b \in Refusals
    <3>1. CASE CtrlSucceeds
      <4>1. link.refused \in Refusals /\ link' = [link EXCEPT !.cmds = Tail(link.cmds)]
        BY <1>1, <3>1 DEF CtrlSucceeds, Links
      <4>2. link' = [link EXCEPT !.cmds = Tail(link.cmds), !.refused = link.refused]
        BY <1>1, <4>1 DEF Links
      <4> QED BY <4>1, <4>2
    <3>2. CASE CtrlFails
      <4> DEFINE b == IF Executable /\ link.refused = "never" THEN "before" ELSE link.refused
      <4>1. link' = [link EXCEPT !.cmds = Tail(link.cmds), !.refused = b]
        BY <3>2 DEF CtrlFails
      <4>2. link.refused \in Refusals
        BY <1>1 DEF Links
      <4>3. b \in Refusals
        BY <4>2 DEF Refusals
      <4> HIDE DEF b
      <4> QED BY <4>1, <4>3
    <3> QED BY <1>2, <3>1, <3>2 DEF Ctrl
  <2>2. link.cmds # <<>> /\ link.cmds \in Seq(Commands)
    BY <1>1, <1>2 DEF Ctrl, CtrlSucceeds, CtrlFails, Links
  <2>3. Tail(link.cmds) \in Seq(Commands)
    BY <2>2
  <2>4. /\ link' \in Links
        /\ link'.pm_state = link.pm_state /\ link'.pm_action = link.pm_action
        /\ link'.queue = link.queue /\ link'.credits = link.credits /\ link'.rsps = link.rsps
        /\ link'.tx_seq = link.tx_seq /\ link'.armed = link.armed /\ link'.fired = link.fired
    BY <1>1, <2>1, <2>3 DEF Links
  <2>5. mode' \in Modes /\ evq' \in Seq(PmEvents)
    <3>1. CASE CtrlSucceeds
      <4>1. PICK m \in Modes : mode' = m /\ evq' = Append(evq, ModeEvent(m))
        BY <3>1 DEF CtrlSucceeds, Wanted, Modes
      <4>2. ModeEvent(m) \in PmEvents
        BY DEF ModeEvent, PmEvents
      <4> QED BY <1>1, <4>1, <4>2
    <3>2. CASE CtrlFails
      <4>1. mode' = mode /\ \E ev \in PmEvents : evq' = Append(evq, ev)
        BY <3>2 DEF CtrlFails, PmEvents
      <4> QED BY <1>1, <4>1 DEF Inv, Types
    <3> QED BY <1>2, <3>1, <3>2 DEF Ctrl
  <2>6. UNCHANGED <<session, calls, refused, rup, rx_seq, last>>
    BY <1>2 DEF Ctrl
  <2> QED BY <2>4, <2>5, <2>6 DEF Sound, Inv, Types, CreditsConserved, Closed, Drained, Up, Waits, Woken, Enters
<1>3. CASE PeerSniffs
  <2>1. link' = link /\ UNCHANGED <<session, calls, refused, rup, rx_seq, last>>
    BY <1>3 DEF PeerSniffs, PeerChangesMode
  <2>2. mode' \in Modes /\ evq' \in Seq(PmEvents)
    <3>1. PICK m \in Modes : mode' = m /\ evq' = Append(evq, ModeEvent(m))
      BY <1>3 DEF PeerSniffs, PeerChangesMode
    <3>2. ModeEvent(m) \in PmEvents
      BY DEF ModeEvent, PmEvents
    <3> QED BY <1>1, <3>1, <3>2
  <2> QED BY <2>1, <2>2 DEF Sound, Inv, Types, CreditsConserved, Closed, Drained, Up, Waits, Woken, Enters
<1> QED BY <1>2, <1>3

\* The step that handles an event.
LEMMA HandleEventSound ==
    ASSUME Inv, HandleEvent
    PROVE  Sound
<1>1. link \in Links /\ evq \in Seq(PmEvents) /\ Drained(link)
  BY DEF Inv, Types
<1>2. Head(evq) \in PmEvents /\ evq' \in Seq(PmEvents)
  BY <1>1 DEF HandleEvent
<1>3. /\ Moved(link, link')
      /\ Drained(link')
      /\ link'.pm_state = "SNIFF_PENDING" /\ link.pm_state # "SNIFF_PENDING" => link'.queue = <<>>
      /\ session = "up" /\ GapMayReject = FALSE /\ link.credits + link.rsps = MsgCredits
         /\ (link.queue = <<>> \/ Woken(link)) =>
           link'.queue = <<>> \/ Woken(link')
  <2>1. link' \in Handle(link, Head(evq))
    BY DEF HandleEvent
  <2> QED BY <1>1, <1>2, <2>1, HandleMoves
<1>4. UNCHANGED <<mode, session, calls, refused, rup, rx_seq, last>>
  BY DEF HandleEvent
<1>5. link' \in Links
  BY <1>3 DEF Moved
<1>6. /\ Len(link'.queue) <= QueueNum /\ link'.credits <= MsgCredits
      /\ link'.credits + link'.rsps = link.credits + link.rsps /\ link'.tx_seq = link.tx_seq
      /\ link.queue = <<>> => link'.queue = <<>>
  BY <1>1, <1>3, <1>5, LinkFields, Constants, SMTT(20) DEF Moved, Inv, Types
<1>7. Types'
  BY <1>2, <1>4, <1>5, <1>6 DEF Inv, Types
<1>8. CreditsConserved'
  BY <1>4, <1>6 DEF Inv, CreditsConserved, Up
<1>9. Closed'
  <2>1. ~Up => link'.rsps = 0
    BY <1>1, <1>3, <1>5, LinkFields DEF Moved, Inv, Closed
  <2> QED BY <1>4, <1>6, <2>1 DEF Inv, Closed, Up
<1>10. GapMayReject = FALSE /\ Waits => Waits'
  BY <1>3, <1>4 DEF Waits, Inv, CreditsConserved, Up
<1> QED BY <1>3, <1>7, <1>8, <1>9, <1>10 DEF Sound, Inv, Enters

\* bt_pm_timeout_cback asks for sniff mode only if remote_session_mode_req does not
\* veto it, that is with no session or an empty queue.
LEMMA IdleTimeoutSound ==
    ASSUME Inv, bt_pm_timeout_cback
    PROVE  Sound
<1> DEFINE taken == [link EXCEPT !.posted = link.posted - 1]
<1>1. /\ UNCHANGED <<mode, evq, session, calls, refused, rup, rx_seq, last>>
      /\ link' \in IF taken.listed THEN SniffEnterReq(taken, Vetoed) ELSE {taken}
  BY DEF bt_pm_timeout_cback
<1>2. link \in Links
  BY DEF Inv, Types
<1>3. PmMoves(link, taken) /\ taken.pm_state = link.pm_state /\ taken.pm_action = link.pm_action
  <2>1. link.posted - 1 \in Nat
    BY <1>2 DEF bt_pm_timeout_cback, Links
  <2> QED BY <1>2, <2>1 DEF Links, PmMoves
<1>4. PmMoves(taken, link')
      /\ \/ link'.pm_state = taken.pm_state /\ link'.pm_action \in {taken.pm_action, "IDLE"}
         \/ /\ ~Vetoed
            /\ link'.pm_action # "IDLE" => link'.pm_state = "ACTIVE_PENDING"
            /\ \/ link'.pm_state = taken.pm_state
               \/ taken.pm_state = "ACTIVE" /\ link'.pm_state = "SNIFF_PENDING"
  <2> HIDE DEF taken
  <2>1. CASE taken.listed
    <3>1. link' \in SniffEnterReq(taken, Vetoed) /\ taken \in Links
      BY <1>1, <1>3, <2>1 DEF PmMoves
    <3> QED BY <3>1, EnterReqMoves
  <2>2. CASE ~taken.listed
    <3>1. link' = taken /\ taken \in Links
      BY <1>1, <1>3, <2>2 DEF PmMoves
    <3> QED BY <3>1, PmMovesSame
  <2> QED BY <2>1, <2>2
<1> HIDE DEF taken
<1>5. PmMoves(link, link')
  BY <1>3, <1>4, PmMovesTransitive
<1>6. Types' /\ CreditsConserved' /\ Closed'
  BY <1>1, <1>5 DEF PmMoves, Inv, Types, CreditsConserved, Closed, Up
<1>7. ~Vetoed => link.queue = <<>>
  BY DEF Vetoed, Inv, Closed, Up
<1>8. Drained(link')
  <2> SUFFICES ASSUME link'.pm_action = "SNIFF_ENTER"
               PROVE  link'.pm_state = "ACTIVE_PENDING" /\ link'.queue = <<>>
    BY DEF Drained
  <2>1. CASE link'.pm_state = taken.pm_state /\ link'.pm_action \in {taken.pm_action, "IDLE"}
    BY <1>3, <1>5, <2>1 DEF PmMoves, Inv, Drained
  <2>2. CASE ~Vetoed /\ link'.pm_state = "ACTIVE_PENDING"
    BY <1>5, <1>7, <2>2 DEF PmMoves
  <2> QED BY <1>4, <2>1, <2>2
<1>9. Enters
  BY <1>3, <1>4, <1>5, <1>7 DEF Enters, PmMoves
<1>10. Waits => Waits'
  <2>1. link'.pm_state = link.pm_state \/ link'.queue = <<>>
    BY <1>3, <1>4, <1>5, <1>7 DEF PmMoves
  <2> QED BY <1>1, <1>5, <2>1 DEF Waits, Woken, PmMoves
<1> QED BY <1>6, <1>8, <1>9, <1>10 DEF Sound, Inv

\* A link that sends by itself keeps the invariant.
LEMMA DequeueSound ==
    ASSUME Inv, NEW s \in Links, NEW t \in remote_msg_dequeue(s),
           s.credits <= MsgCredits, Len(s.queue) <= QueueNum, Up => s.credits + s.rsps = MsgCredits,
           s.pm_state = link.pm_state, s.pm_action = link.pm_action
    PROVE  /\ t \in Links /\ Len(t.queue) <= QueueNum /\ t.credits <= MsgCredits
           /\ Up => t.credits + t.rsps = MsgCredits
           /\ t.tx_seq = s.tx_seq
           /\ Drained(t)
           /\ t.pm_state = "SNIFF_PENDING" => link.pm_state = "SNIFF_PENDING"
           /\ session = "up" /\ GapMayReject = FALSE => t.queue = <<>> \/ Woken(t)
<1>1. /\ Moved(s, t)
      /\ \/ t.pm_state = s.pm_state
         \/ s.pm_state = "SNIFF" /\ t.pm_state = "ACTIVE_PENDING"
      /\ s.pm_state # "ACTIVE" => t.pm_action # "SNIFF_ENTER"
      /\ session = "up" /\ GapMayReject = FALSE /\ s.credits + s.rsps = MsgCredits =>
           t.queue = <<>> \/ Woken(t)
  BY DequeueMoves
<1>2. t \in Links /\ t.tx_seq = s.tx_seq
  BY <1>1 DEF Moved
<1>3. /\ Len(t.queue) <= QueueNum /\ t.credits <= MsgCredits
      /\ t.credits + t.rsps = s.credits + s.rsps
  BY <1>1, <1>2, LinkFields, Constants DEF Moved
<1>4. Drained(t)
  <2>1. t.pm_action # "SNIFF_ENTER"
    BY <1>1 DEF Moved, Inv, Drained
  <2> QED BY <2>1 DEF Drained
<1>5. session = "up" => Up
  BY DEF Up
<1> QED BY <1>1, <1>2, <1>3, <1>4, <1>5

\* remote_relay_data_rsp gives back the credit of the response it consumes: while the
\* session lasts the cap at REMOTE_MSG_CREDITS never bites.
LEMMA DataRspSound ==
    ASSUME Inv, remote_relay_data_rsp
    PROVE  Sound
<1> DEFINE c == IF link.credits < MsgCredits THEN link.credits + 1 ELSE link.credits
           s == [link EXCEPT !.rsps = link.rsps - 1, !.credits = c]
<1>1. link \in Links /\ link.credits <= MsgCredits /\ Len(link.queue) <= QueueNum
  BY DEF Inv, Types
<1>2. Up /\ link.credits + link.rsps = MsgCredits /\ link.rsps > 0
  BY DEF remote_relay_data_rsp, Inv, Closed, CreditsConserved
<1>3. link.credits \in Nat /\ link.rsps \in Nat
  BY <1>1 DEF Links
<1>4. c = link.credits + 1 /\ link.rsps - 1 \in Nat /\ c \in Nat /\ c <= MsgCredits
      /\ c + (link.rsps - 1) = MsgCredits
  BY <1>2, <1>3, Constants
<1>5. link' \in remote_msg_dequeue(s)
  BY DEF remote_relay_data_rsp
<1> HIDE DEF c
<1>6. /\ s \in Links /\ s.rsps = link.rsps - 1 /\ s.credits = c
      /\ s.queue = link.queue /\ s.pm_state = link.pm_state /\ s.pm_action = link.pm_action
  BY <1>1, <1>4 DEF Links
<1> HIDE DEF s
<1>7. /\ link' \in Links /\ Len(link'.queue) <= QueueNum /\ link'.credits <= MsgCredits
      /\ Up => link'.credits + link'.rsps = MsgCredits
      /\ Drained(link')
      /\ link'.pm_state = "SNIFF_PENDING" => link.pm_state = "SNIFF_PENDING"
      /\ session = "up" /\ GapMayReject = FALSE => link'.queue = <<>> \/ Woken(link')
  BY <1>1, <1>4, <1>5, <1>6, DequeueSound
<1>8. UNCHANGED <<mode, evq, session, calls, refused, rup, rx_seq, last>>
  BY DEF remote_relay_data_rsp
<1> QED BY <1>2, <1>7, <1>8 DEF Sound, Inv, Types, CreditsConserved, Closed, Up, Waits, Enters

\* remote_retrans_timer_cback arms the timer again unless the queue is empty.
LEMMA RetransSound ==
    ASSUME Inv, remote_retrans_timer_cback
    PROVE  Sound
<1> DEFINE s == [link EXCEPT !.fired = link.fired - 1]
<1>1. link \in Links /\ link.credits <= MsgCredits /\ Len(link.queue) <= QueueNum
  BY DEF Inv, Types
<1>2. PICK t \in remote_msg_dequeue(s) : link' = [t EXCEPT !.armed = t.armed \/ t.queue # <<>>]
  BY DEF remote_retrans_timer_cback
<1>3. link.fired - 1 \in 0..MaxPosted
  <2>1. link.fired > 0
    BY DEF remote_retrans_timer_cback
  <2> QED BY <1>1, <2>1, FiredField, Constants
<1>4. /\ s \in Links /\ s.rsps = link.rsps /\ s.credits = link.credits /\ s.tx_seq = link.tx_seq
      /\ s.queue = link.queue /\ s.pm_state = link.pm_state /\ s.pm_action = link.pm_action
  BY <1>1, <1>3 DEF Links
<1> HIDE DEF s
<1>5. Up => s.credits + s.rsps = MsgCredits
  BY <1>4 DEF Inv, CreditsConserved
<1>6. /\ t \in Links /\ Len(t.queue) <= QueueNum /\ t.credits <= MsgCredits
      /\ Up => t.credits + t.rsps = MsgCredits
      /\ t.tx_seq = s.tx_seq
      /\ Drained(t)
      /\ t.pm_state = "SNIFF_PENDING" => link.pm_state = "SNIFF_PENDING"
  BY <1>1, <1>2, <1>4, <1>5, DequeueSound
<1> DEFINE b == t.armed \/ t.queue # <<>>
<1>7. b \in BOOLEAN /\ (t.queue = <<>> \/ b)
  BY <1>6 DEF Links
<1>8. link' = [t EXCEPT !.armed = b]
  BY <1>2
<1> HIDE DEF b
<1>9. /\ link' \in Links /\ link'.armed = b /\ link'.queue = t.queue /\ link'.credits = t.credits
      /\ link'.rsps = t.rsps /\ link'.tx_seq = t.tx_seq /\ link'.pm_state = t.pm_state
      /\ link'.pm_action = t.pm_action
  BY <1>6, <1>7, <1>8 DEF Links
<1>10. UNCHANGED <<mode, evq, session, calls, refused, rup, rx_seq, last>>
  BY DEF remote_retrans_timer_cback
<1>11. Closed'
  <2>1. ~Up => t.rsps = 0 /\ t.queue = <<>>
    <3>1. Moved(s, t)
      BY <1>2, <1>4, DequeueMoves
    <3> QED BY <1>4, <1>6, <3>1, LinkFields DEF Moved, Inv, Closed
  <2> QED BY <1>4, <1>6, <1>9, <1>10, <2>1 DEF Inv, Closed, Up
<1>12. Types' /\ CreditsConserved' /\ Drained(link')
  BY <1>6, <1>9, <1>10 DEF Inv, Types, CreditsConserved, Up, Drained
<1>13. Waits' /\ Enters
  BY <1>6, <1>7, <1>9 DEF Waits, Woken, Enters
<1> QED BY <1>11, <1>12, <1>13 DEF Sound, Inv

\* remote_async_msg_relay queues the message and sends, or refuses it when the queue
\* is full; either way tx_seq has been counted on.
LEMMA RelaySound ==
    ASSUME Inv, Relay
    PROVE  Sound
<1> DEFINE n == (link.tx_seq + 1) % SeqMod
           s == [link EXCEPT !.tx_seq = n]
           m == [id |-> calls + 1, seq |-> n]
           q == Append(link.queue, m)
<1>1. link \in Links /\ link.credits <= MsgCredits /\ Len(link.queue) <= QueueNum
      /\ calls \in Nat /\ calls' = calls + 1 /\ calls' \in 1..MaxCalls /\ Up /\ session # "down"
  BY Constants DEF Inv, Types, Relay, Up
<1>2. n \in Seqs
  <2>1. link.tx_seq \in Seqs
    BY <1>1 DEF Links
  <2> QED BY <2>1, CountedTyped
<1> HIDE DEF n
<1>3. /\ s \in Links /\ s.queue = link.queue /\ s.tx_seq = n /\ s.credits = link.credits
      /\ s.rsps = link.rsps /\ s.pm_state = link.pm_state /\ s.pm_action = link.pm_action
      /\ s.armed = link.armed /\ s.fired = link.fired
  BY <1>1, <1>2 DEF Links
<1>4. UNCHANGED <<mode, evq, session, rup, rx_seq, last>>
  BY DEF Relay
<1>5. \/ /\ Len(s.queue) < QueueNum
         /\ link' \in remote_msg_dequeue([s EXCEPT !.queue = Append(s.queue, [id |-> calls + 1, seq |-> s.tx_seq])])
         /\ refused' = 0
      \/ /\ Len(s.queue) = QueueNum
         /\ refused < MaxRefusals
         /\ link' = s
         /\ refused' = refused + 1
  BY DEF Relay, n
<1> HIDE DEF s
<1>6. link.credits + link.rsps = MsgCredits
  BY <1>1 DEF Inv, CreditsConserved
<1>7. CASE Len(s.queue) < QueueNum /\ refused' = 0
           /\ link' \in remote_msg_dequeue([s EXCEPT !.queue = Append(s.queue, [id |-> calls + 1, seq |-> s.tx_seq])])
  <2> DEFINE w == [s EXCEPT !.queue = q]
  <2>1. link' \in remote_msg_dequeue(w)
    BY <1>3, <1>7
  <2>2. m \in Messages
    BY <1>1, <1>2 DEF Messages, Seqs
  <2> HIDE DEF m
  <2>3. q \in Seq(Messages) /\ Len(q) = Len(link.queue) + 1
    BY <1>1, <2>2, LinkFields
  <2> HIDE DEF q
  <2>4. /\ w \in Links /\ w.queue = q /\ w.credits = link.credits /\ w.rsps = link.rsps
        /\ w.pm_state = link.pm_state /\ w.pm_action = link.pm_action
    BY <1>3, <2>3 DEF Links
  <2> HIDE DEF w
  <2>5. Len(w.queue) <= QueueNum
    BY <1>1, <1>3, <1>7, <2>3, <2>4, LinkFields, Constants
  <2>6. /\ link' \in Links /\ Len(link'.queue) <= QueueNum /\ link'.credits <= MsgCredits
        /\ Up => link'.credits + link'.rsps = MsgCredits
        /\ Drained(link')
        /\ link'.pm_state = "SNIFF_PENDING" => link.pm_state = "SNIFF_PENDING"
        /\ session = "up" /\ GapMayReject = FALSE => link'.queue = <<>> \/ Woken(link')
    BY <1>1, <1>6, <2>1, <2>4, <2>5, DequeueSound
  <2>7. refused' \in 0..MaxRefusals /\ calls' \in 0..MaxCalls
    BY <1>1, <1>7, Constants
  <2> QED BY <1>1, <1>4, <2>6, <2>7 DEF Sound, Inv, Types, CreditsConserved, Closed, Up, Waits, Enters
<1>8. CASE Len(s.queue) = QueueNum /\ refused < MaxRefusals /\ link' = s /\ refused' = refused + 1
  <2>1. refused' \in 0..MaxRefusals /\ calls' \in 0..MaxCalls
    BY <1>1, <1>8, Constants DEF Inv, Types
  <2> QED BY <1>1, <1>3, <1>4, <1>6, <1>8, <2>1
          DEF Sound, Inv, Types, CreditsConserved, Closed, Drained, Up, Waits, Woken, Enters
<1> QED BY <1>5, <1>7, <1>8

\* The receiver takes a message from the channel.
LEMMA DataIndSound ==
    ASSUME Inv, remote_relay_data_ind
    PROVE  Sound
<1>1. link \in Links /\ link.chan # <<>> /\ link.chan \in Seq(Messages)
  BY LinkFields DEF Inv, Types, remote_relay_data_ind
<1>2. Head(link.chan) \in Messages /\ Tail(link.chan) \in Seq(Messages)
  BY <1>1
<1>3. link' = [link EXCEPT !.chan = Tail(link.chan)]
  BY DEF remote_relay_data_ind
<1>4. /\ link' \in Links /\ link'.armed = link.armed /\ link'.queue = link.queue
      /\ link'.credits = link.credits /\ link'.rsps = link.rsps /\ link'.tx_seq = link.tx_seq
      /\ link'.pm_state = link.pm_state /\ link'.pm_action = link.pm_action /\ link'.fired = link.fired
  BY <1>1, <1>2, <1>3 DEF Links
<1>5. rx_seq' \in Seqs /\ last' \in 0..MaxCalls
  <2>1. Head(link.chan).seq \in Seqs /\ Head(link.chan).id \in 0..MaxCalls
    BY <1>2 DEF Messages, Seqs
  <2>2. \/ rx_seq' = rx_seq /\ last' = last
        \/ rx_seq' = Head(link.chan).seq /\ last' = Head(link.chan).id
    BY DEF remote_relay_data_ind
  <2> QED BY <2>1, <2>2 DEF Inv, Types
<1>6. UNCHANGED <<mode, evq, session, calls, refused, rup>>
  BY DEF remote_relay_data_ind
<1> QED BY <1>4, <1>5, <1>6 DEF Sound, Inv, Types, CreditsConserved, Closed, Drained, Up, Waits, Woken, Enters

\* BT_IPC_REMOTE_CONNECTED makes all the credits: the last session has left no
\* response that would bring one more.
LEMMA ConnectedSound ==
    ASSUME Inv, SessionConnected
    PROVE  Sound
<1>1. link \in Links /\ ~Up /\ session' = "up" /\ rup' = TRUE
  BY DEF Inv, Types, SessionConnected, Up
<1>2. link' = [link EXCEPT !.credits = MsgCredits]
  BY DEF SessionConnected
<1>3. /\ link' \in Links /\ link'.armed = link.armed /\ link'.queue = link.queue
      /\ link'.credits = MsgCredits /\ link'.rsps = link.rsps /\ link'.tx_seq = link.tx_seq
      /\ link'.pm_state = link.pm_state /\ link'.pm_action = link.pm_action /\ link'.fired = link.fired
  BY <1>1, <1>2, Constants DEF Links
<1>4. UNCHANGED <<mode, evq, calls, refused, rx_seq, last>>
  BY DEF SessionConnected
<1>5. link.rsps = 0 /\ link.queue = <<>>
  BY <1>1 DEF Inv, Closed
<1> QED BY <1>1, <1>3, <1>4, <1>5, Constants
        DEF Sound, Inv, Types, CreditsConserved, Closed, Drained, Up, Waits, Woken, Enters

\* remote_session_close asks to leave sniff mode before it closes the channel.
LEMMA CloseSound ==
    ASSUME Inv, remote_session_close
    PROVE  Sound
<1>1. link \in Links /\ session = "up" /\ session' = "closing"
  BY DEF Inv, Types, remote_session_close
<1>2. PmMoves(link, link') /\ link'.pm_action # "SNIFF_ENTER"
      /\ \/ link'.pm_state = link.pm_state
         \/ link.pm_state = "SNIFF" /\ link'.pm_state = "ACTIVE_PENDING"
  <2>1. link' \in bt_sniff_mode_exit(link, FALSE) /\ FALSE \in BOOLEAN
    BY DEF remote_session_close
  <2> QED BY <1>1, <2>1, ExitMoves
<1>3. UNCHANGED <<mode, evq, calls, refused, rup, rx_seq, last>>
  BY DEF remote_session_close
<1> QED BY <1>1, <1>2, <1>3
        DEF Sound, Inv, Types, CreditsConserved, Closed, Drained, Up, Waits, Enters, PmMoves

\* BT_IPC_REMOTE_DISCONNECTED at either end.
LEMMA DisconnectedSound ==
    ASSUME Inv, SenderDisconnected \/ ReceiverDisconnected
    PROVE  Sound
<1>1. link \in Links /\ link.chan \in Seq(Messages)
  BY LinkFields DEF Inv, Types
<1>2. CASE SenderDisconnected
  <2> DEFINE c == IF rup THEN link.chan ELSE <<>>
  <2>1. c \in Seq(Messages) /\ <<>> \in Seq(Messages) /\ Len(<<>>) = 0 /\ 0 \in Seqs
    BY <1>1, Constants DEF Seqs
  <2>2. link' = [link EXCEPT !.queue = <<>>, !.tx_seq = 0, !.rsps = 0, !.chan = c]
    BY <1>2 DEF SenderDisconnected
  <2> HIDE DEF c
  <2>3. /\ link' \in Links /\ link'.queue = <<>> /\ link'.credits = link.credits /\ link'.rsps = 0
        /\ link'.tx_seq = 0 /\ link'.pm_state = link.pm_state /\ link'.pm_action = link.pm_action
    BY <1>1, <2>1, <2>2 DEF Links
  <2>4. session' = "down" /\ refused' = 0 /\ UNCHANGED <<mode, evq, calls, rup, rx_seq, last>>
    BY <1>2 DEF SenderDisconnected
  <2> QED BY <2>1, <2>3, <2>4, Constants
          DEF Sound, Inv, Types, CreditsConserved, Closed, Drained, Up, Waits, Enters
<1>3. CASE ReceiverDisconnected
  <2>1. <<>> \in Seq(Messages) /\ 0 \in Seqs
    BY Constants DEF Seqs
  <2>2. link' = [link EXCEPT !.chan = <<>>]
    BY <1>3 DEF ReceiverDisconnected
  <2>3. /\ link' \in Links /\ link'.armed = link.armed /\ link'.queue = link.queue
        /\ link'.credits = link.credits /\ link'.rsps = link.rsps /\ link'.tx_seq = link.tx_seq
        /\ link'.pm_state = link.pm_state /\ link'.pm_action = link.pm_action /\ link'.fired = link.fired
    BY <1>1, <2>1, <2>2 DEF Links
  <2>4. rup' = FALSE /\ rx_seq' = 0 /\ UNCHANGED <<mode, evq, session, calls, refused, last>>
    BY <1>3 DEF ReceiverDisconnected
  <2> QED BY <2>1, <2>3, <2>4
          DEF Sound, Inv, Types, CreditsConserved, Closed, Drained, Up, Waits, Woken, Enters
<1> QED BY <1>2, <1>3

\* Every step is sound.
LEMMA StepSound ==
    ASSUME Inv, [Next]_vars
    PROVE  Sound
<1>1. CASE Next
  BY <1>1, RelaySound, HandleEventSound, TimersSound, IdleTimeoutSound, RetransSound, DataRspSound,
     DataIndSound, ConnectedSound, CloseSound, DisconnectedSound, CtrlSound DEF Next
<1>2. CASE UNCHANGED vars
  BY <1>2 DEF vars, Sound, Inv, Types, CreditsConserved, Closed, Drained, Up, Waits, Woken, Enters
<1> QED BY <1>1, <1>2

-----------------------------------------------------------------------------
(* The theorems.                                                           *)

\* The invariant holds in every state.
LEMMA Invariance == Spec => []Inv
<1>1. Init => Inv
  BY InitInv
<1>2. Inv /\ [Next]_vars => Inv'
  BY StepSound DEF Sound
<1> QED BY <1>1, <1>2, PTL DEF Spec

\* The queue never exceeds REMOTE_MSG_QUEUE_NUM, the credits never
\* REMOTE_MSG_CREDITS, and every field has its type, for any constants.
THEOREM TypeCorrect == Spec => []TypeOK
<1>1. Inv => TypeOK
  <2> SUFFICES ASSUME Inv PROVE TypeOK
    OBVIOUS
  <2>1. Types /\ link \in Links
    BY DEF Inv, Types
  <2>2. link.credits \in 0..MsgCredits
    BY <2>1, LinkFields, Constants DEF Types
  <2> QED BY <2>1, <2>2 DEF TypeOK, Types, Links, Seqs
<1> QED BY <1>1, Invariance, PTL

\* Neither the failed sends of remote_msg_dequeue, nor a session that ends with
\* responses missing, nor the cap of remote_relay_data_rsp loses or makes a credit.
THEOREM CreditsAlwaysConserved == Spec => []CreditsConserved
<1>1. Inv => CreditsConserved
  BY DEF Inv
<1> QED BY <1>1, Invariance, PTL

\* As long as GAP refuses no command, messages that remote_msg_dequeue leaves in the
\* queue wait for a response, for the retransmission timer, or for the mode change
\* whose event calls remote_bt_pm_cback.
THEOREM BacklogAlwaysHasWaker ==
    ASSUME GapMayReject = FALSE
    PROVE  Spec => []BacklogHasWaker
<1>1. Init => Inv /\ Waits
  BY InitInv
<1>2. Inv /\ Waits /\ [Next]_vars => (Inv /\ Waits)'
  BY StepSound DEF Sound
<1>3. Waits => BacklogHasWaker
  BY DEF Waits, Woken, BacklogHasWaker
<1> QED BY <1>1, <1>2, <1>3, PTL DEF Spec

\* bt_pm gives no command to enter sniff mode while messages wait, neither from the
\* idle timer nor for a request remembered from before they came.
THEOREM SniffAlwaysEntersDrained == Spec => EntersSniffDrained
<1>1. Inv /\ [Next]_vars =>
        [link'.pm_state = "SNIFF_PENDING" /\ link.pm_state # "SNIFF_PENDING" /\ Up' => link'.queue = <<>>]_vars
  BY StepSound DEF Sound, Enters
<1> QED BY <1>1, Invariance, PTL DEF Spec, EntersSniffDrained

-----------------------------------------------------------------------------
(* The refinement: what was accepted and not delivered.                    *)

Flow == link.chan \o link.queue

Ordered(q, low, high) ==
    \A i \in 1..Len(q) : /\ low < q[i].id /\ q[i].id <= high
                         /\ \A j \in 1..Len(q) : i < j => q[i].id < q[j].id

\* No message has the number of the one before it, which would have it dropped.
Distinct(q, x) ==
    /\ q # <<>> => q[1].seq # x
    /\ \A i \in 1..(Len(q) - 1) : q[i].seq # q[i + 1].seq

LastSeq(q, x) == IF q = <<>> THEN x ELSE q[Len(q)].seq

\* How often a number was counted on from a to b.
Dist(a, b) == IF a <= b THEN b - a ELSE b - a + SeqMod

Ids(q) == [i \in DOMAIN q |-> q[i].id]

FlowInv ==
    /\ Ordered(Flow, last, calls) /\ last <= calls
    /\ ~Up /\ ~rup => link.chan = <<>>
    /\ ~rup => rx_seq = 0
    /\ rup => Distinct(Flow, rx_seq)
    /\ Up /\ rup => Dist(LastSeq(Flow, rx_seq), link.tx_seq) = refused

\* A number counted on by less than SeqMod steps is another number: seq wraps around
\* without hitting the last one received.
LEMMA CountsOn ==
    ASSUME NEW a \in Seqs, NEW b \in Seqs, Dist(a, b) + 1 < SeqMod
    PROVE  /\ (b + 1) % SeqMod \in Seqs /\ (b + 1) % SeqMod # a
           /\ Dist(a, (b + 1) % SeqMod) = Dist(a, b) + 1
<1>1. SeqMod \in Nat /\ SeqMod > 0 /\ a \in Nat /\ b \in Nat /\ a < SeqMod /\ b < SeqMod
  BY Constants DEF Seqs
<1>2. (b + 1) % SeqMod = IF b + 1 = SeqMod THEN 0 ELSE b + 1
  BY <1>1
<1> QED BY <1>1, <1>2 DEF Dist, Seqs

\* The types of the fields of a message.
LEMMA MessageFields ==
    \A m \in Messages : m.id \in Nat /\ m.seq \in Seqs
BY DEF Messages, Seqs

\* A message accepted last has the largest number, and the flow stays free of repeats
\* if its seq is not that of the message before it.
LEMMA AppendFlow ==
    ASSUME NEW q \in Seq(Messages), NEW m \in Messages, NEW low \in Nat, NEW high \in Nat, NEW x \in Seqs,
           low <= high, m.id = high + 1, Ordered(q, low, high)
    PROVE  /\ Ordered(Append(q, m), low, high + 1)
           /\ Distinct(q, x) /\ m.seq # LastSeq(q, x) => Distinct(Append(q, m), x)
           /\ LastSeq(Append(q, m), x) = m.seq
<1> DEFINE p == Append(q, m)
<1>1. /\ p \in Seq(Messages) /\ Len(p) = Len(q) + 1 /\ p[Len(q) + 1] = m /\ p # <<>>
      /\ \A i \in 1..Len(q) : p[i] = q[i]
      /\ Len(q) \in Nat
  OBVIOUS
<1>2. \A i \in 1..Len(q) : q[i] \in Messages
  OBVIOUS
<1>3. \A i \in 1..Len(q) : q[i].id \in Nat
  BY <1>2, MessageFields
<1> HIDE DEF p
<1>4. Ordered(p, low, high + 1)
  <2> SUFFICES ASSUME NEW i \in 1..Len(p)
               PROVE  /\ low < p[i].id /\ p[i].id <= high + 1
                      /\ \A j \in 1..Len(p) : i < j => p[i].id < p[j].id
    BY DEF Ordered
  <2>1. CASE i = Len(q) + 1
    BY <1>1, <2>1
  <2>2. CASE i \in 1..Len(q)
    <3>1. low < q[i].id /\ q[i].id <= high /\ q[i].id \in Nat /\ p[i] = q[i]
      BY <1>1, <1>3, <2>2 DEF Ordered
    <3>2. ASSUME NEW j \in 1..Len(p), i < j PROVE p[i].id < p[j].id
      <4>1. CASE j = Len(q) + 1
        BY <1>1, <3>1, <4>1
      <4>2. CASE j \in 1..Len(q)
        BY <1>1, <2>2, <3>2, <4>2 DEF Ordered
      <4> QED BY <1>1, <4>1, <4>2
    <3> QED BY <3>1, <3>2
  <2> QED BY <1>1, <2>1, <2>2
<1>5. ASSUME Distinct(q, x), m.seq # LastSeq(q, x) PROVE Distinct(p, x)
  <2>1. CASE q = <<>>
    <3>1. Len(q) = 0 /\ m.seq # x
      BY <1>5, <2>1 DEF LastSeq
    <3> QED BY <1>1, <3>1 DEF Distinct
  <2>2. CASE q # <<>>
    <3>1. Len(q) > 0 /\ m.seq # q[Len(q)].seq
      BY <1>1, <1>5, <2>2 DEF LastSeq
    <3>2. p[1].seq # x
      BY <1>1, <1>5, <2>2, <3>1 DEF Distinct
    <3>3. ASSUME NEW i \in 1..(Len(p) - 1) PROVE p[i].seq # p[i + 1].seq
      <4>1. CASE i = Len(q)
        BY <1>1, <3>1, <4>1
      <4>2. CASE i \in 1..(Len(q) - 1)
        <5>1. p[i] = q[i] /\ p[i + 1] = q[i + 1]
          BY <1>1, <4>2
        <5> QED BY <1>5, <4>2, <5>1 DEF Distinct
      <4> QED BY <1>1, <4>1, <4>2
    <3> QED BY <3>2, <3>3 DEF Distinct
  <2> QED BY <2>1, <2>2
<1> QED BY <1>1, <1>4, <1>5 DEF p, LastSeq

\* The flow without the message that was delivered.
LEMMA TailFlow ==
    ASSUME NEW q \in Seq(Messages), q # <<>>, NEW low \in Nat, NEW high \in Nat, NEW x \in Seqs,
           Ordered(q, low, high)
    PROVE  /\ Ordered(Tail(q), q[1].id, high) /\ q[1].id <= high
           /\ Distinct(q, x) => Distinct(Tail(q), q[1].seq)
           /\ LastSeq(Tail(q), q[1].seq) = LastSeq(q, x)
<1> DEFINE p == Tail(q)
<1>1. /\ p \in Seq(Messages) /\ Len(p) = Len(q) - 1 /\ Len(q) \in Nat /\ Len(q) > 0
      /\ \A i \in 1..Len(p) : p[i] = q[i + 1]
      /\ Len(q) = 1 <=> p = <<>>
  <2>1. /\ p \in Seq(Messages) /\ Len(p) = Len(q) - 1 /\ Len(q) \in Nat /\ Len(q) > 0
        /\ \A i \in 1..Len(p) : p[i] = q[i + 1]
    OBVIOUS
  <2> HIDE DEF p
  <2>2. Len(p) = 0 <=> p = <<>>
    BY <2>1
  <2> QED BY <2>1, <2>2
<1> HIDE DEF p
<1>2. Ordered(p, q[1].id, high) /\ q[1].id <= high
  <2>1. \A i \in 1..Len(p) : i \in 1..Len(q) /\ i + 1 \in 1..Len(q)
    BY <1>1
  <2>2. 1 \in 1..Len(q)
    BY <1>1
  <2>3. ASSUME NEW i \in 1..Len(p)
        PROVE  q[1].id < p[i].id /\ p[i].id <= high
    <3>1. 1 < i + 1
      OBVIOUS
    <3> QED BY <1>1, <2>1, <2>2, <3>1 DEF Ordered
  <2>4. ASSUME NEW i \in 1..Len(p), NEW j \in 1..Len(p), i < j
        PROVE  p[i].id < p[j].id
    <3>1. i + 1 < j + 1
      BY <2>4
    <3> QED BY <1>1, <2>1, <3>1 DEF Ordered
  <2> QED BY <2>2, <2>3, <2>4 DEF Ordered
<1>3. ASSUME Distinct(q, x) PROVE Distinct(p, q[1].seq)
  <2>1. ASSUME p # <<>> PROVE p[1].seq # q[1].seq
    <3>1. 1 \in 1..Len(p) /\ 1 \in 1..(Len(q) - 1) /\ p[1] = q[1 + 1]
      BY <1>1, <2>1
    <3> QED BY <1>3, <3>1 DEF Distinct
  <2>2. ASSUME NEW i \in 1..(Len(p) - 1) PROVE p[i].seq # p[i + 1].seq
    <3>1. i + 1 \in 1..(Len(q) - 1) /\ p[i] = q[i + 1] /\ p[i + 1] = q[(i + 1) + 1]
      BY <1>1
    <3> QED BY <1>3, <3>1 DEF Distinct
  <2> QED BY <2>1, <2>2 DEF Distinct
<1>4. LastSeq(p, q[1].seq) = LastSeq(q, x)
  <2>1. CASE Len(q) = 1
    BY <1>1, <2>1 DEF LastSeq
  <2>2. CASE Len(q) # 1
    <3>1. Len(p) \in 1..Len(p) /\ Len(p) + 1 = Len(q)
      BY <1>1, <2>2
    <3>2. p[Len(p)] = q[Len(q)]
      BY <1>1, <3>1
    <3> QED BY <1>1, <2>2, <3>2 DEF LastSeq
  <2> QED BY <2>1, <2>2
<1> QED BY <1>2, <1>3, <1>4 DEF p

\* The messages of the queue are lost.
LEMMA PrefixFlow ==
    ASSUME NEW c \in Seq(Messages), NEW q \in Seq(Messages), NEW low \in Nat, NEW high \in Nat, NEW x \in Seqs,
           Ordered(c \o q, low, high)
    PROVE  /\ Ordered(c, low, high) /\ Ordered(q, low, high)
           /\ Distinct(c \o q, x) => Distinct(c, x)
<1> DEFINE p == c \o q
<1>1. /\ p \in Seq(Messages) /\ Len(p) = Len(c) + Len(q) /\ Len(c) \in Nat /\ Len(q) \in Nat
      /\ \A i \in 1..Len(c) : p[i] = c[i]
      /\ \A i \in 1..Len(q) : p[Len(c) + i] = q[i]
  OBVIOUS
<1> HIDE DEF p
<1>2. Ordered(p, low, high)
  BY DEF p
<1>3. Ordered(c, low, high)
  <2>1. \A i \in 1..Len(c) : i \in 1..Len(p)
    BY <1>1
  <2> QED BY <1>1, <1>2, <2>1 DEF Ordered
<1>4. Ordered(q, low, high)
  <2>1. ASSUME NEW i \in 1..Len(q) PROVE Len(c) + i \in 1..Len(p) /\ p[Len(c) + i] = q[i]
    BY <1>1
  <2>2. ASSUME NEW i \in 1..Len(q) PROVE low < q[i].id /\ q[i].id <= high
    BY <1>2, <2>1 DEF Ordered
  <2>3. ASSUME NEW i \in 1..Len(q), NEW j \in 1..Len(q), i < j PROVE q[i].id < q[j].id
    <3>1. Len(c) + i < Len(c) + j
      BY <1>1, <2>3
    <3>2. p[Len(c) + i].id < p[Len(c) + j].id
      BY <1>2, <2>1, <3>1 DEF Ordered
    <3> QED BY <2>1, <3>2
  <2> QED BY <2>2, <2>3 DEF Ordered
<1>5. ASSUME Distinct(p, x) PROVE Distinct(c, x)
  <2>1. ASSUME c # <<>> PROVE c[1].seq # x
    <3>1. 1 \in 1..Len(c) /\ p # <<>> /\ p[1] = c[1]
      BY <1>1, <2>1
    <3> QED BY <1>5, <3>1 DEF Distinct
  <2>2. ASSUME NEW i \in 1..(Len(c) - 1) PROVE c[i].seq # c[i + 1].seq
    <3>0. i \in 1..Len(c) /\ i + 1 \in 1..Len(c) /\ i \in 1..(Len(p) - 1)
      BY <1>1
    <3>1. i \in 1..(Len(p) - 1) /\ p[i] = c[i] /\ p[i + 1] = c[i + 1]
      BY <1>1, <3>0
    <3> QED BY <1>5, <3>1 DEF Distinct
  <2> QED BY <2>1, <2>2 DEF Distinct
<1> QED BY <1>3, <1>4, <1>5 DEF p

-----------------------------------------------------------------------------
(* The steps that only move messages along, or leave them alone.           *)

\* What the service sees of a step that it does not notice.
Unnoticed ==
    /\ Flow' = Flow /\ link'.tx_seq = link.tx_seq
    /\ UNCHANGED <<calls, refused, rup, rx_seq, last>>
    /\ Up' = Up

\* What is sent leaves the queue for the channel, so the flow is the same.
LEMMA MovedUnnoticed ==
    ASSUME Inv, Moved(link, link') \/ PmMoves(link, link')
    PROVE  Flow' = Flow /\ link'.tx_seq = link.tx_seq
BY DEF Moved, PmMoves, Flow

\* The steps that neither accept, deliver nor lose a message.
LEMMA Unnotices ==
    ASSUME Inv,
           \/ HandleEvent \/ IdleTimerExpires \/ bt_pm_timeout_cback \/ RetransTimerExpires
           \/ remote_retrans_timer_cback \/ remote_relay_data_rsp \/ remote_session_close
           \/ Ctrl \/ PeerSniffs \/ UNCHANGED vars
    PROVE  Unnoticed
<1>1. link \in Links /\ evq \in Seq(PmEvents) /\ Drained(link)
  BY DEF Inv, Types
<1>2. CASE HandleEvent
  <2>1. Head(evq) \in PmEvents /\ link' \in Handle(link, Head(evq))
    BY <1>1, <1>2 DEF HandleEvent
  <2>2. Moved(link, link')
    BY <1>1, <2>1, HandleMoves
  <2>3. UNCHANGED <<session, calls, refused, rup, rx_seq, last>>
    BY <1>2 DEF HandleEvent
  <2> QED BY <2>2, <2>3, MovedUnnoticed DEF Unnoticed, Up
<1>3. CASE IdleTimerExpires
  <2>1. link' = [link EXCEPT !.running = FALSE, !.posted = @ + 1]
    BY <1>3 DEF IdleTimerExpires
  <2>2. link'.queue = link.queue /\ link'.chan = link.chan /\ link'.tx_seq = link.tx_seq
    BY <1>1, <2>1 DEF Links
  <2> QED BY <1>3, <2>2 DEF IdleTimerExpires, Unnoticed, Flow, Up
<1>4. CASE bt_pm_timeout_cback
  <2> DEFINE taken == [link EXCEPT !.posted = link.posted - 1]
  <2>1. /\ UNCHANGED <<mode, evq, session, calls, refused, rup, rx_seq, last>>
        /\ link' \in IF taken.listed THEN SniffEnterReq(taken, Vetoed) ELSE {taken}
    BY <1>4 DEF bt_pm_timeout_cback
  <2>2. taken \in Links /\ taken.queue = link.queue /\ taken.chan = link.chan /\ taken.tx_seq = link.tx_seq
    <3>1. link.posted - 1 \in Nat
      BY <1>1, <1>4 DEF bt_pm_timeout_cback, Links
    <3> QED BY <1>1, <3>1 DEF Links
  <2> HIDE DEF taken
  <2>3. PmMoves(taken, link')
    BY <2>1, <2>2, EnterReqMoves, PmMovesSame
  <2> QED BY <2>1, <2>2, <2>3 DEF Unnoticed, Flow, Up, PmMoves
<1>5. CASE RetransTimerExpires
  <2>1. link' = [link EXCEPT !.armed = FALSE, !.fired = @ + 1]
    BY <1>5 DEF RetransTimerExpires
  <2>2. link'.queue = link.queue /\ link'.chan = link.chan /\ link'.tx_seq = link.tx_seq
    BY <1>1, <2>1 DEF Links
  <2> QED BY <1>5, <2>2 DEF RetransTimerExpires, Unnoticed, Flow, Up
<1>6. CASE remote_retrans_timer_cback
  <2> DEFINE s == [link EXCEPT !.fired = link.fired - 1]
  <2>1. PICK t \in remote_msg_dequeue(s) : link' = [t EXCEPT !.armed = t.armed \/ t.queue # <<>>]
    BY <1>6 DEF remote_retrans_timer_cback
  <2>2. s \in Links /\ s.queue = link.queue /\ s.chan = link.chan /\ s.tx_seq = link.tx_seq
    <3>0. link.fired > 0
      BY <1>6 DEF remote_retrans_timer_cback
    <3>1. link.fired - 1 \in 0..MaxPosted
      BY <1>1, <3>0, FiredField, Constants
    <3> QED BY <1>1, <3>1 DEF Links
  <2> HIDE DEF s
  <2>3. Moved(s, t)
    BY <2>1, <2>2, DequeueMoves
  <2>4. t \in Links
    BY <2>3 DEF Moved
  <2>5. link'.queue = t.queue /\ link'.chan = t.chan /\ link'.tx_seq = t.tx_seq
    BY <2>1, <2>4 DEF Links
  <2>6. UNCHANGED <<session, calls, refused, rup, rx_seq, last>>
    BY <1>6 DEF remote_retrans_timer_cback
  <2> QED BY <2>2, <2>3, <2>5, <2>6 DEF Unnoticed, Flow, Up, Moved
<1>7. CASE remote_relay_data_rsp
  <2> DEFINE c == IF link.credits < MsgCredits THEN link.credits + 1 ELSE link.credits
             s == [link EXCEPT !.rsps = link.rsps - 1, !.credits = c]
  <2>1. link' \in remote_msg_dequeue(s)
    BY <1>7 DEF remote_relay_data_rsp
  <2>0. link.rsps > 0
    BY <1>7 DEF remote_relay_data_rsp
  <2>2. c \in Nat /\ link.rsps - 1 \in Nat
    BY <1>1, <2>0, Constants DEF Links
  <2> HIDE DEF c
  <2>3. s \in Links /\ s.queue = link.queue /\ s.chan = link.chan /\ s.tx_seq = link.tx_seq
    BY <1>1, <2>2 DEF Links
  <2> HIDE DEF s
  <2>4. Moved(s, link')
    BY <2>1, <2>3, DequeueMoves
  <2>5. UNCHANGED <<session, calls, refused, rup, rx_seq, last>>
    BY <1>7 DEF remote_relay_data_rsp
  <2> QED BY <2>3, <2>4, <2>5 DEF Unnoticed, Flow, Up, Moved
<1>8. CASE remote_session_close
  <2>1. link' \in bt_sniff_mode_exit(link, FALSE) /\ FALSE \in BOOLEAN
    BY <1>8 DEF remote_session_close
  <2>2. PmMoves(link, link')
    BY <1>1, <2>1, ExitMoves
  <2> QED BY <1>8, <2>2, MovedUnnoticed DEF remote_session_close, Unnoticed, Up
<1>9. CASE Ctrl
  <2>1. \/ link' = [link EXCEPT !.cmds = Tail(@)]
        \/ link' = [link EXCEPT !.cmds = Tail(@),
                              !.refused = IF Executable /\ @ = "never" THEN "before" ELSE @]
    BY <1>9 DEF Ctrl, CtrlSucceeds, CtrlFails
  <2>2. link'.queue = link.queue /\ link'.chan = link.chan /\ link'.tx_seq = link.tx_seq
    BY <1>1, <2>1 DEF Links
  <2> QED BY <1>9, <2>2 DEF Ctrl, Unnoticed, Flow, Up
<1>10. CASE PeerSniffs
  BY <1>10 DEF PeerSniffs, PeerChangesMode, Unnoticed, Flow, Up
<1>11. CASE UNCHANGED vars
  BY <1>11 DEF vars, Unnoticed, Flow, Up
<1> QED BY <1>2, <1>3, <1>4, <1>5, <1>6, <1>7, <1>8, <1>9, <1>10, <1>11

-----------------------------------------------------------------------------
(* The numbers of the messages.                                            *)

\* The messages on their way are messages.
LEMMA FlowTyped ==
    ASSUME Inv
    PROVE  Flow \in Seq(Messages) /\ link.chan \in Seq(Messages) /\ link.queue \in Seq(Messages)
BY LinkFields DEF Inv, Types, Flow

\* What the service sees of the flow is the numbers of its messages.
LEMMA PendingIs == Pending = Ids(Flow)
BY DEF Pending, Ids, Flow

\* The numbers of a sequence of messages, one by one.
LEMMA IdsAre ==
    ASSUME NEW q \in Seq(Messages)
    PROVE  /\ Ids(q) \in Seq(Nat) /\ Len(Ids(q)) = Len(q)
           /\ \A i \in 1..Len(q) : Ids(q)[i] = q[i].id
<1>1. DOMAIN q = 1..Len(q) /\ Len(q) \in Nat
  OBVIOUS
<1>2. Ids(q) = [i \in 1..Len(q) |-> q[i].id]
  BY <1>1 DEF Ids
<1>3. \A i \in 1..Len(q) : q[i] \in Messages
  OBVIOUS
<1>4. \A i \in 1..Len(q) : q[i].id \in Nat
  BY <1>3, MessageFields
<1>5. Ids(q) \in Seq(Nat)
  BY <1>1, <1>2, <1>4
<1> QED BY <1>1, <1>2, <1>5

\* Two sequences with the same elements are the same.
LEMMA SameNumbers ==
    ASSUME NEW a \in Seq(Nat), NEW b \in Seq(Nat), Len(a) = Len(b), \A i \in 1..Len(a) : a[i] = b[i]
    PROVE  a = b
OBVIOUS

\* The numbers after a message is accepted.
LEMMA IdsAppend ==
    ASSUME NEW q \in Seq(Messages), NEW m \in Messages
    PROVE  Ids(Append(q, m)) = Append(Ids(q), m.id)
<1>1. Append(q, m) \in Seq(Messages) /\ Len(Append(q, m)) = Len(q) + 1 /\ Len(q) \in Nat
      /\ Append(q, m)[Len(q) + 1] = m /\ \A i \in 1..Len(q) : Append(q, m)[i] = q[i]
  OBVIOUS
<1> DEFINE a == Ids(Append(q, m))
           b == Append(Ids(q), m.id)
<1>2. /\ a \in Seq(Nat) /\ Len(a) = Len(q) + 1
      /\ \A i \in 1..(Len(q) + 1) : a[i] = Append(q, m)[i].id
  BY <1>1, IdsAre
<1>3. m.id \in Nat /\ Ids(q) \in Seq(Nat) /\ Len(Ids(q)) = Len(q) /\ \A i \in 1..Len(q) : Ids(q)[i] = q[i].id
  BY IdsAre, MessageFields
<1>4. b \in Seq(Nat) /\ Len(b) = Len(q) + 1 /\ b[Len(q) + 1] = m.id /\ \A i \in 1..Len(q) : b[i] = Ids(q)[i]
  BY <1>3
<1> HIDE DEF a, b
<1>5. ASSUME NEW i \in 1..(Len(q) + 1) PROVE a[i] = b[i]
  <2>1. CASE i = Len(q) + 1
    BY <1>1, <1>2, <1>4, <2>1
  <2>2. CASE i \in 1..Len(q)
    BY <1>1, <1>2, <1>3, <1>4, <2>2
  <2> QED BY <1>1, <2>1, <2>2
<1>6. a = b
  BY <1>2, <1>4, <1>5, SameNumbers
<1> QED BY <1>6 DEF a, b

\* The numbers after a message is delivered.
LEMMA IdsTail ==
    ASSUME NEW q \in Seq(Messages), q # <<>>
    PROVE  Ids(Tail(q)) = Tail(Ids(q)) /\ Head(Ids(q)) = q[1].id /\ Ids(q) # <<>>
<1>1. Tail(q) \in Seq(Messages) /\ Len(Tail(q)) = Len(q) - 1 /\ Len(q) \in Nat /\ Len(q) > 0
      /\ \A i \in 1..Len(Tail(q)) : Tail(q)[i] = q[i + 1]
  OBVIOUS
<1> DEFINE a == Ids(Tail(q))
           c == Ids(q)
           b == Tail(c)
<1>2. a \in Seq(Nat) /\ Len(a) = Len(q) - 1 /\ \A i \in 1..(Len(q) - 1) : a[i] = Tail(q)[i].id
  BY <1>1, IdsAre
<1>3. c \in Seq(Nat) /\ Len(c) = Len(q) /\ \A i \in 1..Len(q) : c[i] = q[i].id
  BY IdsAre
<1> HIDE DEF a, c
<1>4. c # <<>>
  BY <1>1, <1>3
<1>5. b \in Seq(Nat) /\ Len(b) = Len(c) - 1 /\ Head(c) = c[1] /\ \A i \in 1..(Len(c) - 1) : b[i] = c[i + 1]
  BY <1>3, <1>4
<1> HIDE DEF b
<1>6. ASSUME NEW i \in 1..(Len(q) - 1) PROVE a[i] = b[i]
  <2>1. i + 1 \in 1..Len(q)
    BY <1>1
  <2>2. a[i] = q[i + 1].id
    BY <1>1, <1>2
  <2>3. b[i] = c[i + 1]
    BY <1>3, <1>5
  <2> QED BY <1>3, <2>1, <2>2, <2>3
<1>7. a = b
  BY <1>2, <1>3, <1>5, <1>6, SameNumbers
<1>8. Head(c) = q[1].id
  BY <1>1, <1>3, <1>5
<1> QED BY <1>4, <1>7, <1>8 DEF a, b, c

\* The numbers of what is in the channel and of what is in the queue.
LEMMA IdsParts ==
    ASSUME NEW c \in Seq(Messages), NEW q \in Seq(Messages)
    PROVE  /\ Len(c) \in 0..Len(Ids(c \o q))
           /\ Ids(c) = SubSeq(Ids(c \o q), 1, Len(c))
           /\ Ids(q) = SubSeq(Ids(c \o q), Len(c) + 1, Len(Ids(c \o q)))
<1> DEFINE p == c \o q
           all == Ids(p)
<1>1. /\ p \in Seq(Messages) /\ Len(p) = Len(c) + Len(q) /\ Len(c) \in Nat /\ Len(q) \in Nat
      /\ \A i \in 1..Len(c) : p[i] = c[i]
      /\ \A i \in 1..Len(q) : p[Len(c) + i] = q[i]
  OBVIOUS
<1> HIDE DEF p
<1>2. all \in Seq(Nat) /\ Len(all) = Len(c) + Len(q) /\ \A i \in 1..Len(p) : all[i] = p[i].id
  BY <1>1, IdsAre
<1>3. Ids(c) \in Seq(Nat) /\ Len(Ids(c)) = Len(c) /\ \A i \in 1..Len(c) : Ids(c)[i] = c[i].id
  BY IdsAre
<1>4. Ids(q) \in Seq(Nat) /\ Len(Ids(q)) = Len(q) /\ \A i \in 1..Len(q) : Ids(q)[i] = q[i].id
  BY IdsAre
<1> HIDE DEF all
<1>5. Len(c) \in 0..Len(all)
  BY <1>1, <1>2
<1> DEFINE a == SubSeq(all, 1, Len(c))
           b == SubSeq(all, Len(c) + 1, Len(all))
<1>6. a \in Seq(Nat) /\ Len(a) = Len(c) /\ \A i \in 1..Len(c) : a[i] = all[i]
  BY <1>1, <1>2
<1>7. b \in Seq(Nat) /\ Len(b) = Len(q) /\ \A i \in 1..Len(q) : b[i] = all[Len(c) + i]
  <2> DEFINE from == Len(c) + 1
             to == Len(all)
  <2>1. from \in Int /\ to \in Int /\ to - from + 1 = Len(q) /\ from = Len(c) + 1
        /\ (from <= to \/ Len(q) = 0)
    BY <1>1, <1>2
  <2>2. \A i \in from..to : all[i] \in Nat
    BY <1>1, <1>2
  <2> HIDE DEF from, to
  <2>3. SubSeq(all, from, to) \in Seq(Nat)
        /\ Len(SubSeq(all, from, to)) = IF from <= to THEN to - from + 1 ELSE 0
    BY <2>1, <2>2, SubSeqProperties
  <2>4. \A i \in 1..(to - from + 1) : SubSeq(all, from, to)[i] = all[from + i - 1]
    BY <2>1, <2>2, SubSeqProperties
  <2>5. b = SubSeq(all, from, to)
    BY DEF b, from, to
  <2>6. \A i \in 1..Len(q) : from + i - 1 = Len(c) + i
    BY <1>1, <2>1
  <2>7. Len(b) = Len(q)
    BY <1>1, <2>1, <2>3, <2>5
  <2>8. \A i \in 1..Len(q) : b[i] = all[Len(c) + i]
    BY <2>1, <2>4, <2>5, <2>6
  <2> QED BY <2>3, <2>5, <2>7, <2>8
<1> HIDE DEF a, b
<1>8. ASSUME NEW i \in 1..Len(c) PROVE Ids(c)[i] = a[i]
  <2>1. i \in 1..Len(p)
    BY <1>1
  <2> QED BY <1>1, <1>2, <1>3, <1>6, <2>1
<1>9. ASSUME NEW i \in 1..Len(q) PROVE Ids(q)[i] = b[i]
  <2>1. Len(c) + i \in 1..Len(p)
    BY <1>1
  <2> QED BY <1>1, <1>2, <1>4, <1>7, <2>1
<1>10. Ids(c) = a
  BY <1>3, <1>6, <1>8, SameNumbers
<1>11. Ids(q) = b
  BY <1>4, <1>7, <1>9, SameNumbers
<1> QED BY <1>5, <1>10, <1>11 DEF a, b, all, p

\* The seq last used is a seq.
LEMMA LastSeqTyped ==
    ASSUME NEW q \in Seq(Messages), NEW x \in Seqs
    PROVE  LastSeq(q, x) \in Seqs
<1>1. q # <<>> => Len(q) \in 1..Len(q)
  OBVIOUS
<1>2. q # <<>> => q[Len(q)] \in Messages
  BY <1>1
<1> QED BY <1>2, MessageFields DEF LastSeq

\* Nothing is on its way only when neither the channel nor the queue holds any.
LEMMA EmptyFlow ==
    ASSUME NEW c \in Seq(Messages), NEW q \in Seq(Messages), c \o q = <<>>
    PROVE  c = <<>> /\ q = <<>>
<1>1. Len(c \o q) = Len(c) + Len(q) /\ Len(c) \in Nat /\ Len(q) \in Nat /\ Len(c \o q) = 0
  OBVIOUS
<1> QED BY <1>1

\* The flow when the queue is empty.
LEMMA JoinEmpty == \A c \in Seq(Messages) : c \o <<>> = c
OBVIOUS

-----------------------------------------------------------------------------
(* Every step is a step of the service.                                    *)

Serves == FlowInv' /\ [Service!Next]_<<Pending, last, Up, rup>>

\* A step that does not touch the flow is a stutter of the service.
LEMMA UnnoticedServes ==
    ASSUME Inv, Inv', FlowInv, Unnoticed
    PROVE  Serves
<1>1. Pending' = Pending
  BY PendingIs DEF Unnoticed, Ids, Pending, Flow
<1>2. ~Up' /\ ~rup' => link'.chan = <<>>
  <2> SUFFICES ASSUME ~Up', ~rup' PROVE link'.chan = <<>>
    OBVIOUS
  <2>1. link.chan = <<>> /\ link.queue = <<>>
    BY DEF Unnoticed, FlowInv, Inv, Closed
  <2>2. Flow' = <<>>
    BY <2>1 DEF Unnoticed, Flow
  <2>3. link' \in Links
    BY DEF Inv, Types
  <2>4. link'.chan \in Seq(Messages) /\ link'.queue \in Seq(Messages) /\ link'.chan \o link'.queue = <<>>
    BY <2>2, <2>3, LinkFields DEF Flow
  <2> QED BY <2>4, EmptyFlow
<1>3. FlowInv'
  BY <1>2 DEF Unnoticed, FlowInv
<1> QED BY <1>1, <1>3 DEF Serves, Unnoticed

\* remote_async_msg_relay is Accept, or a stutter when the queue is full: refused
\* calls use up numbers, but fewer than would bring seq back to the last one used.
LEMMA RelayServes ==
    ASSUME MaxRefusals + 1 < SeqMod, Inv, FlowInv, Relay
    PROVE  Serves
<1> DEFINE n == (link.tx_seq + 1) % SeqMod
           s == [link EXCEPT !.tx_seq = n]
           m == [id |-> calls + 1, seq |-> n]
           q == Append(link.queue, m)
<1>1. link \in Links /\ link.tx_seq \in Seqs /\ calls \in Nat /\ last \in Nat /\ calls' = calls + 1
      /\ calls + 1 \in 1..MaxCalls /\ Up /\ session # "down" /\ rx_seq \in Seqs
      /\ refused \in Nat /\ refused <= MaxRefusals /\ MaxRefusals \in Nat /\ SeqMod \in Nat
  <2>1. link \in Links /\ calls \in 0..MaxCalls /\ last \in 0..MaxCalls /\ rx_seq \in Seqs
        /\ refused \in 0..MaxRefusals
    BY DEF Inv, Types
  <2>2. calls < MaxCalls /\ calls' = calls + 1 /\ Up /\ session # "down"
    BY DEF Relay, Up
  <2>3. link.tx_seq \in Seqs
    BY <2>1 DEF Links
  <2> QED BY <2>1, <2>2, <2>3, Constants
<1>2. n \in Seqs
  BY <1>1, CountedTyped
<1>3. UNCHANGED <<session, rup, rx_seq, last>> /\ Up' = Up
  BY DEF Relay, Up
<1> DEFINE z == LastSeq(Flow, rx_seq)
<1>4. z \in Seqs
  BY <1>1, FlowTyped, LastSeqTyped
<1>5. rup => n # z /\ Dist(z, n) = Dist(z, link.tx_seq) + 1 /\ Dist(z, link.tx_seq) = refused
  <2> SUFFICES ASSUME rup PROVE n # z /\ Dist(z, n) = Dist(z, link.tx_seq) + 1 /\ Dist(z, link.tx_seq) = refused
    OBVIOUS
  <2>1. Dist(z, link.tx_seq) = refused
    BY <1>1 DEF FlowInv
  <2> HIDE DEF z
  <2>2. Dist(z, link.tx_seq) + 1 < SeqMod
    BY <1>1, <2>1
  <2> QED BY <1>1, <1>4, <2>1, <2>2, CountsOn
<1> HIDE DEF n, z
<1>6. /\ s \in Links /\ s.queue = link.queue /\ s.tx_seq = n /\ s.chan = link.chan
  BY <1>1, <1>2 DEF Links
<1>7. \/ /\ link' \in remote_msg_dequeue([s EXCEPT !.queue = Append(s.queue, [id |-> calls + 1, seq |-> s.tx_seq])])
         /\ refused' = 0
      \/ /\ link' = s
         /\ refused' = refused + 1
  BY DEF Relay, n
<1> HIDE DEF s
<1>8. last <= calls /\ Ordered(Flow, last, calls)
  BY DEF FlowInv
<1>9. CASE refused' = 0
           /\ link' \in remote_msg_dequeue([s EXCEPT !.queue = Append(s.queue, [id |-> calls + 1, seq |-> s.tx_seq])])
  <2> DEFINE w == [s EXCEPT !.queue = q]
  <2>1. link' \in remote_msg_dequeue(w)
    BY <1>6, <1>9
  <2>2. m \in Messages /\ m.id = calls + 1 /\ m.seq = n
    BY <1>1, <1>2 DEF Messages, Seqs
  <2> HIDE DEF m
  <2>3. q \in Seq(Messages)
    BY <2>2, FlowTyped
  <2>4. link.chan \o q = Append(Flow, m)
    <3>1. link.chan \in Seq(Messages) /\ link.queue \in Seq(Messages) /\ <<m>> \in Seq(Messages)
      BY <2>2, FlowTyped
    <3>2. q = link.queue \o <<m>>
      BY <2>2, <3>1, AppendIsConcat
    <3>3. link.chan \o q = Flow \o <<m>>
      <4>1. (link.chan \o link.queue) \o <<m>> = link.chan \o (link.queue \o <<m>>)
        BY <3>1, JoinAssociative
      <4>2. Flow = link.chan \o link.queue
        BY DEF Flow
      <4> QED BY <3>2, <4>1, <4>2
    <3> QED BY <2>2, <3>3, FlowTyped, AppendIsConcat
  <2> HIDE DEF q
  <2>5. w \in Links /\ w.queue = q /\ w.chan = link.chan /\ w.tx_seq = n
    BY <1>6, <2>3 DEF Links
  <2> HIDE DEF w
  <2>6. Moved(w, link')
    BY <2>1, <2>5, DequeueMoves
  <2>7. Flow' = Append(Flow, m) /\ link'.tx_seq = n
    BY <2>4, <2>5, <2>6 DEF Moved, Flow
  <2>8. /\ Ordered(Append(Flow, m), last, calls + 1)
        /\ Distinct(Flow, rx_seq) /\ m.seq # z => Distinct(Append(Flow, m), rx_seq)
        /\ LastSeq(Append(Flow, m), rx_seq) = n
    BY <1>1, <1>8, <2>2, FlowTyped, AppendFlow DEF z
  <2>9. Dist(n, n) = 0
    BY <1>2 DEF Dist, Seqs
  <2>10. FlowInv'
    <3>1. Ordered(Flow', last', calls') /\ last' <= calls'
      BY <1>1, <1>3, <1>8, <2>7, <2>8
    <3>2. rup' => Distinct(Flow', rx_seq')
      BY <1>3, <1>5, <2>2, <2>7, <2>8 DEF FlowInv
    <3>3. Dist(LastSeq(Flow', rx_seq'), link'.tx_seq) = refused'
      BY <1>3, <1>9, <2>7, <2>8, <2>9
    <3>4. ~rup' => rx_seq' = 0
      BY <1>3 DEF FlowInv
    <3> QED BY <1>1, <1>3, <3>1, <3>2, <3>3, <3>4 DEF FlowInv
  <2>11. Service!Accept
    <3>1. Pending' = Append(Pending, calls + 1)
      <4>1. Ids(Append(Flow, m)) = Append(Ids(Flow), calls + 1)
        BY <2>2, FlowTyped, IdsAppend
      <4>2. Pending' = Ids(Append(Flow, m))
        BY <2>7 DEF Pending, Ids, Flow
      <4> QED BY <4>1, <4>2, PendingIs
    <3>2. last < calls + 1
      BY <1>1, <1>8
    <3>3. \A i \in DOMAIN Pending : Pending[i] < calls + 1
      <4>1. DOMAIN Pending = 1..Len(Flow) /\ \A i \in 1..Len(Flow) : Pending[i] = Flow[i].id /\ Pending[i] \in Nat
        <5>1. Ids(Flow) \in Seq(Nat) /\ Len(Ids(Flow)) = Len(Flow)
              /\ \A i \in 1..Len(Flow) : Ids(Flow)[i] = Flow[i].id
          BY FlowTyped, IdsAre
        <5> QED BY <5>1, PendingIs
      <4>2. \A i \in 1..Len(Flow) : Flow[i].id <= calls
        BY <1>8 DEF Ordered
      <4> QED BY <1>1, <4>1, <4>2
    <3> QED BY <1>1, <1>3, <3>1, <3>2, <3>3 DEF Service!Accept
  <2> QED BY <2>10, <2>11 DEF Serves, Service!Next
<1>10. CASE link' = s /\ refused' = refused + 1
  <2>1. Flow' = Flow /\ link'.tx_seq = n /\ link'.chan = link.chan
    BY <1>6, <1>10 DEF Flow
  <2>2. Pending' = Pending
    BY <2>1 DEF Pending, Flow
  <2>3. Ordered(Flow, last, calls + 1) /\ last <= calls + 1
    <3>1. \A i \in 1..Len(Flow) : Flow[i].id \in Nat
      <4>1. \A i \in 1..Len(Flow) : Flow[i] \in Messages
        BY FlowTyped
      <4> QED BY <4>1, MessageFields
    <3> QED BY <1>1, <1>8, <3>1 DEF Ordered
  <2>4. rup => Dist(LastSeq(Flow, rx_seq), n) = refused + 1
    BY <1>5 DEF z
  <2>5. FlowInv'
    BY <1>1, <1>3, <1>10, <2>1, <2>3, <2>4 DEF FlowInv
  <2> QED BY <1>3, <2>2, <2>5 DEF Serves
<1> QED BY <1>7, <1>9, <1>10

\* remote_relay_data_ind is Deliver: the seq of the head is never rx_seq, so the
\* receiver drops none as a repeat.
LEMMA DataIndServes ==
    ASSUME Inv, FlowInv, remote_relay_data_ind
    PROVE  Serves
<1> DEFINE m == Head(link.chan)
<1>1. link \in Links /\ rup /\ link.chan # <<>> /\ link.chan \in Seq(Messages) /\ link.queue \in Seq(Messages)
  BY FlowTyped DEF Inv, Types, remote_relay_data_ind
<1>2. Flow \in Seq(Messages) /\ Flow # <<>> /\ Flow[1] = m /\ Tail(Flow) = Tail(link.chan) \o link.queue
      /\ Tail(link.chan) \in Seq(Messages)
  <2>1. Tail(link.chan) \in Seq(Messages) /\ <<m>> \in Seq(Messages) /\ m \in Messages
    BY <1>1
  <2>2. link.chan = <<m>> \o Tail(link.chan)
    BY <1>1
  <2>3. Flow = <<m>> \o (Tail(link.chan) \o link.queue)
    <3>1. (<<m>> \o Tail(link.chan)) \o link.queue = <<m>> \o (Tail(link.chan) \o link.queue)
      BY <1>1, <2>1, JoinAssociative
    <3>2. Flow = link.chan \o link.queue
      BY DEF Flow
    <3> QED BY <2>2, <3>1, <3>2
  <2> HIDE DEF m
  <2> DEFINE r == Tail(link.chan) \o link.queue
  <2>4. r \in Seq(Messages)
    BY <1>1, <2>1
  <2>5. Flow = <<m>> \o r
    BY <2>3
  <2> HIDE DEF r
  <2>6. <<m>> \o r # <<>> /\ (<<m>> \o r)[1] = m /\ Tail(<<m>> \o r) = r
    BY <2>1, <2>4
  <2> QED BY <2>1, <2>5, <2>6, FlowTyped DEF r
<1>3. Distinct(Flow, rx_seq) /\ Ordered(Flow, last, calls) /\ last <= calls
  BY <1>1 DEF FlowInv
<1>4. m.seq # rx_seq
  BY <1>2, <1>3 DEF Distinct
<1>5. rx_seq' = m.seq /\ last' = m.id /\ link' = [link EXCEPT !.chan = Tail(link.chan)]
      /\ UNCHANGED <<session, calls, refused, rup>> /\ Up' = Up
  BY <1>4 DEF remote_relay_data_ind, Up
<1>6. link'.queue = link.queue /\ link'.chan = Tail(link.chan) /\ link'.tx_seq = link.tx_seq
  BY <1>1, <1>5 DEF Links
<1>7. Flow' = Tail(Flow)
  BY <1>2, <1>6 DEF Flow
<1>8. last \in Nat /\ calls \in Nat /\ rx_seq \in Seqs
  BY Constants DEF Inv, Types
<1> HIDE DEF m
<1>9. /\ Ordered(Tail(Flow), m.id, calls) /\ m.id <= calls
      /\ Distinct(Tail(Flow), m.seq)
      /\ LastSeq(Tail(Flow), m.seq) = LastSeq(Flow, rx_seq)
  BY <1>2, <1>3, <1>8, TailFlow
<1>10. FlowInv'
  BY <1>1, <1>5, <1>6, <1>7, <1>9 DEF FlowInv
<1>11. Service!Deliver
  <2>1. Ids(Tail(Flow)) = Tail(Ids(Flow)) /\ Head(Ids(Flow)) = Flow[1].id /\ Ids(Flow) # <<>>
    BY <1>2, IdsTail
  <2>2. Pending' = Ids(Tail(Flow))
    BY <1>7 DEF Pending, Ids, Flow
  <2>3. last' = Head(Pending) /\ Pending # <<>> /\ Pending' = Tail(Pending)
    BY <1>2, <1>5, <2>1, <2>2, PendingIs
  <2> QED BY <1>1, <1>5, <2>3 DEF Service!Deliver
<1> QED BY <1>10, <1>11 DEF Serves, Service!Next

\* SessionConnected is Open: both ends start from the same number with nothing left
\* from the session before.
LEMMA ConnectedServes ==
    ASSUME Inv, FlowInv, SessionConnected
    PROVE  Serves
<1>1. link \in Links /\ ~Up /\ ~rup /\ session' = "up" /\ rup' = TRUE /\ Up'
  BY DEF Inv, Types, SessionConnected, Up
<1>2. link.queue = <<>> /\ link.tx_seq = 0 /\ refused = 0 /\ link.chan = <<>> /\ rx_seq = 0
  BY <1>1 DEF Inv, Closed, FlowInv
<1>3. link'.queue = link.queue /\ link'.chan = link.chan /\ link'.tx_seq = link.tx_seq
  BY <1>1 DEF SessionConnected, Links
<1>4. UNCHANGED <<calls, refused, rx_seq, last>>
  BY DEF SessionConnected
<1>5. Flow = <<>> /\ Flow' = <<>> /\ Len(<<>>) = 0
  BY <1>2, <1>3 DEF Flow
<1>6. Distinct(<<>>, 0) /\ LastSeq(<<>>, 0) = 0 /\ Dist(0, 0) = 0
  BY DEF Distinct, LastSeq, Dist
<1>7. FlowInv'
  BY <1>1, <1>2, <1>3, <1>4, <1>5, <1>6 DEF FlowInv
<1>8. Pending = <<>> /\ Pending' = <<>>
  <2>1. Ids(<<>>) = <<>>
    <3>1. <<>> \in Seq(Messages) /\ Len(<<>>) = 0
      OBVIOUS
    <3>2. Ids(<<>>) \in Seq(Nat) /\ Len(Ids(<<>>)) = 0
      BY <3>1, IdsAre
    <3> HIDE DEF Ids
    <3> QED BY <3>2
  <2>2. Pending' = Ids(Flow')
    BY DEF Pending, Ids, Flow
  <2> QED BY <1>5, <2>1, <2>2, PendingIs
<1>9. Service!Open
  BY <1>1, <1>4, <1>8 DEF Service!Open
<1> QED BY <1>7, <1>9 DEF Serves, Service!Next

\* BT_IPC_REMOTE_DISCONNECTED at the sender is CloseSender: it keeps what is in the
\* channel if the receiver has not closed, and nothing otherwise.
LEMMA SenderDisconnectedServes ==
    ASSUME Inv, FlowInv, SenderDisconnected
    PROVE  Serves
<1> DEFINE c == IF rup THEN link.chan ELSE <<>>
<1>1. link \in Links /\ link.chan \in Seq(Messages) /\ link.queue \in Seq(Messages) /\ rup \in BOOLEAN
  BY FlowTyped DEF Inv, Types
<1>2. c \in Seq(Messages)
  BY <1>1
<1>3. link' = [link EXCEPT !.queue = <<>>, !.tx_seq = 0, !.rsps = 0, !.chan = c]
  BY DEF SenderDisconnected
<1>4. Up /\ session' = "down" /\ ~Up' /\ UNCHANGED <<calls, rup, rx_seq, last>>
  BY DEF SenderDisconnected, Up
<1>5. link'.queue = <<>> /\ link'.chan = c
  <2> HIDE DEF c
  <2> QED BY <1>1, <1>3 DEF Links
<1>6. Flow' = c
  BY <1>2, <1>5, JoinEmpty DEF Flow
<1>7. last \in Nat /\ calls \in Nat /\ rx_seq \in Seqs
  BY Constants DEF Inv, Types
<1>8. Ordered(link.chan \o link.queue, last, calls) /\ last <= calls
      /\ (rup => Distinct(link.chan \o link.queue, rx_seq))
  BY DEF FlowInv, Flow
<1>9. Ordered(link.chan, last, calls) /\ (rup => Distinct(link.chan, rx_seq))
  BY <1>1, <1>7, <1>8, PrefixFlow
<1>10. Ordered(c, last, calls) /\ (rup => Distinct(c, rx_seq))
  <2>1. CASE rup
    BY <1>9, <2>1
  <2>2. CASE ~rup
    <3>1. c = <<>> /\ Len(<<>>) = 0
      BY <2>2
    <3> QED BY <2>2, <3>1 DEF Ordered
  <2> QED BY <1>1, <2>1, <2>2
<1>11. ~rup => link'.chan = <<>>
  BY <1>5
<1> HIDE DEF c
<1>12. FlowInv'
  BY <1>4, <1>6, <1>8, <1>10, <1>11 DEF FlowInv
<1>13. Service!CloseSender
  <2> DEFINE k == IF rup THEN Len(link.chan) ELSE 0
  <2>1. Pending = Ids(link.chan \o link.queue) /\ Pending \in Seq(Nat)
    <3>1. Ids(Flow) \in Seq(Nat)
      BY FlowTyped, IdsAre
    <3> QED BY <3>1, PendingIs DEF Flow
  <2>2. Pending' = Ids(c)
    BY <1>6 DEF Pending, Ids, Flow
  <2>3. k \in 0..Len(Pending) /\ Ids(c) = SubSeq(Pending, 1, k)
    <3>1. CASE rup
      <4>1. Len(link.chan) \in 0..Len(Pending) /\ Ids(link.chan) = SubSeq(Pending, 1, Len(link.chan))
        BY <1>1, <2>1, IdsParts
      <4> QED BY <3>1, <4>1 DEF c
    <3>2. CASE ~rup
      <4>1. Ids(c) \in Seq(Nat) /\ Len(Ids(c)) = Len(c)
        BY <1>2, IdsAre
      <4>2. c = <<>>
        BY <3>2 DEF c
      <4>3. Len(c) = 0
        BY <4>2
      <4>4. Ids(c) = <<>>
        BY <4>1, <4>3
      <4>5. SubSeq(Pending, 1, 0) = <<>> /\ 0 \in 0..Len(Pending)
        BY <2>1
      <4> QED BY <3>2, <4>4, <4>5
    <3> QED BY <1>1, <3>1, <3>2
  <2> HIDE DEF k
  <2> QED BY <1>4, <2>2, <2>3 DEF Service!CloseSender
<1> QED BY <1>12, <1>13 DEF Serves, Service!Next

\* BT_IPC_REMOTE_DISCONNECTED at the receiver is CloseReceiver: what is in the
\* channel is lost.
LEMMA ReceiverDisconnectedServes ==
    ASSUME Inv, FlowInv, ReceiverDisconnected
    PROVE  Serves
<1>1. link \in Links /\ link.chan \in Seq(Messages) /\ link.queue \in Seq(Messages)
  BY FlowTyped DEF Inv, Types
<1>2. link' = [link EXCEPT !.chan = <<>>] /\ rup = TRUE /\ rup' = FALSE /\ rx_seq' = 0
      /\ UNCHANGED <<session, calls, refused, last>> /\ Up' = Up
  BY DEF ReceiverDisconnected, Inv, Types, Up
<1>3. link'.queue = link.queue /\ link'.chan = <<>>
  BY <1>1, <1>2 DEF Links
<1>4. Flow' = link.queue
  <2>1. <<>> \o link.queue = link.queue
    BY <1>1
  <2> QED BY <1>3, <2>1 DEF Flow
<1>5. last \in Nat /\ calls \in Nat /\ rx_seq \in Seqs
  BY Constants DEF Inv, Types
<1>6. Ordered(link.chan \o link.queue, last, calls) /\ last <= calls
  BY DEF FlowInv, Flow
<1>7. Ordered(link.queue, last, calls)
  BY <1>1, <1>5, <1>6, PrefixFlow
<1>8. FlowInv'
  BY <1>2, <1>3, <1>4, <1>6, <1>7 DEF FlowInv
<1>9. Service!CloseReceiver
  <2>1. Pending = Ids(link.chan \o link.queue)
    BY PendingIs DEF Flow
  <2>2. Pending' = Ids(link.queue)
    BY <1>4 DEF Pending, Ids, Flow
  <2>3. Len(link.chan) \in 0..Len(Pending)
        /\ Ids(link.queue) = SubSeq(Pending, Len(link.chan) + 1, Len(Pending))
    BY <1>1, <2>1, IdsParts
  <2> QED BY <1>2, <2>2, <2>3 DEF Service!CloseReceiver
<1> QED BY <1>8, <1>9 DEF Serves, Service!Next

\* Every step is a step of the service.
LEMMA StepServes ==
    ASSUME MaxRefusals + 1 < SeqMod, Inv, FlowInv, [Next]_vars
    PROVE  Serves
<1>1. Inv'
  BY StepSound DEF Sound
<1>2. CASE \/ HandleEvent \/ IdleTimerExpires \/ bt_pm_timeout_cback \/ RetransTimerExpires
           \/ remote_retrans_timer_cback \/ remote_relay_data_rsp \/ remote_session_close
           \/ Ctrl \/ PeerSniffs \/ UNCHANGED vars
  BY <1>1, <1>2, Unnotices, UnnoticedServes
<1>3. CASE Relay \/ remote_relay_data_ind \/ SessionConnected \/ SenderDisconnected \/ ReceiverDisconnected
  BY <1>3, RelayServes, DataIndServes, ConnectedServes, SenderDisconnectedServes, ReceiverDisconnectedServes
<1> QED BY <1>2, <1>3 DEF Next

\* The relay implements RelayService, in order and at most once, over any number of
\* sessions and however often seq wraps around, provided fewer calls are refused in a
\* row than bring tx_seq round to the seq the receiver has last.
THEOREM AlwaysDeliversInOrder ==
    ASSUME MaxRefusals + 1 < SeqMod
    PROVE  Spec => DeliversInOrder
<1>1. Init => Inv /\ FlowInv /\ Service!Init
  <2> SUFFICES ASSUME Init PROVE Inv /\ FlowInv /\ Service!Init
    OBVIOUS
  <2>1. Flow = <<>> /\ Len(<<>>) = 0 /\ Pending = <<>>
    <3>1. link.chan = <<>> /\ link.queue = <<>>
      BY DEF Init
    <3>2. Flow = <<>>
      BY <3>1 DEF Flow
    <3>3. <<>> \in Seq(Messages) /\ Len(<<>>) = 0
      OBVIOUS
    <3>4. Ids(Flow) \in Seq(Nat) /\ Len(Ids(Flow)) = 0
      BY <3>2, <3>3, IdsAre
    <3>5. Ids(Flow) = <<>>
      BY <3>4
    <3> QED BY <3>2, <3>3, <3>5, PendingIs
  <2>2. FlowInv
    BY <2>1 DEF Init, FlowInv, Ordered, Up
  <2> QED BY <2>1, <2>2, InitInv DEF Init, Service!Init, Up
<1>2. Inv /\ FlowInv /\ [Next]_vars => (Inv /\ FlowInv)' /\ [Service!Next]_<<Pending, last, Up, rup>>
  BY StepSound, StepServes DEF Sound, Serves
<1> QED BY <1>1, <1>2, PTL DEF Spec, DeliversInOrder, Service!Spec

=============================================================================
