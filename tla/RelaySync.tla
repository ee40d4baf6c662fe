------------------------------ MODULE RelaySync ------------------------------
(***************************************************************************)
(* The appointment of a synchronous message (remote_mgr.c): both buds      *)
(* raise a timer for the same slot of a Bluetooth clock they share.  The   *)
(* clock has 28 bits and wraps around, the duration of a message is kept   *)
(* in 16 bits, and which piconet clock a bud can read depends on its links *)
(* and on the state of the sniffing connection.                            *)
(*                                                                         *)
(* Queue, credits and sniff mode are in RemoteRelay: here a call may leave *)
(* any of the messages waiting, and the send it stopped at may have given  *)
(* its message a new appointment.  Time is counted in slots; the reads of  *)
(* the clock in one handler see the same slot.                             *)
(***************************************************************************)
EXTENDS Integers, Sequences

CONSTANTS
    ClkMod,     \* 2^28: the Bluetooth clock
    DurMod,     \* 2^16: time_duration is a uint16_t
    MinLead,    \* 2 * REMOTE_RELAY_PERIOD_MIN * 1000 / 625
    Periods,    \* the timer periods asked for, in slots
    BudsPhase,  \* the clock of the buds' own piconet minus the phone's
    OtherPhase, \* the clock of the other phone's piconet minus the phone's
    MaxMsgs,    \* bound: messages
    Horizon     \* bound: slots

ASSUME RelaySyncAssumption ==
    /\ {ClkMod, DurMod, MinLead, BudsPhase, OtherPhase, MaxMsgs, Horizon} \subseteq Nat
    /\ Periods \subseteq Nat
    /\ ClkMod > 0 /\ ClkMod % 2 = 0
    /\ DurMod > 0

VARIABLES
    start,      \* the clock of the phone's piconet at slot 0
    now,        \* slots since then
    queue,      \* T_REMOTE_DB.relay_queue, its synchronous messages
    chan,       \* messages sent and not received
    sender,     \* of each message sent: the slot the sender's timer fires in
    outcome     \* of each message received: what remote_relay_data_ind did

vars == <<start, now, queue, chan, sender, outcome>>

Phones == {"phone", "other"}
Piconets == Phones \cup {"buds"}
Refs == {"SNIFFING", "CTRL", "NONE"}
Ids == 1..MaxMsgs
Unset == -1
Half == (ClkMod \div 2) - 1     \* 0x07ffffff

Shift(of) == CASE of = "buds" -> BudsPhase
               [] of = "other" -> OtherPhase
               [] OTHER -> 0

\* The clock of a piconet, which all its members read alike, and what a read
\* that fails leaves: 0xffffffff, here modulo the range of the clock.
Time(of) == IF of \in Piconets THEN (start + now + Shift(of)) % ClkMod ELSE ClkMod - 1

\* What bt_sniffing_get_piconet_clk goes by in one bud: bt_sniffing_state,
\* sniffing_handle ("lost" when the controller no longer answers for it),
\* whether the link between the buds can be read, and the active link.
SniffingStates == {"OFF", "SNIFFING_CONNECTED", "SETUP_RECOVERY",
                   "COORDINATED_ROLESWAP", "UNCOORDINATED_ROLESWAP"}

Links == [state : SniffingStates, handle : {"none", "lost"} \cup Phones,
          ctrl : BOOLEAN, active : {"none"} \cup Phones]

Found(ref, of) == [ref |-> ref, of |-> of]
Failed == Found("NONE", "none")
Sniffing(l) == IF l.handle = "lost" THEN Failed ELSE Found("SNIFFING", l.handle)
Ctrl(l) == IF l.ctrl THEN Found("CTRL", "buds") ELSE Failed

\* bt_piconet_clk_get(asked): the reference it returns and whose clock that is.
Read(l, asked) ==
    CASE asked = "NONE" ->
            IF l.handle # "none" /\ l.state \notin {"OFF", "UNCOORDINATED_ROLESWAP"}
            THEN Sniffing(l) ELSE Ctrl(l)
      [] asked = "SNIFFING" ->
            IF l.handle # "none" THEN Sniffing(l)
            ELSE IF l.active # "none" THEN Found("SNIFFING", l.active)
            ELSE Failed
      [] asked = "CTRL" ->
            IF l.state \in {"SETUP_RECOVERY", "COORDINATED_ROLESWAP", "UNCOORDINATED_ROLESWAP"}
            THEN Failed ELSE Ctrl(l)

\* All that a handler can read, from any links and sniffing state: role swaps,
\* phones and the link between the buds come and go between any two handlers.
Reads(l) == [asked \in Refs |-> Read(l, asked)]
Readings == {Reads(l) : l \in Links}

\* (a << 4) - (b << 4) >> 4 in 32 bits
Slots(a, b) == (a - b) % ClkMod

Init ==
    /\ start \in 0..(ClkMod - 1)
    /\ now = 0
    /\ queue = <<>> /\ chan = <<>>
    /\ sender = [i \in Ids |-> Unset]
    /\ outcome = [i \in Ids |-> [status |-> "none", arrived |-> 0, at |-> Unset,
                                 wraps |-> FALSE, foreign |-> FALSE, refused |-> FALSE]]

-----------------------------------------------------------------------------
(* The sender.                                                             *)

\* remote_sync_msg_relay.  The rest is history: whose clock the slot is of, the
\* slot asked for, the slot it was sent in, whether its clock never changed, and
\* whether the sender could not read that clock again.
Message(id, p, read) ==
    LET clk == read["NONE"]
    IN  [id |-> id, ref |-> clk.ref, slot |-> (Time(clk.of) + p) % ClkMod, dur |-> p % DurMod,
         of |-> clk.of, asked |-> now + p, sent |-> Unset, kept |-> TRUE, refused |-> FALSE]

\* The message with a new appointment, lead slots from now.
Appoint(m, read, lead) ==
    LET clk == read["NONE"]
    IN  [m EXCEPT !.ref = clk.ref, !.slot = Time(clk.of) + lead, !.dur = lead % DurMod,
                  !.of = clk.of, !.sent = now, !.kept = @ /\ m.of = clk.of,
                  !.refused = clk.ref # "NONE" /\ read[clk.ref].ref = "NONE"]

\* Mutant: an appointment that has passed is not moved.
NoLeadCheck(m, read) ==
    LET clk == read["NONE"]
        off == Slots(m.slot, Time(clk.of))
    IN  Appoint(m, read, IF m.ref # clk.ref THEN MinLead
                         ELSE IF off > m.dur THEN m.dur
                         ELSE off)

\* The new appointment remote_msg_dequeue makes before it sends a message.
\* The slot is not reduced to 28 bits here.
Stamped(m, read) ==
    LET clk == read["NONE"]
        off == Slots(m.slot, Time(clk.of))
    IN  Appoint(m, read, IF m.ref # clk.ref \/ off < MinLead \/ off > Half THEN MinLead
                         ELSE IF off > m.dur THEN m.dur
                         ELSE off)

\* The slot is ahead of the clock, by less than half of the clock's range.
Ahead(slot, clk) ==
    \/ slot > clk /\ slot - clk < Half
    \/ slot <= clk /\ clk - slot > Half

\* The slot remote_raise_cmd_timer lets the sender's timer fire in: at once if the
\* clock the message is stamped with cannot be read by that name.
Raised(m, read) ==
    LET clk == read[m.ref]
    IN  IF clk.ref # "NONE" /\ Ahead(m.slot, Time(clk.of))
        THEN now + Slots(m.slot, Time(clk.of)) ELSE now

\* remote_msg_dequeue sends the first n messages of q, each after it got a new
\* appointment, and may have given one to the message it failed to send.
Dequeued(q, read) ==
    \E n \in 0..Len(q), failed \in BOOLEAN :
        LET out == [i \in 1..n |-> Stamped(q[i], read)]
        IN  /\ chan' = chan \o out
            /\ queue' = [i \in 1..(Len(q) - n) |->
                           IF i = 1 /\ failed THEN Stamped(q[n + 1], read) ELSE q[n + i]]
            /\ sender' = [i \in Ids |->
                            IF \E j \in 1..n : out[j].id = i
                            THEN Raised(out[CHOOSE j \in 1..n : out[j].id = i], read)
                            ELSE sender[i]]

Known == {i \in Ids : sender[i] # Unset \/ \E j \in DOMAIN queue : queue[j].id = i}

remote_sync_msg_relay ==
    /\ \E read \in Readings, p \in Periods, id \in Ids :
          /\ read["NONE"].ref # "NONE"
          /\ id \notin Known
          /\ Dequeued(Append(queue, Message(id, p, read)), read)
    /\ UNCHANGED <<start, now, outcome>>

\* A response, a mode change or the retransmission timer.
remote_msg_dequeue ==
    /\ queue # <<>>
    /\ \E read \in Readings : Dequeued(queue, read)
    /\ UNCHANGED <<start, now, outcome>>

-----------------------------------------------------------------------------
(* The receiver.                                                           *)

\* The clock the receiver takes the slot of m for.  When the sniffing clock is
\* gone the buds' own is, if it is close enough to have been meant.
ClockOf(m, read) ==
    LET named == read[m.ref]
        ctrl == read["CTRL"]
    IN  IF named.ref # "NONE" /\ named.ref = m.ref THEN named
        ELSE IF /\ m.ref = "SNIFFING" /\ ctrl.ref # "NONE"
                /\ Slots(m.slot, Time(ctrl.of)) < m.dur
             THEN ctrl
        ELSE Failed

\* History: the slot was not reduced to the range of the clock, it was taken for one
\* of another piconet, and what befell the sender.
Result(m, clk, status, at) ==
    [status |-> status, arrived |-> now, at |-> at, wraps |-> m.slot >= ClkMod,
     foreign |-> clk.of # m.of, refused |-> m.refused]

\* Mutant: a message that needs its whole duration is late.
JudgeStrict(m, read) ==
    LET clk == ClockOf(m, read)
        off == Slots(m.slot, Time(clk.of))
    IN  IF clk.ref = "NONE" THEN Result(m, clk, "ref_changed", Unset)
        ELSE IF ~Ahead(m.slot, Time(clk.of)) \/ off >= m.dur THEN Result(m, clk, "expired", Unset)
        ELSE Result(m, clk, "armed", now + off)

\* Mutant: the time the message has travelled is not taken off.
JudgeWholeDuration(m, read) ==
    LET clk == ClockOf(m, read)
        off == Slots(m.slot, Time(clk.of))
    IN  IF clk.ref = "NONE" THEN Result(m, clk, "ref_changed", Unset)
        ELSE IF ~Ahead(m.slot, Time(clk.of)) \/ off > m.dur THEN Result(m, clk, "expired", Unset)
        ELSE Result(m, clk, "armed", now + m.dur)

Judge(m, read) ==
    LET clk == ClockOf(m, read)
        off == Slots(m.slot, Time(clk.of))
    IN  IF clk.ref = "NONE" THEN Result(m, clk, "ref_changed", Unset)
        ELSE IF ~Ahead(m.slot, Time(clk.of)) \/ off > m.dur THEN Result(m, clk, "expired", Unset)
        ELSE Result(m, clk, "armed", now + off)

remote_relay_data_ind ==
    /\ chan # <<>>
    /\ \E read \in Readings :
          outcome' = [outcome EXCEPT ![Head(chan).id] = Judge(Head(chan), read)]
    /\ chan' = Tail(chan)
    /\ UNCHANGED <<start, now, queue, sender>>

-----------------------------------------------------------------------------
Tick ==
    /\ now < Horizon
    /\ now' = now + 1
    /\ UNCHANGED <<start, queue, chan, sender, outcome>>

Next ==
    \/ remote_sync_msg_relay \/ remote_msg_dequeue
    \/ remote_relay_data_ind
    \/ Tick

Spec == Init /\ [][Next]_vars

-----------------------------------------------------------------------------
(* Properties.                                                             *)

\* The messages whose last appointment the model still knows.
Travelling == {chan[i] : i \in DOMAIN chan}

\* If the receiver raises a timer for a message, it fires in the slot the
\* sender's fires in: however long the message waited and travelled, whatever
\* clocks came and went, and wherever the clock wrapped around.  The exception
\* is a sender that was refused, in the middle of a role swap, the clock it had
\* just stamped the message with: its timer fires at once, and the receiver's
\* follows, by no more than a duration can be.
SameInstant ==
    \A i \in Ids : outcome[i].status = "armed" =>
        IF outcome[i].refused THEN outcome[i].at - sender[i] \in 0..(DurMod - 1)
                              ELSE outcome[i].at = sender[i]

\* A message whose clock never changed, and was not refused to the sender when it
\* raised its timer, fires at the sender when it was asked to, or MinLead after it
\* was sent if that was later than asked.
FiresWhenAsked ==
    \A m \in Travelling :
        m.kept /\ ~m.refused =>
            sender[m.id] = IF m.asked >= m.sent + MinLead THEN m.asked ELSE m.sent + MinLead

\* A message that arrives before the slot it was made for is reported expired
\* only if the clock wraps around between its appointment and that slot, or the
\* receiver reads the clock of another phone under the same name.
ExpiredOnlyForACause ==
    \A i \in Ids :
        outcome[i].status = "expired" /\ outcome[i].arrived < sender[i] =>
            outcome[i].wraps \/ outcome[i].foreign
=============================================================================
