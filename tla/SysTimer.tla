------------------------------- MODULE SysTimer -------------------------------
(***************************************************************************)
(* The high precision timers of sys_timer.c: a delta list in front of one  *)
(* hardware timer.  The interrupt of the hardware timer only posts a       *)
(* message; the first timer of the list is taken out when the message is   *)
(* handled, some time later.  In between, and in the callbacks, timers are *)
(* started and stopped.                                                    *)
(*                                                                         *)
(* The state is one record, so that a C function is an operator on it:     *)
(*   list      hp_timer_list, each item its id and its timeout_left        *)
(*   interval  sys_timer_db.timeout_interval                               *)
(*   lag       os_hp_time_get() - sys_timer_db.hp_timeout_time             *)
(*   on, gone, period   the hardware timer: running, how long, for how long*)
(*   posted    SYS_MSG_TYPE_HP_TIMER messages in the queue                 *)
(*   rem       history: of each timer, the time left until it is due       *)
(*   early     history: a timer was taken for expired before it was due    *)
(***************************************************************************)
EXTENDS Integers, SequencesExt

CONSTANTS
    Timers,     \* the high precision timers
    Intervals,  \* the periods they are started with
    Reload,     \* those that are periodic
    May,        \* what may happen: "posted"   a timer is started or stopped
                \*     while an expiry message is queued, "callback"  or in a
                \*     callback, "inside"  the interrupt comes in the middle of
                \*     a call, "zero"  the hardware timer still reads 0 when it
                \*     is read after a restart, "lost"  the queue is full
    MaxLag,     \* bound: how long a message waits for its handler
    MaxPosted   \* bound: messages in the queue

ASSUME SysTimerAssumption ==
    /\ Intervals \subseteq Nat /\ Intervals # {}
    /\ Reload \subseteq Timers
    /\ May \subseteq {"posted", "callback", "inside", "zero", "lost"}
    /\ MaxLag \in Nat /\ MaxPosted \in Nat

VARIABLES db, period_of     \* period_of: timeout_interval of each timer

vars == <<db, period_of>>

Init ==
    /\ db = [list |-> <<>>, interval |-> 0, lag |-> 0,
             on |-> FALSE, gone |-> 0, period |-> 0, posted |-> 0,
             rem |-> [t \in Timers |-> 0], early |-> FALSE]
    /\ period_of \in [Timers -> Intervals]

\* The sum of timeout_left up to the i-th item.
Until(q, i) ==
    LET sum[k \in 0..Len(q)] == IF k = 0 THEN 0 ELSE sum[k - 1] + q[k].left
    IN  sum[i]

Listed(s) == {s.list[i].id : i \in DOMAIN s.list}
IndexOf(s, t) == CHOOSE i \in DOMAIN s.list : s.list[i].id = t

Stopped(s) == [s EXCEPT !.on = FALSE, !.gone = 0]

\* hw_timer_restart with what is left of the first item.
Armed(s) ==
    [s EXCEPT !.on = TRUE, !.gone = 0, !.period = s.list[1].left,
              !.interval = s.list[1].left]

\* A hardware timer that is off reads 0, as it may just after a restart.
ReadsZero(s) == ~s.on \/ ("zero" \in May /\ s.gone = 0)

\* sys_hp_timer_elapsed_time_update
Updated(s) ==
    LET elapsed == IF ReadsZero(s) THEN s.interval + s.lag ELSE s.gone
        left(i) == LET over == elapsed - Until(s.list, i - 1)
                   IN  IF over <= 0 THEN s.list[i].left
                       ELSE IF over < s.list[i].left THEN s.list[i].left - over
                       ELSE 0
        t == [s EXCEPT !.list = [i \in DOMAIN s.list |-> [s.list[i] EXCEPT !.left = left(i)]]]
    IN  IF ReadsZero(s) THEN t ELSE [t EXCEPT !.lag = 0, !.interval = 0]

\* What hw_timer_is_active and hw_timer_stop leave of s, and what the former
\* said: the interrupt may come before, between or after the two.
Halted(s) ==
    {[db |-> Stopped(s), active |-> s.on]}
        \cup IF "inside" \in May /\ s.on /\ s.gone = s.period /\ s.posted < MaxPosted
             THEN {[db |-> Stopped([s EXCEPT !.posted = @ + 1, !.lag = 0]), active |-> b] :
                     b \in BOOLEAN}
             ELSE {}

ArmedAgain(s, active) == IF active /\ s.list # <<>> THEN Armed(s) ELSE s

\* sys_hp_timer_list_remove
Removed(s, t) ==
    IF t \notin Listed(s) THEN {s}
    ELSE {LET q == h.db.list
              i == IndexOf(h.db, t)
              r == [h.db EXCEPT !.list =
                       RemoveAt(IF i = Len(q) THEN q ELSE [q EXCEPT ![i + 1].left = @ + q[i].left], i)]
          IN  ArmedAgain(r, h.active) : h \in Halted(Updated(s))}

\* Mutant: the item that follows is not moved closer.
LinkedNoDelta(q, t, p) ==
    LET i == CHOOSE k \in 1..(Len(q) + 1) :
                /\ k = Len(q) + 1 \/ Until(q, k) > p
                /\ \A j \in 1..(k - 1) : Until(q, j) <= p
    IN  InsertAt(q, i, [id |-> t, left |-> p - Until(q, i - 1)])

\* The list with t in front of the first item that expires later.
Linked(q, t, p) ==
    LET i == CHOOSE k \in 1..(Len(q) + 1) :
                /\ k = Len(q) + 1 \/ Until(q, k) > p
                /\ \A j \in 1..(k - 1) : Until(q, j) <= p
        own == p - Until(q, i - 1)
    IN  InsertAt(IF i = Len(q) + 1 THEN q ELSE [q EXCEPT ![i].left = @ - own],
                 i, [id |-> t, left |-> own])

\* sys_hp_timer_list_insert
Inserted(s, t, p) ==
    IF s.list = <<>>
    THEN {Armed([s EXCEPT !.list = <<[id |-> t, left |-> p]>>, !.rem[t] = p])}
    ELSE {ArmedAgain([h.db EXCEPT !.list = Linked(h.db.list, t, p), !.rem[t] = p], h.active) :
            h \in Halted(Updated(s))}

\* Mutant: a timer that is counting is not taken out of the list first.
StartedTwice(s, t, p) == Inserted(s, t, p)

\* sys_timer_start and sys_timer_restart
Started(s, t, p) == UNION {Inserted(r, t, p) : r \in Removed(s, t)}

-----------------------------------------------------------------------------
CallAllowed == db.posted = 0 \/ "posted" \in May

sys_timer_restart ==
    /\ CallAllowed
    /\ \E t \in Timers, p \in Intervals :
          db' \in Started(db, t, p) /\ period_of' = [period_of EXCEPT ![t] = p]

sys_timer_start ==
    /\ CallAllowed
    /\ \E t \in Timers : db' \in Started(db, t, period_of[t])
    /\ UNCHANGED period_of

\* sys_timer_delete does the same to the list.
sys_timer_stop ==
    /\ CallAllowed
    /\ \E t \in Listed(db) : db' \in Removed(db, t)
    /\ UNCHANGED period_of

\* sys_hw_timer_handler
HwExpires ==
    /\ db.on /\ db.gone = db.period
    /\ db.posted < MaxPosted
    /\ db' \in {[Stopped(db) EXCEPT !.posted = @ + 1, !.lag = 0]}
                 \cup IF "lost" \in May THEN {[Stopped(db) EXCEPT !.lag = 0]} ELSE {}
    /\ UNCHANGED period_of

\* What a callback may do: nothing, or start or stop a timer.
Callback(s) ==
    {s} \cup IF "callback" \in May
             THEN UNION {Removed(s, t) \cup Started(s, t, period_of[t]) : t \in Timers}
             ELSE {}

\* Mutant: the hardware timer is not started again for the rest of the list.
ResumedNever(s) == s

Resumed(s) == IF s.on \/ s.list = <<>> THEN s ELSE Armed(Updated(s))

\* sys_hp_timer_expire
Expired(s) ==
    LET r == Stopped([s EXCEPT !.interval = 0])
        t == r.list[1].id
        out == [r EXCEPT !.list = Tail(@), !.early = @ \/ r.rem[t] > 0]
        again == IF t \in Reload THEN Inserted(out, t, period_of[t]) ELSE {out}
    IN  IF s.list = <<>> THEN {r}
        ELSE {Resumed(c) : c \in UNION {Callback(a) : a \in again}}

sys_msg_handler ==
    /\ db.posted > 0
    /\ db' \in Expired([db EXCEPT !.posted = @ - 1])
    /\ UNCHANGED period_of

Tick ==
    /\ db.on => db.gone < db.period
    /\ db.posted > 0 => db.lag < MaxLag
    /\ db' = [db EXCEPT !.lag = IF @ < MaxLag THEN @ + 1 ELSE @,
                        !.gone = IF db.on THEN @ + 1 ELSE @,
                        !.rem = [t \in Timers |-> IF @[t] > 0 THEN @[t] - 1 ELSE 0]]
    /\ UNCHANGED period_of

Next ==
    \/ sys_timer_start \/ sys_timer_restart \/ sys_timer_stop
    \/ HwExpires \/ sys_msg_handler \/ Tick

Spec == Init /\ [][Next]_vars

-----------------------------------------------------------------------------
(* Properties.                                                             *)

TypeOK ==
    /\ db.list \in Seq([id : Timers, left : Nat])
    /\ \A i, j \in DOMAIN db.list : db.list[i].id = db.list[j].id => i = j
    /\ db.posted \in 0..MaxPosted /\ db.lag \in 0..MaxLag
    /\ db.on \in BOOLEAN /\ db.gone \in 0..db.period
    /\ period_of \in [Timers -> Intervals]

\* While a timer waits, the hardware timer runs or its message is queued: no
\* order of starts, stops, interrupts and callbacks leaves the list asleep.
AlwaysArmed == db.list # <<>> => db.on \/ db.posted > 0

\* No timer is late: once the messages are handled, what the list and the
\* hardware timer still have to count is at most what is left of its period.
NeverLate ==
    db.posted = 0 =>
        \A i \in DOMAIN db.list :
            LET counted == Until(db.list, i) - db.gone
            IN  counted <= db.rem[db.list[i].id]

\* What the comment of sys_hp_timer_expire says: the first item of the list is
\* the timer that has expired.
FirstItemExpired == ~db.early
=============================================================================
