------------------------------ MODULE BleExtAdv ------------------------------
(***************************************************************************)
(* The manager of LE advertising sets (ble_ext_adv.c).  GAP executes one   *)
(* action of one set at a time; the manager keeps the actions asked for    *)
(* meanwhile in a queue, and tells the application that a set is enabled   *)
(* or disabled as soon as the call was accepted.                           *)
(*                                                                         *)
(* The application, GAP (gap_handle_msg) and its callbacks share a task,   *)
(* so that an action is one call, one event of GAP or one callback.  GAP   *)
(* reports the changes of a set's state through the IO queue, so that the  *)
(* manager and the application may act before they have heard of a change; *)
(* reports of one set keep their order, those of two sets need not.  (Once *)
(* le_ext_adv_gap_msg_info_way(false) was called a report is a direct      *)
(* callback: one that follows its change at once.)                         *)
(*                                                                         *)
(* A handler that goes on to ble_ext_adv_mgr_check_next_step leaves        *)
(* draining set: then the turns of its loop are the only steps.            *)
(* ble_ext_adv_mgr_disable_all is one Disable per set.  A call that the    *)
(* application makes in the callback of a handler is a call after it: the  *)
(* one is queued and the handler's loop then takes it, the other finds     *)
(* what the loop has left.                                                 *)
(***************************************************************************)
EXTENDS Naturals, Sequences, FiniteSets

CONSTANTS
    Sets,           \* the advertising sets
    QueueNum,       \* MAX_NUM_OF_EXTEND_ADV_EVENT
    Refusable,      \* the actions GAP may refuse for no reason of ours
    MaxQueued,      \* bound: calls are made with at most this many queued,
    MaxQueuedHit,   \* and with at most this many once a set is in hit
    MaxUnread,      \* bound: GAP changes a set with at most this many reports unread
    MaxConns        \* bound: connections made

Actions == {"START", "STOP", "UPDATE"}

ASSUME BleExtAdvAssumption ==
    /\ Refusable \subseteq Actions
    /\ {QueueNum, MaxQueued, MaxQueuedHit, MaxUnread, MaxConns} \subseteq Nat

VARIABLES
    adv,        \* ble_ext_adv_set_table, see AdvSets
    queue,      \* extend_adv_event_handle
    stack,      \* the state of the sets in GAP
    io,         \* the reports of the set's changes in the IO queue
    setting,    \* le_ext_adv_start_setting is under way for these sets
    draining,   \* in the loop of ble_ext_adv_mgr_check_next_step
    closing,    \* a connection ends these sets, in GAP they are not idle yet
    conns,      \* GAP_CONN_STATE_CONNECTED is to come for these sets
    made,       \* connections made so far
    hit         \* history: these sets were disabled, or had entries deleted,
                \* while a start or a stop of them was on its way

lib == <<adv, queue, stack, io, setting>>
air == <<closing, conns, made>>
vars == <<lib, draining, air, hit>>

AdvStates == {"IDLE", "START", "ADVERTISING", "STOP"}

\* "zero" is success, and the cause of a set that ended in a connection; the
\* others, a timeout and a failure, make no difference to the manager.
Causes == {"zero", "cancelled", "other"}

\* "update" is APP_STOP_FOR_UPDATE, "app" any cause of the application.
AppCauses == {"app", "update"}

Reports == [state : AdvStates, cause : Causes]

Entries == [set : Sets, act : Actions, cause : AppCauses]

\* T_APP_EXT_ADV; num is pending_start_stop_num.
AdvSets == [used : BOOLEAN, mgr : {"DISABLED", "ENABLED"}, ext : AdvStates,
            pending : {"IDLE"} \cup Actions, num : Nat, cause : Causes,
            app_cause : AppCauses, param_set : BOOLEAN]

Init ==
    /\ adv = [s \in Sets |-> [used |-> FALSE, mgr |-> "DISABLED", ext |-> "IDLE",
                              pending |-> "IDLE", num |-> 0, cause |-> "zero",
                              app_cause |-> "app", param_set |-> FALSE]]
    /\ queue = <<>>
    /\ stack = [s \in Sets |-> "IDLE"]
    /\ io = [s \in Sets |-> <<>>]
    /\ setting = {}
    /\ draining = FALSE
    /\ closing = {} /\ conns = {} /\ made = 0
    /\ hit = {}

\* Calls are operators on the manager and GAP together: they return the set of
\* outcomes, and ok is what the call returned.
Now == [adv |-> adv, queue |-> queue, stack |-> stack, io |-> io, setting |-> setting, ok |-> TRUE]

Becomes(d) ==
    /\ adv' = d.adv /\ queue' = d.queue /\ stack' = d.stack /\ io' = d.io
    /\ setting' = d.setting

-----------------------------------------------------------------------------
(* GAP accepts a command or refuses it.                                    *)

Refuse(d, act) == IF act \in Refusable THEN {[d EXCEPT !.ok = FALSE]} ELSE {}

\* GAP reports the change of a set.
Told(reports, state, cause) == Append(reports, [state |-> state, cause |-> cause])

\* le_ext_adv_enable, le_ext_adv_disable; the temporary state is reported too.
GapChange(d, s, act, from) ==
    IF d.stack[s] # from THEN {[d EXCEPT !.ok = FALSE]}
    ELSE Refuse(d, act) \cup {[d EXCEPT !.stack[s] = act, !.ok = TRUE,
                                           !.io[s] = Told(@, act, "zero")]}

le_ext_adv_start_setting(d, s) ==
    Refuse(d, "UPDATE") \cup {[d EXCEPT !.setting = @ \cup {s}, !.ok = TRUE]}

-----------------------------------------------------------------------------
(* The three actions and the queue.                                        *)

ble_ext_adv_action_start(d, s) ==
    {IF t.ok THEN [t EXCEPT !.adv[s].pending = "START"]
             ELSE [t EXCEPT !.adv[s].mgr = "DISABLED"] : t \in GapChange(d, s, "START", "IDLE")}

ble_ext_adv_action_stop(d, s, cause) ==
    {IF t.ok THEN [t EXCEPT !.adv[s].app_cause = cause, !.adv[s].pending = "STOP"]
             ELSE [t EXCEPT !.adv[s].app_cause = cause] :
        t \in GapChange(d, s, "STOP", "ADVERTISING")}

ble_ext_adv_action_update(d, s) ==
    {IF t.ok THEN [t EXCEPT !.adv[s].pending = "UPDATE", !.adv[s].param_set = TRUE]
             ELSE t : t \in le_ext_adv_start_setting(d, s)}

Pending(d) == \E s \in Sets : d.adv[s].pending # "IDLE"

\* Mutant: a start is not counted.
SendNoCount(d, s, act, cause) ==
    IF Len(d.queue) >= QueueNum THEN [d EXCEPT !.ok = FALSE]
    ELSE [d EXCEPT !.queue = Append(@, [set |-> s, act |-> act, cause |-> cause]),
                   !.adv[s].num = IF act = "STOP" THEN @ + 1 ELSE @,
                   !.ok = TRUE]

ble_ext_adv_mgr_send_msg(d, s, act, cause) ==
    IF Len(d.queue) >= QueueNum THEN [d EXCEPT !.ok = FALSE]
    ELSE [d EXCEPT !.queue = Append(@, [set |-> s, act |-> act, cause |-> cause]),
                   !.adv[s].num = IF act \in {"START", "STOP"} THEN @ + 1 ELSE @,
                   !.ok = TRUE]

\* Mutant: an update does not wait for the action under way.
SetParamAtOnce(d, s) == ble_ext_adv_action_update(d, s)

ble_ext_adv_mgr_start_set_adv_param(d, s) ==
    IF Pending(d) THEN {ble_ext_adv_mgr_send_msg(d, s, "UPDATE", "app")}
    ELSE ble_ext_adv_action_update(d, s)

ble_ext_adv_mgr_enable(d, s) ==
    LET set == IF d.adv[s].param_set THEN {d} ELSE ble_ext_adv_mgr_start_set_adv_param(d, s)
        start(t) == IF Pending(t) THEN {ble_ext_adv_mgr_send_msg(t, s, "START", "app")}
                    ELSE ble_ext_adv_action_start(t, s)
    IN  {IF t.ok THEN [t EXCEPT !.adv[s].mgr = "ENABLED"] ELSE t :
            t \in UNION {start(u) : u \in set}}

ble_ext_adv_mgr_disable(d, s, cause) ==
    {IF t.ok /\ cause # "update" THEN [t EXCEPT !.adv[s].mgr = "DISABLED"] ELSE t :
        t \in IF Pending(d) THEN {ble_ext_adv_mgr_send_msg(d, s, "STOP", cause)}
              ELSE ble_ext_adv_action_stop(d, s, cause)}

\* New parameters or a new address: a set that is enabled is stopped for the
\* update and started again; the results of the calls are not looked at.
ble_ext_adv_mgr_set_adv_param(d, s) ==
    IF d.adv[s].mgr = "ENABLED"
    THEN {ble_ext_adv_mgr_send_msg(t, s, "START", "app") :
            t \in UNION {ble_ext_adv_mgr_start_set_adv_param(u, s) :
                           u \in ble_ext_adv_mgr_disable(d, s, "update")}}
    ELSE ble_ext_adv_mgr_start_set_adv_param(d, s)

\* init_flags make the first call set the parameters in any case.
ble_ext_adv_mgr_set_multi_param(d, s, params) ==
    LET all == params \/ ~d.adv[s].param_set
    IN  {IF t.ok /\ all THEN [t EXCEPT !.adv[s].param_set = TRUE] ELSE t :
            t \in IF all THEN ble_ext_adv_mgr_set_adv_param(d, s)
                  ELSE ble_ext_adv_mgr_start_set_adv_param(d, s)}

-----------------------------------------------------------------------------
(* The callbacks of GAP.                                                   *)

\* Does the application hear that the set is disabled?
Ended(a) ==
    /\ a.ext = "IDLE"
    /\ \/ a.cause = "zero"
       \/ a.num = 0 /\ ~(a.cause = "cancelled" /\ a.app_cause = "update")

\* Mutant: actions that are still queued do not matter.
CheckStateAlways(a) ==
    IF a.ext = "IDLE" /\ ~(a.cause = "cancelled" /\ a.app_cause = "update")
    THEN [a EXCEPT !.mgr = "DISABLED"] ELSE a

ble_ext_adv_mgr_check_state(a) == IF Ended(a) THEN [a EXCEPT !.mgr = "DISABLED"] ELSE a

\* The callback answers the action of the set.
Answered(a, act) == IF a.pending = act THEN [a EXCEPT !.pending = "IDLE"] ELSE a

\* The application hears that the set is disabled while a start or a stop of it
\* is queued, or GAP starts it: the report is from before that start.
Overtaken(s, a) ==
    /\ Ended(a)
    /\ \/ a.num > 0
       \/ a.pending = "START" /\ adv[s].ext # "START"

Hit(s, a) == IF Overtaken(s, a) THEN hit \cup {s} ELSE hit

\* Mutant: a start that failed is tried again before anything else.
RetriesStart(s, state, cause) ==
    LET old == adv[s].ext
        a == [adv[s] EXCEPT !.ext = state, !.cause = cause]
        again == state = "IDLE" /\ old = "START"
        ends == old \in {"START", "STOP"} /\ ~again
    IN  /\ adv' = [adv EXCEPT ![s] = IF again THEN a
                                     ELSE IF ends THEN Answered(ble_ext_adv_mgr_check_state(a), old)
                                     ELSE ble_ext_adv_mgr_check_state(a)]
        /\ draining' = (ends /\ queue # <<>>)
        /\ hit' = Hit(s, a)
        /\ stack' = [stack EXCEPT ![s] = IF again THEN "START" ELSE @]
        /\ io' = [io EXCEPT ![s] = IF again THEN Told(Tail(@), "START", "zero") ELSE Tail(@)]
        /\ UNCHANGED <<queue, setting>>

ble_ext_adv_mgr_handle_adv_state(s, state, cause) ==
    LET old == adv[s].ext
        new == [adv[s] EXCEPT !.ext = state, !.cause = cause]
        a == ble_ext_adv_mgr_check_state(new)
        ends == old \in {"START", "STOP"}
    IN  /\ adv' = [adv EXCEPT ![s] = IF ends THEN Answered(a, old) ELSE a]
        /\ draining' = (ends /\ queue # <<>>)
        /\ hit' = Hit(s, new)
        /\ io' = [io EXCEPT ![s] = Tail(@)]
        /\ UNCHANGED <<queue, stack, setting>>

\* The application takes a report out of the IO queue.
Report(s) ==
    /\ ~draining
    /\ io[s] # <<>>
    /\ ble_ext_adv_mgr_handle_adv_state(s, Head(io[s]).state, Head(io[s]).cause)
    /\ UNCHANGED air

\* GAP changes the state of a set.
Changes(s, state, cause) ==
    /\ ~draining
    /\ Len(io[s]) <= MaxUnread
    /\ stack' = [stack EXCEPT ![s] = state]
    /\ io' = [io EXCEPT ![s] = Told(@, state, cause)]
    /\ UNCHANGED <<adv, queue, setting, draining, conns, made, hit>>

\* A start succeeds or fails.
Started(s) ==
    /\ stack[s] = "START"
    /\ Changes(s, "ADVERTISING", "zero") \/ Changes(s, "IDLE", "other")
    /\ UNCHANGED closing

Stopped(s) ==
    /\ stack[s] = "STOP" /\ s \notin closing
    /\ Changes(s, "IDLE", "cancelled")
    /\ UNCHANGED closing

\* The duration is over, or was over before the set could be stopped.
TimesOut(s) ==
    /\ stack[s] \in {"ADVERTISING", "STOP"} /\ s \notin closing
    /\ Changes(s, "IDLE", "other")
    /\ UNCHANGED closing

ConnectionEnds(s) ==
    /\ s \in closing
    /\ closing' = closing \ {s}
    /\ Changes(s, "IDLE", "zero")

\* Mutant: the next step is left to the other callbacks.
SettingDoneOnly(s) ==
    /\ ~draining
    /\ s \in setting
    /\ setting' = setting \ {s}
    /\ adv' = [adv EXCEPT ![s] = Answered(@, "UPDATE")]
    /\ UNCHANGED <<queue, stack, io, draining, air, hit>>

\* GAP_MSG_LE_EXT_ADV_START_SETTING, whatever its cause.
ble_ext_adv_mgr_handle_gap_cb(s) ==
    /\ ~draining
    /\ s \in setting
    /\ setting' = setting \ {s}
    /\ adv' = [adv EXCEPT ![s] = Answered(@, "UPDATE")]
    /\ draining' = (queue # <<>>)
    /\ UNCHANGED <<queue, stack, io, air, hit>>

\* The entries of the other sets: all are read, and these are put back.
Others(q, s) ==
    LET kept[n \in 0..Len(q)] ==
            IF n = 0 THEN <<>>
            ELSE IF q[n].set = s THEN kept[n - 1] ELSE Append(kept[n - 1], q[n])
    IN  kept[Len(q)]

Queued(q, s) == {i \in DOMAIN q : q[i].set = s /\ q[i].act # "UPDATE"}

\* GAP_CONN_STATE_CONNECTED: the queued actions of the set are deleted.
ble_ext_adv_mgr_handle_conn_state(s) ==
    /\ ~draining
    /\ s \in conns
    /\ conns' = conns \ {s}
    /\ queue' = Others(queue, s)
    /\ hit' = IF Queued(queue, s) # {} THEN hit \cup {s} ELSE hit
    /\ UNCHANGED <<adv, stack, io, setting, draining, closing, made>>

-----------------------------------------------------------------------------
(* One turn of the loop of ble_ext_adv_mgr_check_next_step: an entry is    *)
(* taken out, and the first action that GAP accepts ends the loop.         *)

\* Mutant: updates are counted down too.
TakenCountsUpdates(d) ==
    LET e == Head(d.queue)
    IN  [d EXCEPT !.queue = Tail(@), !.adv[e.set].num = @ - 1, !.ok = FALSE]

Taken(d) ==
    LET e == Head(d.queue)
    IN  [d EXCEPT !.queue = Tail(@),
                  !.adv[e.set].num = IF e.act = "UPDATE" THEN @ ELSE @ - 1,
                  !.ok = FALSE]

Attempt(d, e) ==
    LET s == e.set
        rechecked(t) == IF ~t.ok /\ t.adv[s].num = 0
                        THEN [t EXCEPT !.adv[s] = ble_ext_adv_mgr_check_state(@)] ELSE t
    IN  CASE e.act = "START" /\ d.adv[s].ext = "IDLE" ->
               {rechecked(t) : t \in ble_ext_adv_action_start(d, s)}
          [] e.act = "STOP" /\ d.adv[s].ext = "ADVERTISING" ->
               {rechecked(t) : t \in ble_ext_adv_action_stop(d, s, e.cause)}
          [] e.act = "UPDATE" -> ble_ext_adv_action_update(d, s)
          [] OTHER -> {d}

ble_ext_adv_mgr_check_next_step ==
    /\ draining
    /\ LET e == Head(queue)
       IN  \E t \in Attempt(Taken(Now), e) :
              /\ Becomes(t)
              /\ draining' = (~t.ok /\ t.queue # <<>>)
              /\ hit' = IF e.act = "START" /\ adv[e.set].ext = "IDLE" /\ ~t.ok /\ t.adv[e.set].num > 0
                        THEN hit \cup {e.set} ELSE hit
    /\ UNCHANGED air

-----------------------------------------------------------------------------
(* The calls of the application.                                           *)

Call(s, results) ==
    /\ ~draining
    /\ adv[s].used
    /\ Len(queue) <= IF hit = {} THEN MaxQueued ELSE MaxQueuedHit
    /\ \E t \in results : Becomes(t)
    /\ UNCHANGED <<draining, air, hit>>

\* ble_ext_adv_mgr_init_adv_params
Create(s) ==
    /\ ~draining
    /\ ~adv[s].used
    /\ adv' = [adv EXCEPT ![s].used = TRUE]
    /\ UNCHANGED <<queue, stack, io, setting, draining, air, hit>>

\* GAP_CAUSE_INVALID_STATE: a set that is enabled is not enabled again.
Returns(s, mgr) == ~draining /\ adv[s].used /\ adv[s].mgr = mgr /\ UNCHANGED vars

Enable(s) ==
    \/ Returns(s, "ENABLED")
    \/ adv[s].mgr = "DISABLED" /\ Call(s, ble_ext_adv_mgr_enable(Now, s))

Disable(s) ==
    \/ Returns(s, "DISABLED")
    \/ adv[s].mgr = "ENABLED" /\ Call(s, ble_ext_adv_mgr_disable(Now, s, "app"))

SetParam(s) == Call(s, ble_ext_adv_mgr_set_adv_param(Now, s))

SetMultiParam(s) ==
    \E params \in BOOLEAN : Call(s, ble_ext_adv_mgr_set_multi_param(Now, s, params))

\* ble_ext_adv_mgr_set_adv_data and ble_ext_adv_mgr_set_scan_response_data
SetData(s) == Call(s, ble_ext_adv_mgr_start_set_adv_param(Now, s))

-----------------------------------------------------------------------------
\* A central connects, possibly while the set is being stopped.
Connects(s) ==
    /\ ~draining
    /\ stack[s] \in {"ADVERTISING", "STOP"}
    /\ made < MaxConns /\ s \notin closing \cup conns
    /\ made' = made + 1
    /\ closing' = closing \cup {s}
    /\ conns' = conns \cup {s}
    /\ UNCHANGED <<lib, draining, hit>>

\* What GAP answers the actions with, and how the manager hears of it.
Answers(s) == Report(s) \/ Started(s) \/ Stopped(s) \/ ble_ext_adv_mgr_handle_gap_cb(s)

Connected(s) == ConnectionEnds(s) \/ ble_ext_adv_mgr_handle_conn_state(s)

Next ==
    \/ ble_ext_adv_mgr_check_next_step
    \/ \E s \in Sets :
          \/ Answers(s) \/ TimesOut(s) \/ Connects(s) \/ Connected(s)
          \/ Create(s) \/ Enable(s) \/ Disable(s)
          \/ SetParam(s) \/ SetMultiParam(s) \/ SetData(s)

Spec == Init /\ [][Next]_vars

\* GAP answers what it accepted, the task handles what waits for it, and the
\* loop goes on.
Works ==
    \/ ble_ext_adv_mgr_check_next_step
    \/ \E s \in Sets : Answers(s) \/ Connected(s)

FairSpec == Spec /\ WF_vars(Works)

-----------------------------------------------------------------------------
(* Properties.                                                             *)

\* The states the variables may be in; pending_start_stop_num, an unsigned
\* counter, is never decremented below zero.
TypeOK ==
    /\ adv \in [Sets -> AdvSets]
    /\ queue \in Seq(Entries)
    /\ stack \in [Sets -> AdvStates] /\ io \in [Sets -> Seq(Reports)]
    /\ setting \subseteq Sets
    /\ draining \in BOOLEAN
    /\ closing \subseteq Sets /\ conns \subseteq Sets /\ made \in Nat /\ hit \subseteq Sets

Temporary == {"START", "STOP"}

\* GAP starts or stops the set, or the manager has not heard of the result.
UnderWay ==
    {s \in Sets : \/ stack[s] \in Temporary \/ adv[s].ext \in Temporary
                  \/ \E i \in DOMAIN io[s] : io[s][i].state \in Temporary}

\* The manager gives GAP a command only when it has the answer to the one
\* before, whatever sets the two are for (ble_ext_adv_mgr_find_pending_adv_action).
OneAtATime == \A s, t \in UnderWay \cup setting : s = t

\* Actions wait in the queue only while an answer of GAP is to come that makes
\* ble_ext_adv_mgr_check_next_step go on with them.
QueueHasWaker == queue # <<>> => draining \/ UnderWay \cup setting # {}

\* pending_start_stop_num, by which ble_ext_adv_mgr_check_state tells whether
\* the end of advertising is the last word, is the number of the set's starts
\* and stops in the queue; but for the sets in hit, whose entries a connection
\* may have deleted without counting them down.
CountKept == \A s \in Sets \ hit : adv[s].num = Cardinality(Queued(queue, s))

Quiet ==
    /\ ~draining /\ queue = <<>> /\ UnderWay = {} /\ setting = {}
    /\ closing = {} /\ conns = {} /\ \A s \in Sets : io[s] = <<>>

\* When nothing is left to do, the state that the application was told of is
\* the state of the set in GAP; but for the sets in hit, of which it was told
\* that they are disabled while a start of them was still on its way.
AgreesAtRest ==
    Quiet => \A s \in Sets \ hit : adv[s].mgr = "ENABLED" <=> stack[s] = "ADVERTISING"

\* A set that was disabled, and is not enabled again, stops advertising: the
\* stop is not lost behind the actions of other sets, nor behind a start of the
\* set that is queued before it.  Sets in hit are left out, as in AgreesAtRest.
DisabledStops ==
    \A s \in Sets : <>[](adv[s].mgr = "DISABLED" /\ s \notin hit) => <>[](stack[s] = "IDLE")
=============================================================================
