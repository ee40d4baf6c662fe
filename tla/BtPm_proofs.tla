----------------------------- MODULE BtPm_proofs -----------------------------
(***************************************************************************)
(* Proofs about the power manager of a phone link, for every value of the  *)
(* constants.                                                              *)
(*                                                                         *)
(* Every handler of the model either asks for a mode (Requested) or first  *)
(* settles an event of the controller and then asks (Settled).  The first  *)
(* part shows so operator by operator, the second that the two relations   *)
(* keep the inductive invariant, the last what becomes of a role switch    *)
(* that was postponed.                                                     *)
(***************************************************************************)
EXTENDS BtPm, TLAPS, SequenceTheorems

Links ==
    [pm_state : PmState, pm_action : PmAction, pm_enable : BOOLEAN,
     policy : BOOLEAN, listed : BOOLEAN, running : BOOLEAN,
     posted : Nat, cmds : Seq(Commands), unexpected : BOOLEAN, refused : Refusals,
     role_master : BOOLEAN, role_switch_status : RoleStatus,
     held : SUBSET Holds]

BelievedOf(s) == IF s.pm_state \in {"ACTIVE", "SNIFF_PENDING"} THEN "active" ELSE "sniff"

\* A link as handlers find it and leave it.
AtRest(s) == s \in Links /\ ~Marked(s)

\* The state stays, or a command is given that takes the link to the other mode.
CommandGiven(s, t) ==
    \/ t.pm_state = s.pm_state /\ t.cmds = s.cmds
    \/ /\ s.pm_state = "ACTIVE"
       /\ t.pm_state = "SNIFF_PENDING"
       /\ t.cmds = Append(s.cmds, "enter")
    \/ /\ s.pm_state = "SNIFF"
       /\ t.pm_state = "ACTIVE_PENDING"
       /\ t.cmds = Append(s.cmds, "exit")

\* An active link has had its timer started, or its timer was not touched.
TimerKept(s, t) ==
    t.pm_state = "ACTIVE" =>
        \/ t.listed /\ t.running
        \/ t.listed = s.listed /\ t.running = s.running /\ t.posted = s.posted

\* What a request for a mode may do to a link at rest.
Requested(s, t) ==
    /\ AtRest(t)
    /\ t.unexpected = s.unexpected
    /\ CommandGiven(s, t)
    /\ TimerKept(s, t)

\* What an event of the controller has done to the link before pm_action is
\* looked at.
EventState(ev) == IF ev \in {"enter_fail", "conn_active"} THEN "ACTIVE" ELSE "SNIFF"

Settled(s, ev, m) ==
    /\ AtRest(m)
    /\ m.unexpected = s.unexpected
    /\ m.cmds = s.cmds
    /\ m.pm_state = EventState(ev)
    /\ m.pm_state = "ACTIVE" => m.listed /\ m.running

LEMMA RequestedReflexive ==
    ASSUME NEW s, AtRest(s) PROVE Requested(s, s)
BY DEF Requested, CommandGiven, TimerKept

LEMMA RequestedTransitive ==
    ASSUME NEW s, NEW t, NEW u, AtRest(s), Requested(s, t), Requested(t, u)
    PROVE  Requested(s, u)
BY DEF Requested, CommandGiven, TimerKept

\* The turn of a handler begins: only the history of refusals moves on.
LEMMA TurnRequests ==
    ASSUME NEW s, AtRest(s)
    PROVE  /\ Turn(s) \in Links /\ AtRest(Turn(s)) /\ Requested(s, Turn(s))
           /\ Turn(s).pm_state = s.pm_state /\ Turn(s).pm_action = s.pm_action
           /\ Turn(s).cmds = s.cmds /\ Turn(s).unexpected = s.unexpected
           /\ Turn(s).pm_enable = s.pm_enable /\ Turn(s).listed = s.listed
           /\ Turn(s).running = s.running /\ Turn(s).posted = s.posted
           /\ Turn(s).role_master = s.role_master /\ Turn(s).held = s.held
           /\ Turn(s).role_switch_status = s.role_switch_status
<1>1. PICK r \in Refusals : Turn(s) = [s EXCEPT !.refused = r]
  BY DEF Turn, AtRest, Links, Refusals
<1>2. Turn(s) \in Links
  BY <1>1 DEF AtRest, Links
<1>3. AtRest(Turn(s))
  BY <1>1, <1>2 DEF AtRest, Links, Marked
<1> QED BY <1>1, <1>2, <1>3 DEF Requested, AtRest, Links, CommandGiven, TimerKept

\* A link at rest takes no branch that is marked.
LEMMA NotedAtRest ==
    ASSUME NEW s, AtRest(s), NEW a
    PROVE  Noted(s, a) = [s EXCEPT !.pm_action = a]
<1>1. (s.unexpected \/ Marked(s)) = s.unexpected
  <2>1. s.unexpected \in BOOLEAN
    BY DEF AtRest, Links
  <2> QED BY <2>1 DEF AtRest
<1>2. [s EXCEPT !.pm_action = a, !.unexpected = s.unexpected] = [s EXCEPT !.pm_action = a]
  BY DEF AtRest, Links
<1> QED BY <1>1, <1>2 DEF Noted

\* A change of pm_action alone that leaves the link at rest.
LEMMA ActionRequests ==
    ASSUME NEW s, AtRest(s), NEW a \in PmAction,
           a = "IDLE" \/ <<s.pm_state, a>> \in {<<"SNIFF_PENDING", "SNIFF_EXIT">>, <<"ACTIVE_PENDING", "SNIFF_ENTER">>}
    PROVE  Requested(s, [s EXCEPT !.pm_action = a])
<1> DEFINE t == [s EXCEPT !.pm_action = a]
<1>1. t \in Links
  BY DEF AtRest, Links
<1>2. ~Marked(t)
  BY DEF AtRest, Links, Marked
<1>3. t.unexpected = s.unexpected /\ CommandGiven(s, t) /\ TimerKept(s, t)
  BY DEF AtRest, Links, CommandGiven, TimerKept
<1> QED BY <1>1, <1>2, <1>3 DEF Requested, AtRest

\* A refusal leaves the link as it is, but for the history.
LEMMA RefusedRequests ==
    ASSUME NEW s, AtRest(s), NEW t \in Refused(s)
    PROVE  t = [s EXCEPT !.refused = "now"] /\ Requested(s, t)
<1>1. t = [s EXCEPT !.refused = "now"]
  BY DEF Refused
<1>2. Requested(s, t)
  BY <1>1 DEF Requested, AtRest, Links, Marked, CommandGiven, TimerKept, Refusals
<1> QED BY <1>1, <1>2

\* gap_br_enter_sniff_mode and gap_br_exit_sniff_mode.
LEMMA IssueRequests ==
    ASSUME NEW s, AtRest(s), NEW cmd, NEW pending, NEW t \in Issue(s, cmd, pending),
           s.pm_action = "IDLE",
           <<s.pm_state, cmd, pending>> \in {<<"ACTIVE", "enter", "SNIFF_PENDING">>,
                                             <<"SNIFF", "exit", "ACTIVE_PENDING">>}
    PROVE  Requested(s, t)
<1>1. CASE t \in Refused(s)
  BY <1>1, RefusedRequests
<1>2. CASE t = [s EXCEPT !.pm_state = pending, !.cmds = Append(s.cmds, cmd)]
  <2>1. /\ pending \in PmState
        /\ Append(s.cmds, cmd) \in Seq(Commands)
    BY DEF AtRest, Links, PmState, Commands
  <2>2. t \in Links
    BY <1>2, <2>1 DEF AtRest, Links
  <2>3. ~Marked(t)
    BY <1>2 DEF AtRest, Links, Marked
  <2>4. t.unexpected = s.unexpected /\ CommandGiven(s, t) /\ TimerKept(s, t)
    BY <1>2 DEF AtRest, Links, CommandGiven, TimerKept
  <2> QED BY <2>2, <2>3, <2>4 DEF Requested, AtRest
<1> QED BY <1>1, <1>2 DEF Issue

LEMMA EnterRequests ==
    ASSUME NEW s, AtRest(s), NEW t \in bt_sniff_mode_enter(s)
    PROVE  Requested(s, t)
<1> DEFINE idle == [s EXCEPT !.pm_action = "IDLE"]
<1>1. s.pm_state \in PmState /\ "IDLE" \in PmAction /\ "SNIFF_ENTER" \in PmAction
  BY DEF AtRest, Links, PmAction
<1>2. Requested(s, idle)
  BY <1>1, ActionRequests
<1>3. CASE s.pm_state = "ACTIVE"
  <2>1. t \in Issue(idle, "enter", "SNIFF_PENDING")
    BY <1>3, NotedAtRest DEF bt_sniff_mode_enter
  <2>2. idle.pm_action = "IDLE" /\ idle.pm_state = "ACTIVE" /\ AtRest(idle)
    BY <1>2, <1>3 DEF Requested, AtRest, Links
  <2>3. Requested(idle, t)
    BY <2>1, <2>2, IssueRequests
  <2> QED BY <1>2, <2>3, RequestedTransitive
<1>4. CASE s.pm_state \in {"SNIFF_PENDING", "SNIFF"}
  <2>1. t = idle
    BY <1>4, NotedAtRest DEF bt_sniff_mode_enter
  <2> QED BY <2>1, <1>2
<1>5. CASE s.pm_state = "ACTIVE_PENDING"
  <2>1. t = [s EXCEPT !.pm_action = "SNIFF_ENTER"]
    BY <1>5, NotedAtRest DEF bt_sniff_mode_enter
  <2> QED BY <1>1, <1>5, <2>1, ActionRequests
<1> QED BY <1>1, <1>3, <1>4, <1>5 DEF PmState

LEMMA StartRequests ==
    ASSUME NEW s, AtRest(s) PROVE Requested(s, sys_timer_start(s))
<1> DEFINE t == sys_timer_start(s)
<1>1. t \in Links /\ ~Marked(t)
  BY DEF AtRest, Links, Marked, sys_timer_start
<1>2. t.unexpected = s.unexpected /\ CommandGiven(s, t) /\ TimerKept(s, t)
  BY DEF AtRest, Links, CommandGiven, TimerKept, sys_timer_start
<1> QED BY <1>1, <1>2 DEF Requested, AtRest

LEMMA ExitRequests ==
    ASSUME NEW s, AtRest(s), NEW r \in BOOLEAN, NEW t \in bt_sniff_mode_exit(s, r)
    PROVE  Requested(s, t)
<1> DEFINE idle == [s EXCEPT !.pm_action = "IDLE"]
<1>1. s.pm_state \in PmState /\ "IDLE" \in PmAction /\ "SNIFF_EXIT" \in PmAction
  BY DEF AtRest, Links, PmAction
<1>2. Requested(s, idle)
  BY <1>1, ActionRequests
<1>3. AtRest(idle)
  BY <1>2 DEF Requested
<1>4. CASE s.pm_state = "ACTIVE"
  <2>1. t = sys_timer_start(idle) \/ t = idle
    BY <1>4, NotedAtRest DEF bt_sniff_mode_exit
  <2> QED BY <1>2, <1>3, <2>1, StartRequests, RequestedTransitive
<1>5. CASE s.pm_state = "SNIFF_PENDING"
  <2>1. t = [s EXCEPT !.pm_action = "SNIFF_EXIT"]
    BY <1>5, NotedAtRest DEF bt_sniff_mode_exit
  <2> QED BY <1>1, <1>5, <2>1, ActionRequests
<1>6. CASE s.pm_state = "SNIFF"
  <2>1. t \in Issue(idle, "exit", "ACTIVE_PENDING")
    BY <1>6, NotedAtRest DEF bt_sniff_mode_exit
  <2>2. idle.pm_action = "IDLE" /\ idle.pm_state = "SNIFF"
    BY <1>6 DEF AtRest, Links
  <2>3. Requested(idle, t)
    BY <1>3, <2>1, <2>2, IssueRequests
  <2> QED BY <1>2, <2>3, RequestedTransitive
<1>7. CASE s.pm_state = "ACTIVE_PENDING"
  <2>1. t = idle
    BY <1>7, NotedAtRest DEF bt_sniff_mode_exit
  <2> QED BY <2>1, <1>2
<1> QED BY <1>1, <1>4, <1>5, <1>6, <1>7 DEF PmState

-----------------------------------------------------------------------------
(* The handlers.                                                           *)

\* A field the relations do not speak of may be written freely.
LEMMA FieldRequests ==
    ASSUME NEW s, AtRest(s), NEW b \in BOOLEAN
    PROVE  /\ Requested(s, [s EXCEPT !.policy = b])
           /\ Requested(s, [s EXCEPT !.pm_enable = b])
BY DEF Requested, AtRest, Links, Marked, CommandGiven, TimerKept

LEMMA PolicyRequests ==
    ASSUME NEW s, AtRest(s), NEW b \in BOOLEAN, NEW t \in SetPolicy(s, b)
    PROVE  Requested(s, t)
BY FieldRequests, RefusedRequests DEF SetPolicy

LEMMA EnterReqRequests ==
    ASSUME NEW s, AtRest(s), NEW vetoed \in BOOLEAN, NEW t \in SniffEnterReq(s, vetoed)
    PROVE  Requested(s, t) /\ (t.pm_state = "ACTIVE" => t.listed /\ t.running)
<1> DEFINE stopped == sys_timer_stop(s)
<1>1. AtRest(stopped) /\ stopped.unexpected = s.unexpected
                      /\ stopped.pm_state = s.pm_state /\ stopped.cmds = s.cmds
  BY DEF AtRest, Links, Marked, sys_timer_stop
\* The timer is stopped first, so what follows must start it again.
<1>2. ASSUME NEW u, Requested(stopped, u)
      PROVE  /\ Requested(s, sys_timer_start(u))
             /\ sys_timer_start(u).listed /\ sys_timer_start(u).running
  <2>1. AtRest(u) /\ u.unexpected = s.unexpected /\ CommandGiven(s, u)
    BY <1>1, <1>2 DEF Requested, CommandGiven
  <2>2. Requested(u, sys_timer_start(u))
    BY <2>1, StartRequests
  <2>3. sys_timer_start(u).listed /\ sys_timer_start(u).running
    BY <2>1 DEF AtRest, Links, sys_timer_start
  <2>4. sys_timer_start(u).pm_state = u.pm_state /\ sys_timer_start(u).cmds = u.cmds
    BY <2>1 DEF AtRest, Links, sys_timer_start
  <2> QED BY <2>1, <2>2, <2>3, <2>4 DEF Requested, CommandGiven, TimerKept
<1>3. CASE vetoed
  BY <1>1, <1>2, <1>3, RequestedReflexive DEF SniffEnterReq
<1>4. CASE ~vetoed /\ EnterDone(stopped)
  <2>1. Requested(stopped, t)
    BY <1>1, <1>4, EnterRequests DEF SniffEnterReq
  <2>2. t.pm_state # "ACTIVE"
    BY <1>1, <1>4, <2>1 DEF Requested, CommandGiven, EnterDone
  <2> QED BY <1>1, <2>1, <2>2 DEF Requested, CommandGiven, TimerKept
<1>5. CASE ~vetoed /\ ~EnterDone(stopped)
  <2>1. PICK u \in bt_sniff_mode_enter(stopped) : t = sys_timer_start(u)
    BY <1>5 DEF SniffEnterReq
  <2> QED BY <1>1, <1>2, <2>1, EnterRequests
<1> QED BY <1>3, <1>4, <1>5

LEMMA EnableRequests ==
    ASSUME NEW s, AtRest(s), NEW n \in BOOLEAN, NEW t \in bt_sniff_mode_enable(s, n)
    PROVE  Requested(s, t)
<1> DEFINE enabled == IF s.pm_enable THEN {s}
                      ELSE SetPolicy([s EXCEPT !.pm_enable = TRUE], TRUE)
<1>1. ASSUME NEW u \in enabled PROVE Requested(s, u)
  <2>1. Requested(s, [s EXCEPT !.pm_enable = TRUE])
    BY FieldRequests
  <2>2. CASE ~s.pm_enable
    BY <1>1, <2>1, <2>2, PolicyRequests, RequestedTransitive DEF Requested
  <2> QED BY <1>1, <2>2, RequestedReflexive
<1>2. CASE n
  <2>1. PICK u \in enabled : t \in SniffExitReq(u)
    BY <1>2 DEF bt_sniff_mode_enable
  <2>2. AtRest(u) /\ t \in bt_sniff_mode_exit(u, FALSE)
    BY <1>1, <2>1 DEF SniffExitReq, Requested
  <2> QED BY <1>1, <2>2, ExitRequests, RequestedTransitive
<1>3. CASE ~n
  BY <1>1, <1>3 DEF bt_sniff_mode_enable
<1> QED BY <1>2, <1>3

LEMMA DisableRequests ==
    ASSUME NEW s, AtRest(s), NEW t \in bt_sniff_mode_disable(s)
    PROVE  Requested(s, t)
<1> DEFINE u == [s EXCEPT !.pm_enable = FALSE]
<1>1. Requested(s, u) /\ AtRest(u)
  BY FieldRequests DEF Requested
<1>2. t = s \/ t \in SetPolicy(u, FALSE) \/ t \in bt_sniff_mode_exit(u, FALSE)
  BY DEF bt_sniff_mode_disable, SniffExitReq
<1>3. t = s \/ Requested(u, t)
  BY <1>1, <1>2, PolicyRequests, ExitRequests
<1> QED BY <1>1, <1>3, RequestedReflexive, RequestedTransitive

\* The end of every handler of bt_pm_sm: pm_action is settled, and acted on.
LEMMA EventSettles ==
    ASSUME NEW s, AtRest(s), NEW ev \in PmEvents, ~PmIgnores(s, ev),
           NEW t \in bt_pm_sm(s, ev)
    PROVE  \E m : Settled(s, ev, m) /\ Requested(m, t)
<1>1. PICK b \in PmBegin(s, ev) : t \in PmEnd(b, ev)
  BY DEF bt_pm_sm
<1> DEFINE m == [b EXCEPT !.pm_action = "IDLE"]
<1>2. /\ b \in Links
      /\ b.unexpected = s.unexpected
      /\ b.cmds = s.cmds
      /\ b.pm_state = EventState(ev)
      /\ b.pm_state = "ACTIVE" => b.listed /\ b.running
  <2>1. CASE ev = "conn_sniff"
    <3>1. b = [sys_timer_stop(s) EXCEPT !.pm_state = "SNIFF"]
      BY <1>1, <2>1 DEF PmBegin, SniffEnterSuccessBegin
    <3> QED BY <2>1, <3>1 DEF sys_timer_stop, AtRest, Links, PmState, EventState
  <2>2. CASE ev = "enter_fail"
    <3>1. b = [sys_timer_start(s) EXCEPT !.pm_state = "ACTIVE"]
      BY <1>1, <2>2 DEF PmBegin, SniffEnterFailBegin
    <3> QED BY <2>2, <3>1 DEF sys_timer_start, AtRest, Links, PmState, EventState
  <2>3. CASE ev = "conn_active"
    <3>1. PICK p \in {s} \cup SetPolicy(s, FALSE) : b = [sys_timer_start(p) EXCEPT !.pm_state = "ACTIVE"]
      BY <1>1, <2>3 DEF PmBegin, SniffExitSuccessBegin
    <3>2. p \in Links /\ p.unexpected = s.unexpected /\ p.cmds = s.cmds
      <4>1. CASE p = s
        BY <4>1 DEF AtRest
      <4>2. CASE p \in Refused(s)
        BY <4>2 DEF Refused, Refusals, AtRest, Links
      <4>3. CASE p = [s EXCEPT !.policy = FALSE]
        BY <4>3 DEF AtRest, Links
      <4> QED BY <3>1, <4>1, <4>2, <4>3 DEF SetPolicy
    <3> QED BY <2>3, <3>1, <3>2 DEF sys_timer_start, Links, PmState, EventState
  <2>4. CASE ev = "exit_fail"
    <3>1. b = [sys_timer_stop(s) EXCEPT !.pm_state = "SNIFF"]
      BY <1>1, <2>4 DEF PmBegin, SniffExitFailBegin
    <3> QED BY <2>4, <3>1 DEF sys_timer_stop, AtRest, Links, PmState, EventState
  <2> QED BY <2>1, <2>2, <2>3, <2>4 DEF PmEvents
<1>3. Settled(s, ev, m)
  <2>1. m \in Links
    BY <1>2 DEF Links, PmAction
  <2>2. m.unexpected = s.unexpected /\ m.cmds = s.cmds /\ m.pm_state = EventState(ev)
        /\ (m.pm_state = "ACTIVE" => m.listed /\ m.running)
    BY <1>2 DEF Links
  <2>3. ~Marked(m)
    BY <1>2 DEF Links, Marked, EventState
  <2> QED BY <2>1, <2>2, <2>3 DEF Settled, AtRest
<1>4. AtRest(m)
  BY <1>3 DEF Settled
<1>5. t = m \/ t \in bt_sniff_mode_exit(m, FALSE) \/ t \in bt_sniff_mode_enter(m)
  <2>1. CASE ev = "conn_sniff"
    BY <1>1, <2>1 DEF PmEnd, SniffEnterSuccessEnd
  <2>2. CASE ev = "enter_fail"
    BY <1>1, <2>2 DEF PmEnd, SniffEnterFailEnd, EnterIfPending
  <2>3. CASE ev = "conn_active"
    BY <1>1, <2>3 DEF PmEnd, SniffExitSuccessEnd, EnterIfPending
  <2>4. CASE ev = "exit_fail"
    BY <1>1, <2>4 DEF PmEnd, SniffExitFailEnd
  <2> QED BY <2>1, <2>2, <2>3, <2>4 DEF PmEvents
<1>6. Requested(m, t)
  BY <1>4, <1>5, RequestedReflexive, ExitRequests, EnterRequests
<1> QED BY <1>3, <1>6

LEMMA RoleSwitchRequests ==
    ASSUME NEW s, AtRest(s), NEW master \in BOOLEAN, NEW t \in bt_link_role_switch(s, master)
    PROVE  Requested(s, t)
\* role_switch_status is none of the fields the relations speak of.
<1>1. ASSUME NEW u, AtRest(u), NEW st \in RoleStatus
      PROVE  Requested(u, [u EXCEPT !.role_switch_status = st])
  BY <1>1 DEF Requested, AtRest, Links, Marked, CommandGiven, TimerKept
<1>2. Pending(master) \in RoleStatus /\ Running(master) \in RoleStatus
  BY DEF Pending, Running, RoleStatus
<1> DEFINE p == IF s.role_switch_status = "IDLE"
                THEN [s EXCEPT !.role_switch_status = Pending(master)] ELSE s
<1>3. Requested(s, p) /\ AtRest(p)
  BY <1>1, <1>2, RequestedReflexive DEF Requested
<1>4. CASE t = s
  BY <1>4, RequestedReflexive
<1>5. CASE t = p
  BY <1>3, <1>5
<1>6. CASE t \in bt_sniff_mode_exit(p, FALSE)
  BY <1>3, <1>6, ExitRequests, RequestedTransitive
<1>7. CASE \E u \in bt_sniff_mode_exit(p, FALSE) : t = [u EXCEPT !.role_switch_status = Running(master)]
  <2>1. PICK u \in bt_sniff_mode_exit(p, FALSE) : t = [u EXCEPT !.role_switch_status = Running(master)]
    BY <1>7
  <2>2. Requested(p, u) /\ AtRest(u)
    BY <1>3, ExitRequests DEF Requested
  <2>3. Requested(u, t)
    BY <1>1, <1>2, <2>1, <2>2
  <2> QED BY <1>3, <2>2, <2>3, RequestedTransitive
<1> QED BY <1>4, <1>5, <1>6, <1>7 DEF bt_link_role_switch

LEMMA RetryRequests ==
    ASSUME NEW s, AtRest(s), NEW t \in RetryRoleSwitch(s)
    PROVE  Requested(s, t)
<1>1. t = s \/ t \in bt_link_role_switch(s, TRUE) \/ t \in bt_link_role_switch(s, FALSE)
  BY DEF RetryRoleSwitch
<1> QED BY <1>1, RequestedReflexive, RoleSwitchRequests

-----------------------------------------------------------------------------
(* A link that is only asked to leave sniff mode stays active.             *)

Awake(s) == s \in Links /\ ~Marked(s) /\ s.pm_state = "ACTIVE"

LEMMA TurnAwake ==
    ASSUME NEW s, Awake(s) PROVE Awake(Turn(s))
<1>1. AtRest(s)
  BY DEF Awake, AtRest
<1> QED BY <1>1, TurnRequests DEF Awake, AtRest

LEMMA ExitAwake ==
    ASSUME NEW s, Awake(s), NEW r \in BOOLEAN, NEW t \in bt_sniff_mode_exit(s, r)
    PROVE  Awake(t)
<1>1. AtRest(s)
  BY DEF Awake, AtRest
<1>2. Noted(s, "IDLE") = [s EXCEPT !.pm_action = "IDLE"]
  BY <1>1, NotedAtRest
<1>3. t = [s EXCEPT !.pm_action = "IDLE"]
      \/ t = sys_timer_start([s EXCEPT !.pm_action = "IDLE"])
  BY <1>2 DEF Awake, bt_sniff_mode_exit
<1>4. t.pm_state = "ACTIVE"
  BY <1>3 DEF Awake, Links, sys_timer_start
<1>5. AtRest(t)
  BY <1>1, ExitRequests DEF Requested
<1> QED BY <1>4, <1>5 DEF Awake, AtRest

LEMMA UsersAwake ==
    ASSUME NEW s, Awake(s), NEW n \in BOOLEAN, NEW t,
           t \in bt_sniff_mode_enable(s, n) \/ t \in bt_sniff_mode_disable(s)
    PROVE  Awake(t)
<1>1. ASSUME NEW u, Awake(u), NEW b \in BOOLEAN
      PROVE  /\ Awake([u EXCEPT !.policy = b]) /\ Awake([u EXCEPT !.pm_enable = b])
             /\ \A v \in SetPolicy(u, b) : Awake(v)
  <2>1. Awake([u EXCEPT !.policy = b]) /\ Awake([u EXCEPT !.pm_enable = b])
    BY <1>1 DEF Awake, Links, Marked
  <2>2. \A v \in Refused(u) : Awake(v)
    BY <1>1, SMTT(20) DEF Awake, Links, Marked, Refused, Refusals
  <2> QED BY <2>1, <2>2 DEF SetPolicy
<1>2. CASE t \in bt_sniff_mode_enable(s, n)
  <2> DEFINE enabled == IF s.pm_enable THEN {s}
                        ELSE SetPolicy([s EXCEPT !.pm_enable = TRUE], TRUE)
  <2>1. \A u \in enabled : Awake(u)
    BY <1>1
  <2>2. t \in enabled \/ \E u \in enabled : t \in bt_sniff_mode_exit(u, FALSE)
    BY <1>2 DEF bt_sniff_mode_enable, SniffExitReq
  <2> QED BY <2>1, <2>2, ExitAwake
<1>3. CASE t \in bt_sniff_mode_disable(s)
  <2>1. t = s \/ t \in SetPolicy([s EXCEPT !.pm_enable = FALSE], FALSE)
              \/ t \in bt_sniff_mode_exit([s EXCEPT !.pm_enable = FALSE], FALSE)
    BY <1>3 DEF bt_sniff_mode_disable, SniffExitReq
  <2> QED BY <1>1, <2>1, ExitAwake
<1> QED BY <1>2, <1>3

LEMMA RoleSwitchAwake ==
    ASSUME NEW s, Awake(s), NEW t,
           t \in RetryRoleSwitch(s) \/ \E master \in BOOLEAN : t \in bt_link_role_switch(s, master)
    PROVE  Awake(t)
<1>1. ASSUME NEW u, Awake(u), NEW st \in RoleStatus
      PROVE  Awake([u EXCEPT !.role_switch_status = st])
  BY <1>1 DEF Awake, Links, Marked
<1>2. CASE t = s
  BY <1>2
<1>3. ASSUME NEW master \in BOOLEAN, t \in bt_link_role_switch(s, master) PROVE Awake(t)
  <2>1. Pending(master) \in RoleStatus /\ Running(master) \in RoleStatus
    BY DEF Pending, Running, RoleStatus
  <2> DEFINE p == IF s.role_switch_status = "IDLE"
                  THEN [s EXCEPT !.role_switch_status = Pending(master)] ELSE s
  <2>2. Awake(p)
    BY <1>1, <2>1
  <2>3. \/ t = s \/ t = p \/ t \in bt_sniff_mode_exit(p, FALSE)
        \/ \E u \in bt_sniff_mode_exit(p, FALSE) : t = [u EXCEPT !.role_switch_status = Running(master)]
    BY <1>3 DEF bt_link_role_switch
  <2> QED BY <1>1, <2>1, <2>2, <2>3, ExitAwake
<1> QED BY <1>2, <1>3 DEF RetryRoleSwitch

-----------------------------------------------------------------------------
(* The inductive invariant.  What a run checks is not inductive only for   *)
(* the time before the link is ready: then nothing has moved yet.          *)

NoLinkIsFresh ==
    phase = "none" =>
        /\ link.pm_state = "ACTIVE" /\ link.cmds = <<>>
        /\ ~link.listed /\ ~link.running
        /\ link.role_switch_status = "IDLE" /\ link.held = {}
        /\ busy /\ mode = "active" /\ evq = <<>>

SetupIsQuiet ==
    phase = "setup" =>
        link.pm_state = "ACTIVE" /\ link.cmds = <<>> /\ busy /\ mode = "active" /\ evq = <<>>

IInv ==
    /\ TypeOK
    /\ NoLinkIsFresh
    /\ SetupIsQuiet
    /\ PendingActionConsistent
    /\ MarkedBranchesUnreached
    /\ ModeTracked
    /\ PendingIsOutstanding
    /\ IdleTimerAlive

LEMMA InvGivesRest ==
    ASSUME IInv PROVE link \in Links /\ AtRest(link)
BY DEF IInv, TypeOK, PendingActionConsistent, Links, AtRest

LEMMA NewLinkTyped ==
    ASSUME NEW n \in Nat PROVE NewLink(n) \in Links /\ ~Marked(NewLink(n))
BY DEF NewLink, Links, Marked, PmState, PmAction, RoleStatus, Refusals

\* A step that gives at most one command, and keeps what is said of the timer.
LEMMA CommandKeeps ==
    ASSUME IInv, AtRest(link'), link'.unexpected = link.unexpected,
           CommandGiven(link, link'), IdleTimerAlive', NoLinkIsFresh', SetupIsQuiet',
           phase' \in {phase, "ready"}, mode' = mode, evq' = evq, busy' \in BOOLEAN
    PROVE  IInv'
<1>1. link \in Links /\ link' \in Links
  BY InvGivesRest DEF AtRest
<1>2. TypeOK'
  BY <1>1 DEF IInv, TypeOK, Links
<1>3. PendingActionConsistent' /\ MarkedBranchesUnreached'
  BY DEF IInv, AtRest, PendingActionConsistent, MarkedBranchesUnreached
<1>4. ModeTracked'
  <2>1. Believed' = Believed
    BY <1>1 DEF Believed, CommandGiven
  <2> QED BY <2>1 DEF IInv, ModeTracked, ModeEvent
<1>5. PendingIsOutstanding'
  <2>1. CASE link'.pm_state = link.pm_state /\ link'.cmds = link.cmds
    BY <2>1 DEF IInv, PendingIsOutstanding
  <2>2. CASE link'.pm_state # link.pm_state
    <3>1. PICK cmd \in Commands : /\ link'.cmds = Append(link.cmds, cmd)
                                  /\ \/ cmd = "enter" /\ link'.pm_state = "SNIFF_PENDING"
                                     \/ cmd = "exit" /\ link'.pm_state = "ACTIVE_PENDING"
      BY <1>1, <2>2 DEF CommandGiven, Commands
    <3>2. Len(link.cmds) + 1 \in DOMAIN link'.cmds /\ link'.cmds[Len(link.cmds) + 1] = cmd
      BY <1>1, <3>1 DEF Links
    <3> QED BY <3>1, <3>2 DEF PendingIsOutstanding
  <2> QED BY <1>1, <2>1, <2>2 DEF CommandGiven
<1> QED BY <1>2, <1>3, <1>4, <1>5 DEF IInv

\* A handler that only asks for a mode keeps the invariant.
LEMMA RequestKeeps ==
    ASSUME IInv, phase # "none", Requested(link, link'),
           phase' = phase, mode' = mode, evq' = evq, busy' \in BOOLEAN,
           phase = "setup" => busy' /\ Awake(link')
    PROVE  IInv'
<1>1. link \in Links /\ link' \in Links /\ CommandGiven(link, link') /\ TimerKept(link, link')
  BY InvGivesRest DEF Requested, AtRest
<1>2. IdleTimerAlive'
  BY <1>1 DEF IInv, IdleTimerAlive, TimerKept, CommandGiven
<1>3. NoLinkIsFresh'
  BY DEF NoLinkIsFresh
<1>4. SetupIsQuiet'
  BY <1>1 DEF IInv, SetupIsQuiet, Awake, CommandGiven
<1> QED BY <1>1, <1>2, <1>3, <1>4, CommandKeeps DEF Requested

\* So does a handler of an event that settles it and then asks for a mode.
LEMMA EventKeeps ==
    ASSUME IInv, evq # <<>>, ~PmIgnores(link, Head(evq)),
           NEW m, Settled(Turn(link), Head(evq), m), Requested(m, link'),
           phase' = phase, mode' = mode, evq' = Tail(evq), busy' \in BOOLEAN
    PROVE  IInv'
<1>1. /\ link \in Links /\ m \in Links /\ link' \in Links
      /\ CommandGiven(m, link') /\ TimerKept(m, link')
      /\ evq \in Seq(PmEvents)
  BY InvGivesRest DEF Requested, Settled, AtRest, IInv, TypeOK
<1>0. Turn(link).unexpected = link.unexpected
  BY InvGivesRest, TurnRequests
<1>2. TypeOK'
  BY <1>1 DEF IInv, TypeOK, Links
<1>3. phase' = "ready"
  BY DEF IInv, TypeOK, NoLinkIsFresh, SetupIsQuiet
<1>4. PendingActionConsistent' /\ MarkedBranchesUnreached'
  BY <1>0 DEF IInv, Requested, Settled, AtRest, PendingActionConsistent, MarkedBranchesUnreached
<1>5. /\ Len(evq') = Len(evq) - 1
      /\ \A i \in DOMAIN evq' : evq'[i] = evq[i + 1] /\ i + 1 \in DOMAIN evq
      /\ \A j \in DOMAIN evq : j = 1 \/ j - 1 \in DOMAIN evq'
      /\ 1 \in DOMAIN evq /\ evq[1] = Head(evq)
  BY <1>1
\* What the settled event makes the host believe.
<1>6. Believed' = IF Head(evq) \in {"enter_fail", "conn_active"} THEN "active" ELSE "sniff"
  BY <1>1 DEF Believed, CommandGiven, Settled, EventState
<1> DEFINE Change(j) == IsChange(evq[j])
<1>7. ASSUME \A i \in DOMAIN evq' : ~IsChange(evq'[i]) PROVE Believed' = mode
  <2>1. \A j \in DOMAIN evq : j > 1 => ~Change(j)
    BY <1>1, <1>5, <1>7
  <2>2. CASE Change(1)
    <3>1. evq[1] = ModeEvent(mode)
      BY <1>5, <2>1, <2>2 DEF IInv, ModeTracked
    <3> QED BY <1>5, <1>6, <2>2, <3>1 DEF IsChange, ModeEvent, IInv, TypeOK
  <2>3. CASE ~Change(1)
    <3>1. Believed = mode
      BY <2>1, <2>3 DEF IInv, ModeTracked
    <3>2. Head(evq) \in {"enter_fail", "exit_fail"}
      BY <1>1, <1>5, <2>3 DEF PmEvents, IsChange
    <3>3. Believed = IF Head(evq) = "enter_fail" THEN "active" ELSE "sniff"
      BY <3>2 DEF PmIgnores, Believed
    <3> QED BY <1>6, <3>1, <3>2, <3>3
  <2> QED BY <2>2, <2>3
<1>8. ModeTracked'
  <2>1. ASSUME NEW i \in DOMAIN evq', IsChange(evq'[i]),
               \A j \in DOMAIN evq' : j > i => ~IsChange(evq'[j])
        PROVE  evq'[i] = ModeEvent(mode)
    <3>1. \A j \in DOMAIN evq : j > i + 1 => ~IsChange(evq[j])
      BY <1>1, <1>5, <2>1
    <3> QED BY <1>5, <2>1, <3>1 DEF IInv, ModeTracked
  <2> QED BY <1>7, <2>1 DEF ModeTracked, ModeEvent
<1>9. PendingIsOutstanding'
  <2>1. ASSUME link'.pm_state # m.pm_state PROVE PendingIsOutstanding'
    <3>1. PICK cmd \in Commands : /\ link'.cmds = Append(m.cmds, cmd)
                                  /\ \/ cmd = "enter" /\ link'.pm_state = "SNIFF_PENDING"
                                     \/ cmd = "exit" /\ link'.pm_state = "ACTIVE_PENDING"
      BY <1>1, <2>1 DEF CommandGiven, Commands
    <3>2. Len(m.cmds) + 1 \in DOMAIN link'.cmds /\ link'.cmds[Len(m.cmds) + 1] = cmd
      BY <1>1, <3>1 DEF Links
    <3> QED BY <3>1, <3>2 DEF PendingIsOutstanding
  <2>2. ASSUME link'.pm_state = m.pm_state PROVE PendingIsOutstanding'
    BY <2>2 DEF Settled, EventState, PendingIsOutstanding
  <2> QED BY <2>1, <2>2
<1>10. IdleTimerAlive'
  BY <1>1 DEF IdleTimerAlive, TimerKept, CommandGiven, Settled
<1> QED BY <1>2, <1>3, <1>4, <1>8, <1>9, <1>10 DEF IInv, NoLinkIsFresh, SetupIsQuiet

\* An event that is ignored only leaves the queue.
LEMMA IgnoredKeeps ==
    ASSUME IInv, evq # <<>>, PmIgnores(link, Head(evq)), link' = Turn(link),
           phase' = phase, mode' = mode, evq' = Tail(evq), busy' = busy
    PROVE  IInv'
<1>1. link \in Links /\ evq \in Seq(PmEvents)
  BY InvGivesRest DEF IInv, TypeOK
<1>0. /\ AtRest(link) /\ link' \in Links
      /\ link'.pm_state = link.pm_state /\ link'.pm_action = link.pm_action
      /\ link'.cmds = link.cmds /\ link'.unexpected = link.unexpected
      /\ link'.listed = link.listed /\ link'.running = link.running
      /\ link'.posted = link.posted /\ link'.held = link.held
      /\ link'.role_switch_status = link.role_switch_status
  BY InvGivesRest, TurnRequests
<1>2. TypeOK'
  BY <1>0, <1>1 DEF IInv, TypeOK, Links
<1>3. /\ NoLinkIsFresh' /\ SetupIsQuiet' /\ PendingActionConsistent'
      /\ MarkedBranchesUnreached' /\ IdleTimerAlive'
  BY <1>0 DEF IInv, NoLinkIsFresh, SetupIsQuiet, PendingActionConsistent, MarkedBranchesUnreached,
              IdleTimerAlive, Marked
<1>4. /\ \A i \in DOMAIN evq' : evq'[i] = evq[i + 1] /\ i + 1 \in DOMAIN evq
      /\ \A j \in DOMAIN evq : j = 1 \/ (j - 1 \in DOMAIN evq' /\ evq'[j - 1] = evq[j])
      /\ DOMAIN evq \subseteq Nat /\ DOMAIN evq' \subseteq Nat
      /\ evq[1] = Head(evq)
  BY <1>1
<1>5. ~IsChange(evq[1])
  BY <1>4 DEF PmIgnores, IsChange
<1>6. ModeTracked'
  <2>1. ASSUME \A i \in DOMAIN evq' : ~IsChange(evq'[i]) PROVE Believed = mode
    <3>1. ASSUME NEW j \in DOMAIN evq PROVE ~IsChange(evq[j])
      BY <1>4, <1>5, <2>1, <3>1, j = 1 \/ j # 1
    <3> QED BY <3>1 DEF IInv, ModeTracked
  <2>2. ASSUME NEW i \in DOMAIN evq', IsChange(evq'[i]),
               \A j \in DOMAIN evq' : j > i => ~IsChange(evq'[j])
        PROVE  evq'[i] = ModeEvent(mode)
    <3>1. ASSUME NEW j \in DOMAIN evq, j > i + 1 PROVE ~IsChange(evq[j])
      <4>1. i \in Nat /\ j \in Nat /\ j # 1 /\ j - 1 > i
        BY <1>4, <2>2, <3>1
      <4> QED BY <1>4, <2>2, <3>1, <4>1
    <3> QED BY <1>4, <2>2, <3>1 DEF IInv, ModeTracked
  <2> QED BY <1>0, <2>1, <2>2 DEF ModeTracked, Believed, ModeEvent
<1>7. PendingIsOutstanding'
  <2>1. ASSUME link.pm_state = "SNIFF_PENDING",
               NEW i \in DOMAIN evq, evq[i] \in {"enter_fail", "conn_sniff"}
        PROVE  \E k \in DOMAIN evq' : evq'[k] \in {"enter_fail", "conn_sniff"}
    <3>1. i # 1
      BY <1>4, <2>1 DEF PmIgnores
    <3>2. i - 1 \in DOMAIN evq' /\ evq'[i - 1] = evq[i]
      BY <1>4, <3>1
    <3> QED BY <2>1, <3>2
  <2>2. ASSUME link.pm_state = "ACTIVE_PENDING",
               NEW i \in DOMAIN evq, evq[i] \in {"exit_fail", "conn_active"}
        PROVE  \E k \in DOMAIN evq' : evq'[k] \in {"exit_fail", "conn_active"}
    <3>1. i # 1
      BY <1>4, <2>2 DEF PmIgnores
    <3>2. i - 1 \in DOMAIN evq' /\ evq'[i - 1] = evq[i]
      BY <1>4, <3>1
    <3> QED BY <2>2, <3>2
  <2> QED BY <1>0, <2>1, <2>2 DEF IInv, PendingIsOutstanding
<1> QED BY <1>2, <1>3, <1>6, <1>7 DEF IInv

\* The controller ends a command, or the phone changes the mode: an event more.
LEMMA ArrivalKeeps ==
    ASSUME IInv, NEW ev \in PmEvents, evq' = Append(evq, ev),
           phase = "ready", phase' = phase, busy' = busy, mode' \in {"active", "sniff"},
           IF IsChange(ev) THEN ev = ModeEvent(mode') ELSE mode' = mode,
           \/ link' = link
           \/ /\ link.cmds # <<>>
              /\ link'.refused \in Refusals
              /\ link' = [link EXCEPT !.cmds = Tail(@), !.refused = link'.refused]
              /\ ev \in IF Head(link.cmds) = "enter" THEN {"enter_fail", "conn_sniff"}
                                                     ELSE {"exit_fail", "conn_active"}
    PROVE  IInv'
<1>1. link \in Links /\ evq \in Seq(PmEvents) /\ link.cmds \in Seq(Commands)
  BY InvGivesRest DEF IInv, TypeOK, Links
<1>2. /\ link' \in Links
      /\ link'.pm_state = link.pm_state /\ link'.pm_action = link.pm_action
      /\ link'.unexpected = link.unexpected /\ link'.listed = link.listed
      /\ link'.running = link.running /\ link'.posted = link.posted
  <2>1. link.cmds # <<>> => Tail(link.cmds) \in Seq(Commands)
    BY <1>1
  <2> QED BY <1>1, <2>1 DEF Links
<1>3. /\ evq' \in Seq(PmEvents)
      /\ DOMAIN evq' = DOMAIN evq \cup {Len(evq) + 1}
      /\ \A i \in DOMAIN evq : evq'[i] = evq[i] /\ i < Len(evq) + 1
      /\ evq'[Len(evq) + 1] = ev
  BY <1>1
<1>4. TypeOK'
  BY <1>2, <1>3 DEF IInv, TypeOK, Links
<1>5. /\ NoLinkIsFresh' /\ SetupIsQuiet' /\ PendingActionConsistent'
      /\ MarkedBranchesUnreached' /\ IdleTimerAlive'
  BY <1>2 DEF IInv, NoLinkIsFresh, SetupIsQuiet, PendingActionConsistent, MarkedBranchesUnreached,
              IdleTimerAlive, Marked
<1>6. ModeTracked'
  <2>1. CASE IsChange(ev)
    <3>1. ~ \A i \in DOMAIN evq' : ~IsChange(evq'[i])
      BY <1>3, <2>1
    <3>2. ASSUME NEW i \in DOMAIN evq', \A j \in DOMAIN evq' : j > i => ~IsChange(evq'[j])
          PROVE  i = Len(evq) + 1
      BY <1>3, <2>1, <3>2
    <3> QED BY <1>3, <2>1, <3>1, <3>2 DEF ModeTracked
  <2>2. CASE ~IsChange(ev)
    <3>1. mode' = mode /\ Believed' = Believed
      BY <1>2, <2>2 DEF Believed
    <3>2. ASSUME \A i \in DOMAIN evq' : ~IsChange(evq'[i]) PROVE Believed = mode
      <4>1. \A i \in DOMAIN evq : ~IsChange(evq[i])
        BY <1>3, <3>2
      <4> QED BY <4>1 DEF IInv, ModeTracked
    <3>3. ASSUME NEW i \in DOMAIN evq', IsChange(evq'[i]),
                 \A j \in DOMAIN evq' : j > i => ~IsChange(evq'[j])
          PROVE  evq'[i] = ModeEvent(mode)
      <4>1. i \in DOMAIN evq /\ evq'[i] = evq[i] /\ IsChange(evq[i])
        BY <1>3, <2>2, <3>3
      <4>2. \A j \in DOMAIN evq : j > i => ~IsChange(evq[j])
        BY <1>3, <3>3
      <4> QED BY <4>1, <4>2 DEF IInv, ModeTracked
    <3> QED BY <3>1, <3>2, <3>3 DEF ModeTracked, ModeEvent
  <2> QED BY <2>1, <2>2
<1>7. PendingIsOutstanding'
  <2>1. ASSUME NEW cmd \in Commands, NEW k \in DOMAIN link.cmds, link.cmds[k] = cmd
        PROVE  \/ \E i \in DOMAIN link'.cmds : link'.cmds[i] = cmd
               \/ evq'[Len(evq) + 1] \in IF cmd = "enter" THEN {"enter_fail", "conn_sniff"}
                                                          ELSE {"exit_fail", "conn_active"}
    <3>1. CASE link' = link
      BY <2>1, <3>1
    <3>2. CASE link' # link /\ k = 1
      <4>1. Head(link.cmds) = cmd
        BY <1>1, <2>1, <3>2
      <4>2. ev \in IF cmd = "enter" THEN {"enter_fail", "conn_sniff"}
                                    ELSE {"exit_fail", "conn_active"}
        BY <3>2, <4>1
      <4> QED BY <1>3, <4>2
    <3>3. CASE link' # link /\ k # 1
      <4>1. link'.cmds = Tail(link.cmds)
        BY <1>1, <3>3 DEF Links
      <4>2. k - 1 \in DOMAIN link'.cmds /\ link'.cmds[k - 1] = cmd
        <5> DEFINE c == link.cmds
        <5>1. c \in Seq(Commands) /\ k \in DOMAIN c /\ k # 1 /\ c[k] = cmd
          BY <1>1, <2>1, <3>3 DEF Links
        <5> HIDE DEF c
        <5>2. k - 1 \in DOMAIN Tail(c) /\ Tail(c)[k - 1] = cmd
          BY <5>1
        <5> QED BY <4>1, <5>2 DEF c
      <4> QED BY <4>2
    <3> QED BY <3>1, <3>2, <3>3
  <2>2. ASSUME NEW S, NEW i \in DOMAIN evq, evq[i] \in S
        PROVE  \E j \in DOMAIN evq' : evq'[j] \in S
    BY <1>3, <2>2
  <2> QED BY <1>2, <1>3, <2>1, <2>2 DEF IInv, PendingIsOutstanding, Commands
<1> QED BY <1>4, <1>5, <1>6, <1>7 DEF IInv

-----------------------------------------------------------------------------
(* Every step of Next, one action at a time.                               *)

LEMMA InitInv == Init => IInv
<1> SUFFICES ASSUME Init PROVE IInv
  OBVIOUS
<1>1. link = NewLink(0) /\ link \in Links /\ ~Marked(link)
  BY NewLinkTyped DEF Init
<1>2. TypeOK
  BY <1>1 DEF Init, TypeOK, Links
<1>3. NoLinkIsFresh /\ SetupIsQuiet
  BY DEF Init, NoLinkIsFresh, SetupIsQuiet, NewLink
<1>4. ModeTracked
  BY <1>1 DEF Init, ModeTracked, Believed, NewLink
<1> QED BY <1>1, <1>2, <1>3, <1>4 DEF IInv, Init, PendingActionConsistent,
          MarkedBranchesUnreached, PendingIsOutstanding, IdleTimerAlive, NewLink

\* ConnSuccess and ConnDisconn leave a new link and an empty event queue.
LEMMA FreshLinkKeeps ==
    ASSUME IInv, NEW n \in Nat, link' = NewLink(n), phase' \in {"none", "setup"},
           mode' = "active", evq' = <<>>, busy' = TRUE
    PROVE  IInv'
<1>1. link' \in Links /\ ~Marked(link')
  BY NewLinkTyped
<1>2. NoLinkIsFresh'
  BY DEF NoLinkIsFresh, NewLink
<1>3. TypeOK'
  BY <1>1 DEF TypeOK, Links
<1>4. ModeTracked'
  BY DEF ModeTracked, Believed, NewLink
<1>5. /\ SetupIsQuiet' /\ MarkedBranchesUnreached'
      /\ PendingIsOutstanding' /\ IdleTimerAlive'
  BY DEF SetupIsQuiet, MarkedBranchesUnreached, PendingIsOutstanding, IdleTimerAlive, NewLink
<1> QED BY <1>1, <1>2, <1>3, <1>4, <1>5 DEF IInv, PendingActionConsistent

LEMMA HandleEventKeeps == ASSUME IInv, HandleEvent PROVE IInv'
<1> DEFINE s == Turn(link)
           ev == Head(evq)
<1>1. AtRest(link) /\ evq # <<>> /\ evq' = Tail(evq) /\ ev \in PmEvents
      /\ phase' = phase /\ mode' = mode /\ busy' = busy /\ busy \in BOOLEAN
  BY InvGivesRest DEF HandleEvent, IInv, TypeOK
<1>2. AtRest(s) /\ s.pm_state = link.pm_state
  BY <1>1, TurnRequests
<1>3. PmIgnores(s, ev) <=> PmIgnores(link, ev)
  BY <1>2 DEF PmIgnores
<1>4. link' \in Handle(s, ev)
  BY DEF HandleEvent
<1> HIDE DEF s
<1>5. PICK t \in bt_pm_sm(s, ev) : link' = t \/ link' \in RetryRoleSwitch(t)
  BY <1>4 DEF Handle, AclConnActive, AclConnSniff
<1>6. CASE ~PmIgnores(link, ev)
  <2>1. PICK m : Settled(s, ev, m) /\ Requested(m, t)
    BY <1>1, <1>2, <1>3, <1>6, EventSettles
  <2>2. AtRest(m) /\ AtRest(t)
    BY <2>1 DEF Settled, Requested
  <2>3. Requested(m, link')
    BY <1>5, <2>1, <2>2, RetryRequests, RequestedTransitive
  <2> QED BY <1>1, <1>6, <2>1, <2>3, EventKeeps DEF s
<1>7. CASE PmIgnores(link, ev)
  <2>1. Handle(s, ev) = bt_pm_sm(s, ev)
    BY <1>7 DEF Handle, PmIgnores
  <2>2. bt_pm_sm(s, ev) = {s}
    BY <1>3, <1>7 DEF bt_pm_sm
  <2>3. link' = s
    BY <1>4, <2>1, <2>2
  <2> QED BY <1>1, <1>7, <2>3, IgnoredKeeps DEF s
<1> QED BY <1>6, <1>7

LEMMA TimerExpiresKeeps == ASSUME IInv, TimerExpires PROVE IInv'
<1>1. AtRest(link) /\ busy \in BOOLEAN /\ link \in Links
  BY InvGivesRest DEF IInv, TypeOK
<1>2. /\ link' \in Links
      /\ link'.pm_state = link.pm_state /\ link'.pm_action = link.pm_action
      /\ link'.cmds = link.cmds /\ link'.unexpected = link.unexpected
      /\ link'.listed = link.listed /\ link'.posted = link.posted + 1
  <2>1. link' = [link EXCEPT !.running = FALSE, !.posted = link.posted + 1]
    BY DEF TimerExpires
  <2>2. link.posted + 1 \in Nat
    BY <1>1 DEF Links
  <2> QED BY <1>1, <2>1, <2>2 DEF Links
<1>3. AtRest(link') /\ CommandGiven(link, link')
  BY <1>1, <1>2 DEF AtRest, Marked, CommandGiven
<1>4. phase # "none"
  BY DEF IInv, NoLinkIsFresh, NewLink, TimerExpires
<1>5. IdleTimerAlive'
  BY <1>1, <1>2 DEF IInv, IdleTimerAlive, TimerExpires, Links
<1>6. SetupIsQuiet'
  BY <1>2 DEF IInv, SetupIsQuiet, TimerExpires
<1> QED BY <1>1, <1>2, <1>3, <1>4, <1>5, <1>6, CommandKeeps DEF TimerExpires, NoLinkIsFresh

LEMMA TimeoutKeeps == ASSUME IInv, bt_pm_timeout_cback PROVE IInv'
<1> DEFINE taken == [Turn(link) EXCEPT !.posted = @ - 1]
<1>1. /\ AtRest(link) /\ busy \in BOOLEAN /\ link \in Links
      /\ Turn(link) \in Links /\ Turn(link).posted = link.posted
      /\ Turn(link).pm_state = link.pm_state /\ Turn(link).pm_action = link.pm_action
      /\ Turn(link).cmds = link.cmds /\ Turn(link).unexpected = link.unexpected
      /\ Turn(link).listed = link.listed /\ Turn(link).running = link.running
      /\ Turn(link).held = link.held
      /\ Turn(link).role_switch_status = link.role_switch_status
  BY InvGivesRest, TurnRequests DEF IInv, TypeOK
<1>2. /\ taken \in Links
      /\ taken.pm_state = link.pm_state /\ taken.pm_action = link.pm_action
      /\ taken.cmds = link.cmds /\ taken.unexpected = link.unexpected
      /\ taken.listed = link.listed
  <2>1. link.posted - 1 \in Nat
    BY <1>1 DEF bt_pm_timeout_cback, Links
  <2> QED BY <1>1, <2>1 DEF Links
<1>3. AtRest(taken) /\ CommandGiven(link, taken)
  BY <1>1, <1>2 DEF AtRest, Marked, CommandGiven
<1>4. CASE taken.listed
  <2>1. link' \in SniffEnterReq(taken, Vetoed)
    BY <1>4 DEF bt_pm_timeout_cback
  <2>2. Vetoed \in BOOLEAN
    BY <1>1 DEF Vetoed, Links
  <2>3. /\ Requested(taken, link')
        /\ link'.pm_state = "ACTIVE" => link'.listed /\ link'.running
    BY <1>3, <2>1, <2>2, EnterReqRequests
  <2>4. AtRest(link') /\ link'.unexpected = link.unexpected /\ CommandGiven(link, link')
    BY <1>2, <2>3 DEF Requested, CommandGiven
  <2>5. phase # "none"
    BY <1>2, <1>4 DEF IInv, NoLinkIsFresh, NewLink
  <2>6. SetupIsQuiet'
    <3>1. ASSUME phase = "setup" PROVE link'.pm_state = "ACTIVE" /\ link'.cmds = link.cmds
      <4>1. Vetoed
        BY <3>1 DEF IInv, SetupIsQuiet, Vetoed
      <4>2. link' = sys_timer_start(sys_timer_stop(taken))
        BY <2>1, <4>1 DEF SniffEnterReq
      <4> QED BY <1>2, <3>1, <4>2 DEF IInv, SetupIsQuiet, Links, sys_timer_start, sys_timer_stop
    <3> QED BY <3>1 DEF IInv, SetupIsQuiet, bt_pm_timeout_cback
  <2> QED BY <1>1, <2>3, <2>4, <2>5, <2>6, CommandKeeps
          DEF IdleTimerAlive, NoLinkIsFresh, bt_pm_timeout_cback
<1>5. CASE ~taken.listed
  <2>1. link' = taken
    BY <1>5 DEF bt_pm_timeout_cback
  <2>2. IdleTimerAlive'
    BY <1>2, <1>5, <2>1 DEF IInv, IdleTimerAlive, bt_pm_timeout_cback
  <2>3. NoLinkIsFresh'
    BY <1>1, <2>1 DEF IInv, NoLinkIsFresh, bt_pm_timeout_cback, Links
  <2>4. SetupIsQuiet'
    BY <1>2, <2>1 DEF IInv, SetupIsQuiet, bt_pm_timeout_cback
  <2> QED BY <1>1, <1>2, <1>3, <2>1, <2>2, <2>3, <2>4, CommandKeeps DEF bt_pm_timeout_cback
<1> QED BY <1>4, <1>5

\* A request of a handler of its own.
LEMMA OwnTurnKeeps ==
    ASSUME IInv, phase # "none", Requested(Turn(link), link'),
           phase' = phase, mode' = mode, evq' = evq, busy' = busy,
           phase = "setup" => Awake(link')
    PROVE  IInv'
<1>1. AtRest(link) /\ Requested(link, Turn(link)) /\ busy \in BOOLEAN
  BY InvGivesRest, TurnRequests DEF IInv, TypeOK
<1>2. Requested(link, link')
  BY <1>1, RequestedTransitive
<1>3. phase = "setup" => busy
  BY DEF IInv, SetupIsQuiet
<1> QED BY <1>1, <1>2, <1>3, RequestKeeps

\* The actions that write fields of the role switch only.
LEMMA RoleFieldsRequest ==
    ASSUME NEW s, AtRest(s), NEW t \in Links,
           t.pm_state = s.pm_state, t.pm_action = s.pm_action, t.cmds = s.cmds,
           t.unexpected = s.unexpected, t.listed = s.listed,
           t.running = s.running, t.posted = s.posted
    PROVE  Requested(s, t)
BY DEF Requested, AtRest, Marked, CommandGiven, TimerKept

LEMMA NextKeeps == ASSUME IInv, Next PROVE IInv'
<1>1. AtRest(link) /\ link \in Links /\ busy \in BOOLEAN
  BY InvGivesRest DEF IInv, TypeOK
\* Before the link is ready no one but the owner of the link is at work.
<1> DEFINE setup == phase = "setup"
<1>a. setup => Awake(link) /\ busy
  BY <1>1 DEF IInv, SetupIsQuiet, Awake, AtRest
<1>2. CASE ConnSuccess
  <2>1. PICK n \in {0, link.posted} : link' = NewLink(n)
    BY <1>2 DEF ConnSuccess
  <2>2. n \in Nat /\ mode = "active" /\ evq = <<>>
    BY <1>1, <1>2, <2>1 DEF ConnSuccess, IInv, NoLinkIsFresh, Links
  <2>3. busy
    BY <1>2 DEF ConnSuccess, IInv, NoLinkIsFresh
  <2> QED BY <1>1, <1>2, <2>1, <2>2, <2>3, FreshLinkKeeps DEF ConnSuccess
<1>3. CASE ConnReady
  <2>1. link' = sys_timer_start(link)
    <3>1. link = [link EXCEPT !.pm_state = "ACTIVE"]
      BY <1>1, <1>3, <1>a DEF ConnReady, Awake, Links
    <3> QED BY <1>3, <3>1 DEF ConnReady, LinkConnected
  <2>2. AtRest(link') /\ CommandGiven(link, link') /\ link'.unexpected = link.unexpected
    BY <1>1, <2>1, StartRequests DEF Requested
  <2>3. IdleTimerAlive'
    BY <1>1, <2>1 DEF IdleTimerAlive, sys_timer_start, Links
  <2> QED BY <1>1, <1>3, <2>2, <2>3, CommandKeeps DEF ConnReady, NoLinkIsFresh, SetupIsQuiet
<1>4. CASE ConnDisconn
  <2>1. link.posted \in Nat
    BY <1>1 DEF Links
  <2> QED BY <1>4, <2>1, FreshLinkKeeps DEF ConnDisconn
<1>5. CASE HandleEvent
  BY <1>5, HandleEventKeeps
<1>6. CASE TimerExpires
  BY <1>6, TimerExpiresKeeps
<1>7. CASE bt_pm_timeout_cback
  BY <1>7, TimeoutKeeps
<1>b. AtRest(Turn(link)) /\ (setup => Awake(Turn(link)))
  BY <1>1, <1>a, TurnRequests, TurnAwake
<1>8. CASE HidDeviceConnected
  <2>1. Vetoed \in BOOLEAN
    BY <1>1 DEF Vetoed, Links
  <2>2. Requested(Turn(link), link')
    BY <1>b, <1>8, <2>1, EnterReqRequests DEF HidDeviceConnected
  <2> QED BY <1>8, <2>2, OwnTurnKeeps DEF HidDeviceConnected
<1>9. CASE Traffic
  BY <1>b, <1>9, ExitRequests, ExitAwake, OwnTurnKeeps DEF Traffic
<1>10. CASE SniffModeEnable
  BY <1>b, <1>10, EnableRequests, UsersAwake, OwnTurnKeeps DEF SniffModeEnable
<1>11. CASE SniffModeDisable
  BY <1>b, <1>11, DisableRequests, UsersAwake, OwnTurnKeeps DEF SniffModeDisable
<1>12. CASE UserBusy
  <2>1. (~busy) \in BOOLEAN /\ Requested(link, link)
    BY <1>1, RequestedReflexive
  <2> QED BY <1>12, <2>1, RequestKeeps DEF UserBusy
<1>13. CASE RoleSwitch
  BY <1>b, <1>13, RoleSwitchRequests, RoleSwitchAwake, OwnTurnKeeps, BtPmAssumption DEF RoleSwitch
<1>14. CASE RoleChanged
  <2>1. link' \in Links
    BY <1>1, <1>14 DEF RoleChanged, Links, RoleStatus
  <2>2. Requested(link, link')
    <3>1. /\ link'.pm_state = link.pm_state /\ link'.pm_action = link.pm_action
          /\ link'.cmds = link.cmds /\ link'.unexpected = link.unexpected
          /\ link'.listed = link.listed /\ link'.running = link.running /\ link'.posted = link.posted
      BY <1>1, <1>14 DEF RoleChanged, Links
    <3> QED BY <1>1, <2>1, <3>1, RoleFieldsRequest
  <2> QED BY <1>1, <1>14, <2>2, RequestKeeps DEF RoleChanged
<1>15. CASE RoleSwitchFailed
  <2>1. link' \in Links
    BY <1>1, <1>15 DEF RoleSwitchFailed, Links, RoleStatus
  <2>2. Requested(link, link')
    BY <1>1, <1>15, <2>1, RoleFieldsRequest DEF RoleSwitchFailed, Links
  <2>3. phase # "none"
    BY <1>15 DEF RoleSwitchFailed, IInv, NoLinkIsFresh, NewLink
  <2>4. setup => Awake(link')
    BY <1>a, <1>15, <2>1, <2>2 DEF Awake, Requested, AtRest, RoleSwitchFailed, Links
  <2> QED BY <1>1, <1>a, <1>15, <2>2, <2>3, <2>4, RequestKeeps DEF RoleSwitchFailed
<1>16. CASE HoldBegins
  <2>1. link' \in Links
    BY <1>1, <1>16 DEF HoldBegins, Links
  <2>2. Requested(link, link')
    BY <1>1, <1>16, <2>1, RoleFieldsRequest DEF HoldBegins, Links
  <2> QED BY <1>1, <1>16, <2>2, RequestKeeps DEF HoldBegins
<1>17. CASE HoldEnds
  <2> DEFINE s == Turn(link)
  <2>1. PICK h \in link.held : link' \in RetryRoleSwitch([s EXCEPT !.held = @ \ {h}])
    BY <1>17 DEF HoldEnds
  <2>2. s \in Links /\ AtRest(s)
    BY <1>1, TurnRequests
  <2>3. setup => Awake(s)
    BY <1>b
  <2>4. phase # "none"
    BY <2>1 DEF IInv, NoLinkIsFresh, NewLink
  <2> HIDE DEF s
  <2> DEFINE u == [s EXCEPT !.held = @ \ {h}]
  <2>5. u \in Links
    BY <2>2 DEF Links
  <2>6. Requested(s, u) /\ u.pm_state = s.pm_state
    BY <2>2, <2>5, RoleFieldsRequest DEF Links
  <2> HIDE DEF u
  <2>7. link' \in RetryRoleSwitch(u)
    BY <2>1 DEF u
  <2>8. Requested(s, link')
    BY <2>2, <2>6, <2>7, RetryRequests, RequestedTransitive DEF Requested
  <2>9. setup => Awake(link')
    BY <2>3, <2>5, <2>6, <2>7, RoleSwitchAwake DEF Awake, Requested, AtRest
  <2> QED BY <1>17, <2>4, <2>8, <2>9, OwnTurnKeeps DEF HoldEnds, s
<1>18. CASE AclConnEncrypted
  BY <1>b, <1>18, RetryRequests, RoleSwitchAwake, OwnTurnKeeps DEF AclConnEncrypted
<1>19. CASE Ctrl
  <2>1. phase = "ready"
    <3>1. link.cmds # <<>>
      BY <1>19 DEF Ctrl, CtrlSucceeds, CtrlFails
    <3> QED BY <3>1 DEF IInv, TypeOK, NoLinkIsFresh, SetupIsQuiet, NewLink
  <2>2. CASE CtrlSucceeds
    <3>1. link' = [link EXCEPT !.cmds = Tail(@), !.refused = link'.refused] /\ link'.refused \in Refusals
      BY <1>1, <2>2 DEF CtrlSucceeds, Links
    <3> QED BY <1>19, <2>1, <2>2, <3>1, ArrivalKeeps
        DEF Ctrl, CtrlSucceeds, Wanted, ModeEvent, IsChange, PmEvents
  <2>3. CASE CtrlFails
    <3>1. PICK r \in Refusals : link' = [link EXCEPT !.cmds = Tail(@), !.refused = r]
      BY <1>1, <2>3 DEF CtrlFails, Links, Refusals
    <3>2. link' = [link EXCEPT !.cmds = Tail(@), !.refused = link'.refused] /\ link'.refused \in Refusals
      BY <1>1, <3>1 DEF Links
    <3> QED BY <1>1, <1>19, <2>1, <2>3, <3>2, ArrivalKeeps
        DEF Ctrl, CtrlFails, IsChange, PmEvents, IInv, TypeOK
  <2> QED BY <1>19, <2>2, <2>3 DEF Ctrl
<1>20. CASE PhoneChangesMode
  BY <1>20, ArrivalKeeps
  DEF PhoneChangesMode, PeerChangesMode, Modes, ModeEvent, IsChange, PmEvents
<1> QED BY <1>2, <1>3, <1>4, <1>5, <1>6, <1>7, <1>8, <1>9, <1>10, <1>11, <1>12,
           <1>13, <1>14, <1>15, <1>16, <1>17, <1>18, <1>19, <1>20 DEF Next

LEMMA StutterKeeps == ASSUME IInv, UNCHANGED vars PROVE IInv'
BY DEF vars, IInv, TypeOK, NoLinkIsFresh, SetupIsQuiet, PendingActionConsistent, MarkedBranchesUnreached,
       ModeTracked, Believed, PendingIsOutstanding, IdleTimerAlive, Marked

\* The inductive invariant holds in every reachable state.
LEMMA Invariance == Spec => []IInv
<1>1. Init => IInv
  BY InitInv
<1>2. IInv /\ [Next]_vars => IInv'
  BY NextKeeps, StutterKeeps
<1> QED BY <1>1, <1>2, PTL DEF Spec

-----------------------------------------------------------------------------
(* The theorems about states.                                              *)

\* The fields of the link, the event queue and the mode keep their types.
THEOREM TypeCorrect == Spec => []TypeOK
BY Invariance, PTL DEF IInv

\* bt_pm_sm and its callers always leave pm_action settled: between handlers it
\* is the request to turn back from the mode the link is on its way to, or idle.
THEOREM PendingActionAlwaysConsistent == Spec => []PendingActionConsistent
BY Invariance, PTL DEF IInv

\* On a phone link the branches of bt_sniff_mode_enter and bt_sniff_mode_exit
\* commented "This case will not happen in reality" are indeed never taken.
THEOREM MarkedBranchesNeverReached == Spec => []MarkedBranchesUnreached
BY Invariance, PTL DEF IInv

\* pm_state never loses track of the mode the controller is in, whatever
\* commands are overtaken, refused or failed.
THEOREM ModeAlwaysTracked == Spec => []ModeTracked
BY Invariance, PTL DEF IInv

\* A transient pm_state always has the command or the event that will end it.
THEOREM PendingAlwaysOutstanding == Spec => []PendingIsOutstanding
BY Invariance, PTL DEF IInv

\* A ready link in active mode always has timer_sniff counting or expired.
THEOREM IdleTimerAlwaysAlive == Spec => []IdleTimerAlive
BY Invariance, PTL DEF IInv

-----------------------------------------------------------------------------
(* The role switch that waits for active mode.  The power manager does not *)
(* touch it (RoleKept), and whoever tries it again either starts it or has *)
(* a command on its way (Tried).                                           *)

RoleKept(s, t) ==
    /\ t.role_master = s.role_master
    /\ t.role_switch_status = s.role_switch_status
    /\ t.held = s.held

\* A switch is only remembered while it is one to the other role.
Turnable(s) ==
    /\ s.role_switch_status = "MASTER_PENDING" => ~s.role_master
    /\ s.role_switch_status = "SLAVE_PENDING" => s.role_master

\* A switch is remembered that nothing holds back.
Waits(s) ==
    s.role_switch_status \in {"MASTER_PENDING", "SLAVE_PENDING"} /\ s.held = {}

Tried(s, t) ==
    /\ Turnable(t) /\ t.held = s.held
    /\ Waits(t) => t.pm_state # "ACTIVE" /\ (t.pm_state = "SNIFF" => t.refused = "now")

\* What the requests begin with.
LEMMA NotedKeepsRole ==
    ASSUME NEW s \in Links, NEW a \in PmAction
    PROVE  /\ Noted(s, a) \in Links /\ RoleKept(s, Noted(s, a))
           /\ Noted(s, a).pm_state = s.pm_state
<1>1. (s.unexpected \/ Marked(s)) \in BOOLEAN
  OBVIOUS
<1> QED BY <1>1 DEF Noted, Links, RoleKept

\* A request for active mode leaves the role switch alone; the link is in
\* sniff mode afterwards only if GAP refused the command.
LEMMA ExitKeepsRole ==
    ASSUME NEW s, s \in Links, NEW r \in BOOLEAN, NEW t \in bt_sniff_mode_exit(s, r)
    PROVE  /\ RoleKept(s, t)
           /\ t.pm_state = "ACTIVE" => s.pm_state = "ACTIVE"
           /\ t.pm_state = "SNIFF" => t.refused = "now"
<1> DEFINE idle == Noted(s, "IDLE")
<1>1. \A a \in PmAction : Noted(s, a) \in Links /\ RoleKept(s, Noted(s, a))
                          /\ Noted(s, a).pm_state = s.pm_state
  BY NotedKeepsRole
<1>2. "IDLE" \in PmAction /\ "SNIFF_EXIT" \in PmAction /\ s.pm_state \in PmState
  BY DEF PmAction, Links
<1>3. CASE s.pm_state = "ACTIVE"
  <2>1. t = idle \/ t = sys_timer_start(idle)
    BY <1>3 DEF bt_sniff_mode_exit
  <2>2. idle \in Links /\ RoleKept(s, idle) /\ idle.pm_state = "ACTIVE"
    BY <1>1, <1>2, <1>3
  <2> HIDE DEF idle
  <2>3. RoleKept(s, t) /\ t.pm_state = "ACTIVE"
    BY <2>1, <2>2 DEF sys_timer_start, Links, RoleKept
  <2> QED BY <1>3, <2>3
<1>4. CASE s.pm_state = "SNIFF"
  <2>1. idle \in Links /\ RoleKept(s, idle)
    BY <1>1, <1>2
  <2>2. t \in Issue(idle, "exit", "ACTIVE_PENDING")
    BY <1>4 DEF bt_sniff_mode_exit
  <2> HIDE DEF idle
  <2>3. CASE t \in Refused(idle)
    <3>1. t = [idle EXCEPT !.refused = "now"]
      BY <2>3 DEF Refused
    <3>2. t.pm_state = idle.pm_state /\ t.refused = "now" /\ RoleKept(s, t)
      BY <2>1, <3>1 DEF Links, RoleKept
    <3>3. idle.pm_state = "SNIFF"
      BY <1>1, <1>2, <1>4 DEF idle
    <3> QED BY <3>1, <3>2, <3>3
  <2>4. CASE t = [idle EXCEPT !.pm_state = "ACTIVE_PENDING", !.cmds = Append(idle.cmds, "exit")]
    BY <2>1, <2>4 DEF Links, RoleKept
  <2> QED BY <2>2, <2>3, <2>4 DEF Issue
<1>5. CASE s.pm_state \in {"SNIFF_PENDING", "ACTIVE_PENDING"}
  <2>1. PICK a \in PmAction : t = Noted(s, a)
    BY <1>2, <1>5 DEF bt_sniff_mode_exit
  <2> QED BY <1>1, <1>5, <2>1
<1> QED BY <1>2, <1>3, <1>4, <1>5 DEF PmState

\* Nor does a request for sniff mode touch it.
LEMMA EnterKeepsRole ==
    ASSUME NEW s, s \in Links, NEW t \in bt_sniff_mode_enter(s)
    PROVE  RoleKept(s, t)
<1>1. \A a \in PmAction : Noted(s, a) \in Links /\ RoleKept(s, Noted(s, a))
  BY NotedKeepsRole
<1>2. "IDLE" \in PmAction /\ "SNIFF_ENTER" \in PmAction /\ s.pm_state \in PmState
  BY DEF PmAction, Links
<1>3. CASE s.pm_state = "ACTIVE"
  <2> DEFINE idle == Noted(s, "IDLE")
  <2>1. idle \in Links /\ RoleKept(s, idle)
    BY <1>1, <1>2
  <2>2. t \in Issue(idle, "enter", "SNIFF_PENDING")
    BY <1>3 DEF bt_sniff_mode_enter
  <2> HIDE DEF idle
  <2>3. \/ t = [idle EXCEPT !.refused = "now"]
        \/ t = [idle EXCEPT !.pm_state = "SNIFF_PENDING", !.cmds = Append(idle.cmds, "enter")]
    BY <2>2 DEF Issue, Refused
  <2> QED BY <2>1, <2>3 DEF Links, RoleKept
<1>4. CASE s.pm_state # "ACTIVE"
  <2>1. PICK a \in PmAction : t = Noted(s, a)
    BY <1>2, <1>4 DEF bt_sniff_mode_enter, PmState
  <2> QED BY <1>1, <2>1
<1> QED BY <1>3, <1>4

\* Neither do the timer, the other requests and the calls of the application.
LEMMA UsersKeepRole ==
    ASSUME NEW s, AtRest(s), NEW vetoed \in BOOLEAN, NEW n \in BOOLEAN, NEW t,
           \/ t \in SniffEnterReq(s, vetoed)
           \/ t \in bt_sniff_mode_enable(s, n)
           \/ t \in bt_sniff_mode_disable(s)
    PROVE  RoleKept(s, t)
<1>1. s \in Links
  BY DEF AtRest
<1>2. ASSUME NEW u \in Links, NEW b \in BOOLEAN
      PROVE  /\ [u EXCEPT !.pm_enable = b] \in Links /\ RoleKept(u, [u EXCEPT !.pm_enable = b])
             /\ \A v \in SetPolicy(u, b) : v \in Links /\ RoleKept(u, v)
  BY <1>2 DEF Links, RoleKept, SetPolicy, Refused, Refusals
<1>3. ASSUME NEW u \in Links
      PROVE  /\ sys_timer_stop(u) \in Links /\ RoleKept(u, sys_timer_stop(u))
             /\ RoleKept(u, sys_timer_start(u))
  BY <1>3 DEF Links, RoleKept, sys_timer_stop, sys_timer_start
<1>4. CASE t \in SniffEnterReq(s, vetoed)
  <2> DEFINE stopped == sys_timer_stop(s)
  <2>1. stopped \in Links /\ RoleKept(s, stopped) /\ ~Marked(stopped)
    <3>1. ~Marked(stopped)
      BY <1>1 DEF AtRest, Links, Marked, sys_timer_stop
    <3> QED BY <1>1, <1>3, <3>1
  <2>2. \A u \in bt_sniff_mode_enter(stopped) : u \in Links /\ RoleKept(stopped, u)
    BY <2>1, EnterRequests, EnterKeepsRole DEF AtRest, Requested
  <2>3. \/ t = sys_timer_start(stopped)
        \/ t \in bt_sniff_mode_enter(stopped)
        \/ \E u \in bt_sniff_mode_enter(stopped) : t = sys_timer_start(u)
    BY <1>4 DEF SniffEnterReq
  <2> HIDE DEF stopped
  <2> QED BY <1>3, <2>1, <2>2, <2>3 DEF RoleKept
<1>5. CASE t \in bt_sniff_mode_enable(s, n)
  <2> DEFINE enabled == IF s.pm_enable THEN {s}
                        ELSE SetPolicy([s EXCEPT !.pm_enable = TRUE], TRUE)
  <2>1. \A u \in enabled : u \in Links /\ RoleKept(s, u)
    BY <1>1, <1>2 DEF RoleKept
  <2>2. t \in enabled \/ \E u \in enabled : t \in bt_sniff_mode_exit(u, FALSE)
    BY <1>5 DEF bt_sniff_mode_enable, SniffExitReq
  <2> HIDE DEF enabled
  <2>3. CASE t \in enabled
    BY <2>1, <2>3
  <2>4. ASSUME NEW u \in enabled, t \in bt_sniff_mode_exit(u, FALSE) PROVE RoleKept(s, t)
    <3>1. u \in Links /\ RoleKept(s, u)
      BY <2>1
    <3>2. RoleKept(u, t)
      BY <2>4, <3>1, ExitKeepsRole
    <3> QED BY <3>1, <3>2 DEF RoleKept
  <2> QED BY <2>2, <2>3, <2>4
<1>6. CASE t \in bt_sniff_mode_disable(s)
  <2> DEFINE u == [s EXCEPT !.pm_enable = FALSE]
  <2>1. u \in Links /\ RoleKept(s, u)
    BY <1>1, <1>2
  <2>2. t = s \/ t \in SetPolicy(u, FALSE) \/ t \in bt_sniff_mode_exit(u, FALSE)
    BY <1>6 DEF bt_sniff_mode_disable, SniffExitReq
  <2> HIDE DEF u
  <2>3. CASE t = s
    BY <2>3 DEF RoleKept
  <2>4. CASE t \in SetPolicy(u, FALSE)
    BY <1>2, <2>1, <2>4 DEF RoleKept
  <2>5. CASE t \in bt_sniff_mode_exit(u, FALSE)
    BY <2>1, <2>5, ExitKeepsRole DEF RoleKept
  <2> QED BY <2>2, <2>3, <2>4, <2>5
<1> QED BY <1>4, <1>5, <1>6

\* Nor does an event, before the caller of bt_pm_sm tries the switch again.
LEMMA EventKeepsRole ==
    ASSUME NEW s, AtRest(s), NEW ev \in PmEvents, NEW t \in bt_pm_sm(s, ev)
    PROVE  AtRest(t) /\ RoleKept(s, t)
<1>1. s \in Links
  BY DEF AtRest
<1>2. CASE PmIgnores(s, ev)
  BY <1>2 DEF bt_pm_sm, RoleKept
<1>3. CASE ~PmIgnores(s, ev)
  <2>1. PICK b \in PmBegin(s, ev) : t \in PmEnd(b, ev)
    BY <1>3 DEF bt_pm_sm
  <2>2. b \in Links /\ RoleKept(s, b)
    <3>1. ASSUME NEW p \in {s} \cup SetPolicy(s, FALSE) PROVE p \in Links /\ RoleKept(s, p)
      <4>1. CASE p = s
        BY <1>1, <4>1 DEF RoleKept
      <4>2. CASE p \in Refused(s)
        BY <1>1, <4>2 DEF Refused, Refusals, Links, RoleKept
      <4>3. CASE p = [s EXCEPT !.policy = FALSE]
        BY <1>1, <4>3 DEF Links, RoleKept
      <4> QED BY <3>1, <4>1, <4>2, <4>3 DEF SetPolicy
    <3>2. \E p \in {s} \cup SetPolicy(s, FALSE) :
             \/ b = [sys_timer_start(p) EXCEPT !.pm_state = "ACTIVE"]
             \/ b = [sys_timer_stop(p) EXCEPT !.pm_state = "SNIFF"]
      BY <2>1 DEF PmEvents, PmBegin, SniffEnterSuccessBegin, SniffEnterFailBegin,
                  SniffExitSuccessBegin, SniffExitFailBegin
    <3>3. ASSUME NEW p \in Links
          PROVE  /\ [sys_timer_start(p) EXCEPT !.pm_state = "ACTIVE"] \in Links
                 /\ RoleKept(p, [sys_timer_start(p) EXCEPT !.pm_state = "ACTIVE"])
                 /\ [sys_timer_stop(p) EXCEPT !.pm_state = "SNIFF"] \in Links
                 /\ RoleKept(p, [sys_timer_stop(p) EXCEPT !.pm_state = "SNIFF"])
      <4>1. sys_timer_start(p) \in Links /\ RoleKept(p, sys_timer_start(p))
        BY <3>3 DEF sys_timer_start, Links, RoleKept
      <4>2. sys_timer_stop(p) \in Links /\ RoleKept(p, sys_timer_stop(p))
        BY <3>3 DEF sys_timer_stop, Links, RoleKept
      <4>3. ASSUME NEW q \in Links, NEW st \in PmState
            PROVE  [q EXCEPT !.pm_state = st] \in Links /\ RoleKept(q, [q EXCEPT !.pm_state = st])
        BY <4>3 DEF Links, RoleKept
      <4>4. "ACTIVE" \in PmState /\ "SNIFF" \in PmState
        BY DEF PmState
      <4>5. /\ [sys_timer_start(p) EXCEPT !.pm_state = "ACTIVE"] \in Links
            /\ RoleKept(sys_timer_start(p), [sys_timer_start(p) EXCEPT !.pm_state = "ACTIVE"])
        BY <4>1, <4>3, <4>4
      <4>6. /\ [sys_timer_stop(p) EXCEPT !.pm_state = "SNIFF"] \in Links
            /\ RoleKept(sys_timer_stop(p), [sys_timer_stop(p) EXCEPT !.pm_state = "SNIFF"])
        BY <4>2, <4>3, <4>4
      <4> QED BY <4>1, <4>2, <4>5, <4>6 DEF RoleKept
    <3>4. PICK p \in {s} \cup SetPolicy(s, FALSE) :
             \/ b = [sys_timer_start(p) EXCEPT !.pm_state = "ACTIVE"]
             \/ b = [sys_timer_stop(p) EXCEPT !.pm_state = "SNIFF"]
      BY <3>2
    <3>5. p \in Links /\ RoleKept(s, p)
      BY <3>1
    <3>6. b \in Links /\ RoleKept(p, b)
      <4>1. CASE b = [sys_timer_start(p) EXCEPT !.pm_state = "ACTIVE"]
        BY <3>3, <3>5, <4>1
      <4>2. CASE b = [sys_timer_stop(p) EXCEPT !.pm_state = "SNIFF"]
        BY <3>3, <3>5, <4>2
      <4> QED BY <3>4, <4>1, <4>2
    <3> QED BY <3>5, <3>6 DEF RoleKept
  <2> DEFINE m == [b EXCEPT !.pm_action = "IDLE"]
  <2>3. m \in Links /\ RoleKept(s, m)
    BY <2>2 DEF Links, RoleKept, PmAction
  <2>4. t = m \/ t \in bt_sniff_mode_exit(m, FALSE) \/ t \in bt_sniff_mode_enter(m)
    BY <2>1 DEF PmEvents, PmEnd, SniffEnterSuccessEnd, SniffEnterFailEnd, SniffExitSuccessEnd,
                SniffExitFailEnd, EnterIfPending
  <2> HIDE DEF m
  <2>5. RoleKept(m, t)
    BY <2>3, <2>4, ExitKeepsRole, EnterKeepsRole DEF RoleKept
  <2>6. AtRest(t)
    BY <1>3, EventSettles DEF Requested
  <2> QED BY <2>3, <2>5, <2>6 DEF RoleKept
<1> QED BY <1>2, <1>3

\* bt_link_role_switch does nothing, or has tried the switch.
LEMMA SwitchTries ==
    ASSUME NEW s, AtRest(s), Turnable(s), NEW master \in BOOLEAN,
           NEW t \in bt_link_role_switch(s, master)
    PROVE  /\ t = s \/ Tried(s, t)
           /\ s.role_switch_status = Pending(master) => Tried(s, t)
<1>1. s \in Links
  BY DEF AtRest
<1> DEFINE stays == \/ s.role_master = master
                    \/ s.role_switch_status \in {"MASTER_RUNNING", "SLAVE_RUNNING"}
<1>2. CASE stays
  <2>1. t = s
    BY <1>2 DEF bt_link_role_switch
  <2>2. s.role_switch_status # Pending(master)
    BY <1>1, <1>2 DEF Turnable, Pending, Links
  <2> QED BY <2>1, <2>2
<1>3. CASE ~stays
  <2> DEFINE p == IF s.role_switch_status = "IDLE"
                  THEN [s EXCEPT !.role_switch_status = Pending(master)] ELSE s
  <2>1. /\ p \in Links /\ p.held = s.held
        /\ p.role_switch_status = Pending(master) /\ p.role_master = ~master
    BY <1>1, <1>3 DEF Links, Turnable, Pending, RoleStatus
  <2>2. t \in IF p.held # {} THEN {p}
              ELSE IF ExitDone(p)
                   THEN {[u EXCEPT !.role_switch_status = Running(master)] : u \in bt_sniff_mode_exit(p, FALSE)}
                   ELSE bt_sniff_mode_exit(p, FALSE)
    BY <1>3 DEF bt_link_role_switch
  <2> HIDE DEF p
  <2>3. CASE p.held # {}
    <3>1. t = p
      BY <2>2, <2>3
    <3> QED BY <2>1, <2>3, <3>1 DEF Tried, Turnable, Waits, Pending
  <2>4. CASE p.held = {} /\ ExitDone(p)
    <3>1. PICK u \in bt_sniff_mode_exit(p, FALSE) : t = [u EXCEPT !.role_switch_status = Running(master)]
      BY <2>2, <2>4
    <3>2. RoleKept(p, u)
      BY <2>1, <3>1, ExitKeepsRole
    <3>3. AtRest(p)
      BY <2>1, <2>4 DEF AtRest, Marked, p, Links
    <3>4. u \in Links
      BY <3>1, <3>3, ExitRequests DEF Requested, AtRest
    <3>5. t.held = s.held /\ t.role_switch_status = Running(master)
      BY <2>1, <3>1, <3>2, <3>4 DEF RoleKept, Links
    <3> QED BY <3>5 DEF Tried, Turnable, Waits, Running
  <2>5. CASE p.held = {} /\ ~ExitDone(p)
    <3>1. t \in bt_sniff_mode_exit(p, FALSE)
      BY <2>2, <2>5
    <3>2. /\ RoleKept(p, t)
          /\ t.pm_state = "ACTIVE" => p.pm_state = "ACTIVE"
          /\ t.pm_state = "SNIFF" => t.refused = "now"
      BY <2>1, <3>1, ExitKeepsRole
    <3>3. Turnable(t) /\ t.held = s.held
      BY <2>1, <3>2 DEF RoleKept, Turnable, Pending
    <3> QED BY <2>5, <3>2, <3>3 DEF Tried, ExitDone
  <2> QED BY <2>3, <2>4, <2>5
<1> QED BY <1>2, <1>3

\* The handlers that try a postponed switch again.
LEMMA RetryTries ==
    ASSUME NEW s, AtRest(s), Turnable(s), NEW t \in RetryRoleSwitch(s)
    PROVE  Tried(s, t)
<1>1. CASE s.role_switch_status = "MASTER_PENDING"
  <2>1. t \in bt_link_role_switch(s, TRUE) /\ s.role_switch_status = Pending(TRUE)
    BY <1>1 DEF RetryRoleSwitch, Pending
  <2> QED BY <2>1, SwitchTries
<1>2. CASE s.role_switch_status = "SLAVE_PENDING"
  <2>1. t \in bt_link_role_switch(s, FALSE) /\ s.role_switch_status = Pending(FALSE)
    BY <1>2 DEF RetryRoleSwitch, Pending
  <2> QED BY <2>1, SwitchTries
<1>3. CASE s.role_switch_status \notin {"MASTER_PENDING", "SLAVE_PENDING"}
  <2>1. t = s
    BY <1>3 DEF RetryRoleSwitch
  <2> QED BY <1>3, <2>1 DEF Tried, Waits
<1> QED BY <1>1, <1>2, <1>3

-----------------------------------------------------------------------------
(* Every step either leaves the role switch as it was, with no less on its *)
(* way, or has tried it.                                                   *)

\* The steps that may forget a switch.
Excused ==
    \/ evq # <<>> /\ evq' = Tail(evq) /\ Head(evq) \in {"enter_fail", "exit_fail"}
    \/ link'.refused = "now" /\ link'.pm_state = "SNIFF"

Remembers ==
    /\ Turnable(link')
    /\ RoleSwitchNotForgotten => RoleSwitchNotForgotten' \/ Excused

\* A step that leaves the switch alone, and takes nothing off its way.
LEMMA KeptRemembers ==
    ASSUME IInv, Turnable(link), RoleKept(link, link'), CommandGiven(link, link'), evq' = evq
    PROVE  Remembers
<1>1. link.cmds \in Seq(Commands) /\ evq \in Seq(PmEvents)
  BY DEF IInv, TypeOK
<1>2. Len(link'.cmds) >= Len(link.cmds)
  BY <1>1 DEF CommandGiven
<1>3. Len(link'.cmds) \in Nat
  BY <1>1 DEF CommandGiven, Commands
<1>4. InFlight > 0 => InFlight' > 0
  BY <1>1, <1>2, <1>3 DEF InFlight
<1> QED BY <1>4 DEF Remembers, RoleKept, Turnable, RoleSwitchNotForgotten

\* The same of a handler that calls the power manager.
LEMMA OwnTurnRemembers ==
    ASSUME IInv, Turnable(link), RoleKept(Turn(link), link'), CommandGiven(Turn(link), link'), evq' = evq
    PROVE  Remembers
<1>1. AtRest(link)
  BY InvGivesRest
<1>2. RoleKept(link, link') /\ CommandGiven(link, link')
  BY <1>1, TurnRequests DEF RoleKept, CommandGiven
<1> QED BY <1>2, KeptRemembers

\* A pending state has a command or an event on its way (PendingIsOutstanding).
LEMMA TriedRemembers ==
    ASSUME IInv', NEW s, Tried(s, link')
    PROVE  Remembers
<1>1. link'.cmds \in Seq(Commands) /\ evq' \in Seq(PmEvents) /\ link'.pm_state \in PmState
  BY DEF IInv, TypeOK
<1>2. link'.pm_state \in {"SNIFF_PENDING", "ACTIVE_PENDING"} => InFlight' > 0
  <2>1. ASSUME link'.pm_state \in {"SNIFF_PENDING", "ACTIVE_PENDING"}
        PROVE  (\E i \in DOMAIN link'.cmds : TRUE) \/ \E i \in DOMAIN evq' : TRUE
    BY <2>1 DEF IInv, PendingIsOutstanding
  <2>2. (\E i \in DOMAIN link'.cmds : TRUE) => Len(link'.cmds) > 0
    BY <1>1
  <2>3. (\E i \in DOMAIN evq' : TRUE) => Len(evq') > 0
    BY <1>1
  <2> QED BY <1>1, <2>1, <2>2, <2>3 DEF InFlight
<1> QED BY <1>1, <1>2 DEF PmState, Tried, Waits, Remembers, Excused, RoleSwitchNotForgotten

\* The handlers of the other events try the switch.
LEMMA HandleEventRemembers ==
    ASSUME IInv, IInv', Turnable(link), HandleEvent
    PROVE  Remembers
<1> DEFINE s == Turn(link)
           ev == Head(evq)
<1>1. AtRest(link) /\ evq # <<>> /\ evq' = Tail(evq) /\ ev \in PmEvents
  BY InvGivesRest DEF HandleEvent, IInv, TypeOK
<1>2. AtRest(s) /\ RoleKept(link, s)
  BY <1>1, TurnRequests DEF RoleKept
<1>3. link' \in Handle(s, ev)
  BY DEF HandleEvent
<1> HIDE DEF s
<1>4. CASE ev \in {"enter_fail", "exit_fail"}
  <2>1. link' \in bt_pm_sm(s, ev)
    BY <1>3, <1>4 DEF Handle
  <2>2. RoleKept(s, link')
    BY <1>1, <1>2, <2>1, EventKeepsRole
  <2> QED BY <1>1, <1>2, <1>4, <2>2 DEF Remembers, Excused, RoleKept, Turnable
<1>5. CASE ev \in {"conn_active", "conn_sniff"}
  <2>1. PICK t \in bt_pm_sm(s, ev) : link' \in RetryRoleSwitch(t)
    BY <1>3, <1>5 DEF Handle, AclConnActive, AclConnSniff
  <2>2. AtRest(t) /\ RoleKept(s, t)
    BY <1>1, <1>2, <2>1, EventKeepsRole
  <2>3. Tried(t, link')
    BY <1>2, <2>1, <2>2, RetryTries DEF RoleKept, Turnable
  <2> QED BY <2>3, TriedRemembers
<1> QED BY <1>1, <1>4, <1>5 DEF PmEvents

\* Every step of Next, one action at a time.
LEMMA NextRemembers == ASSUME IInv, IInv', Turnable(link), Next PROVE Remembers
<1>1. AtRest(link) /\ link \in Links /\ busy \in BOOLEAN
  BY InvGivesRest DEF IInv, TypeOK
<1>2. Vetoed \in BOOLEAN
  BY <1>1 DEF Vetoed, Links
<1>a. AtRest(Turn(link)) /\ Turn(link) \in Links /\ Turnable(Turn(link)) /\ RoleKept(link, Turn(link))
      /\ CommandGiven(link, Turn(link)) /\ Turn(link).posted = link.posted
      /\ Turn(link).pm_state = link.pm_state /\ Turn(link).cmds = link.cmds
  BY <1>1, TurnRequests DEF Turnable, RoleKept, CommandGiven
<1>3. CASE ConnSuccess \/ ConnDisconn
  <2>1. \E n : link' = NewLink(n)
    BY <1>3 DEF ConnSuccess, ConnDisconn
  <2> QED BY <2>1 DEF NewLink, Remembers, Turnable, RoleSwitchNotForgotten
<1>4. CASE ConnReady
  <2>1. link' = sys_timer_start([link EXCEPT !.pm_state = "ACTIVE"]) /\ link.pm_state = "ACTIVE" /\ evq' = evq
    BY <1>4 DEF ConnReady, LinkConnected, IInv, SetupIsQuiet
  <2>2. RoleKept(link, link') /\ CommandGiven(link, link')
    BY <1>1, <2>1 DEF sys_timer_start, Links, RoleKept, CommandGiven
  <2> QED BY <2>1, <2>2, KeptRemembers
<1>5. CASE HandleEvent
  BY <1>5, HandleEventRemembers
<1>6. CASE TimerExpires \/ UserBusy
  <2>1. evq' = evq /\ (link' = link \/ link' = [link EXCEPT !.running = FALSE, !.posted = link.posted + 1])
    BY <1>6 DEF TimerExpires, UserBusy
  <2>2. RoleKept(link, link') /\ CommandGiven(link, link')
    BY <1>1, <2>1 DEF Links, RoleKept, CommandGiven
  <2> QED BY <2>1, <2>2, KeptRemembers
<1>7. CASE bt_pm_timeout_cback
  <2> DEFINE taken == [Turn(link) EXCEPT !.posted = @ - 1]
  <2>1. link.posted - 1 \in Nat
    BY <1>1, <1>7 DEF bt_pm_timeout_cback, Links
  <2>2. AtRest(taken) /\ RoleKept(link, taken) /\ CommandGiven(link, taken)
        /\ taken.pm_state = link.pm_state /\ taken.cmds = link.cmds
    BY <1>a, <2>1 DEF AtRest, Links, Marked, RoleKept, CommandGiven
  <2>3. link' = taken \/ link' \in SniffEnterReq(taken, Vetoed)
    BY <1>7 DEF bt_pm_timeout_cback
  <2> HIDE DEF taken
  <2>4. RoleKept(taken, link') /\ CommandGiven(taken, link')
    <3>1. CASE link' = taken
      BY <3>1 DEF RoleKept, CommandGiven
    <3>2. CASE link' \in SniffEnterReq(taken, Vetoed)
      BY <1>2, <2>2, <3>2, UsersKeepRole, EnterReqRequests DEF Requested
    <3> QED BY <2>3, <3>1, <3>2
  <2>5. RoleKept(link, link') /\ CommandGiven(link, link')
    BY <2>2, <2>4 DEF RoleKept, CommandGiven
  <2> QED BY <1>7, <2>5, KeptRemembers DEF bt_pm_timeout_cback
<1>8. CASE HidDeviceConnected
  <2>1. RoleKept(Turn(link), link') /\ CommandGiven(Turn(link), link')
    BY <1>a, <1>2, <1>8, UsersKeepRole, EnterReqRequests DEF HidDeviceConnected, Requested
  <2> QED BY <1>8, <2>1, OwnTurnRemembers DEF HidDeviceConnected
<1>9. CASE Traffic
  <2>1. RoleKept(Turn(link), link') /\ CommandGiven(Turn(link), link')
    BY <1>a, <1>9, ExitKeepsRole, ExitRequests DEF Traffic, Requested
  <2> QED BY <1>9, <2>1, OwnTurnRemembers DEF Traffic
<1>10. CASE SniffModeEnable
  <2>1. RoleKept(Turn(link), link') /\ CommandGiven(Turn(link), link')
    BY <1>a, <1>2, <1>10, UsersKeepRole, EnableRequests DEF SniffModeEnable, Requested
  <2> QED BY <1>10, <2>1, OwnTurnRemembers DEF SniffModeEnable
<1>11. CASE SniffModeDisable
  <2>1. RoleKept(Turn(link), link') /\ CommandGiven(Turn(link), link')
    BY <1>a, <1>2, <1>11, UsersKeepRole, DisableRequests DEF SniffModeDisable, Requested
  <2> QED BY <1>11, <2>1, OwnTurnRemembers DEF SniffModeDisable
<1>12. CASE RoleSwitch
  <2>1. PICK master \in BOOLEAN : link' \in bt_link_role_switch(Turn(link), master)
    BY <1>12, BtPmAssumption DEF RoleSwitch
  <2>2. link' = Turn(link) \/ Tried(Turn(link), link')
    BY <1>a, <2>1, SwitchTries
  <2>3. CASE link' = Turn(link)
    BY <1>a, <1>12, <2>3, KeptRemembers DEF RoleSwitch
  <2> QED BY <2>2, <2>3, TriedRemembers
<1>13. CASE RoleChanged \/ RoleSwitchFailed
  <2>1. link'.role_switch_status = "IDLE"
    BY <1>1, <1>13 DEF RoleChanged, RoleSwitchFailed, Links
  <2> QED BY <2>1 DEF Remembers, Turnable, RoleSwitchNotForgotten
<1>14. CASE HoldBegins
  <2>1. PICK h \in Holds : link' = [link EXCEPT !.held = @ \cup {h}]
    BY <1>14 DEF HoldBegins
  <2>2. link'.held # {} /\ link'.role_master = link.role_master
        /\ link'.role_switch_status = link.role_switch_status
    BY <1>1, <2>1 DEF Links
  <2> QED BY <2>2 DEF Remembers, Turnable, RoleSwitchNotForgotten
<1>15. CASE HoldEnds
  <2>1. PICK h \in link.held : link' \in RetryRoleSwitch([Turn(link) EXCEPT !.held = @ \ {h}])
    BY <1>15 DEF HoldEnds
  <2>2. AtRest([Turn(link) EXCEPT !.held = @ \ {h}]) /\ Turnable([Turn(link) EXCEPT !.held = @ \ {h}])
    BY <1>a DEF AtRest, Links, Marked, Turnable
  <2> QED BY <2>1, <2>2, RetryTries, TriedRemembers
<1>16. CASE AclConnEncrypted
  BY <1>a, <1>16, RetryTries, TriedRemembers DEF AclConnEncrypted
<1>17. CASE Ctrl \/ PhoneChangesMode
  <2>1. link'.role_master = link.role_master /\ link'.role_switch_status = link.role_switch_status
    BY <1>1, <1>17 DEF Ctrl, CtrlSucceeds, CtrlFails, PhoneChangesMode, PeerChangesMode, Links
  <2>2. \E ev : evq' = Append(evq, ev)
    BY <1>17 DEF Ctrl, CtrlSucceeds, CtrlFails, PhoneChangesMode, PeerChangesMode
  <2>3. Len(evq') > 0 /\ Len(evq') \in Nat /\ Len(link'.cmds) \in Nat
    <3>1. evq \in Seq(PmEvents) /\ evq' \in Seq(PmEvents) /\ link'.cmds \in Seq(Commands)
      BY DEF IInv, TypeOK
    <3> QED BY <2>2, <3>1
  <2>4. InFlight' > 0
    BY <2>3 DEF InFlight
  <2> QED BY <2>1, <2>4 DEF Remembers, Turnable, RoleSwitchNotForgotten
<1> QED BY <1>3, <1>4, <1>5, <1>6, <1>7, <1>8, <1>9, <1>10, <1>11, <1>12,
           <1>13, <1>14, <1>15, <1>16, <1>17 DEF Next

\* A switch is never remembered that has come true.
LEMMA TurnableInv == Spec => []Turnable(link)
<1>1. Init => Turnable(link)
  BY DEF Init, NewLink, Turnable
<1>2. IInv /\ IInv' /\ Turnable(link) /\ [Next]_vars => Turnable(link)'
  <2>1. ASSUME UNCHANGED vars, Turnable(link) PROVE Turnable(link)'
    BY <2>1 DEF vars, Turnable
  <2> QED BY <2>1, NextRemembers DEF Remembers, Turnable
<1> QED BY <1>1, <1>2, Invariance, PTL DEF Spec

\* A role switch that bt_link_role_switch postponed is forgotten only by the
\* handlers of a failed sniff command, or by one that GAP refuses a call in and
\* that leaves the link in sniff mode: in every other step it is held back,
\* tried, or waits for a command or an event that is on its way.
THEOREM ForgottenOnlyThere == Spec => ForgottenOnlyOnFailure
<1> DEFINE A == RoleSwitchNotForgotten /\ ~RoleSwitchNotForgotten' =>
                  \/ evq # <<>> /\ evq' = Tail(evq) /\ Head(evq) \in {"enter_fail", "exit_fail"}
                  \/ link'.refused = "now" /\ link'.pm_state = "SNIFF"
<1>1. IInv /\ IInv' /\ Turnable(link) /\ [Next]_vars => [A]_vars
  BY NextRemembers DEF Remembers, Excused
<1> QED BY <1>1, Invariance, TurnableInv, PTL DEF Spec, ForgottenOnlyOnFailure
=============================================================================
