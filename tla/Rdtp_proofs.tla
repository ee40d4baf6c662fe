----------------------------- MODULE Rdtp_proofs -----------------------------
(***************************************************************************)
(* What is proved of Rdtp, for any number of channels.                     *)
(*                                                                         *)
(* Basic is inductive as it stands: the types, and that remote_mgr has a   *)
(* session only while bt_rdtp has its link.                                *)
(*                                                                         *)
(* That the buds agree takes more: Engaged says of each bud and channel    *)
(* what its link may be and which messages about the channel may wait in   *)
(* its queue, given how far L2CAP is with the channel (Views).  It holds   *)
(* when the application closes no session too early (EarlyClose = FALSE):  *)
(* a close without a channel id leaves a link no message ends.  The        *)
(* lemmas on Views are about one bud and one channel (L2cMoves, Handled,   *)
(* Closes); HandleKeeps and L2cKeeps carry them over to a step.            *)
(***************************************************************************)
EXTENDS Rdtp, TLAPS, SequenceTheorems, FiniteSetTheorems

Types == {"CONN_IND", "CONN_RSP", "CONN_CMPL", "DISCONN_IND", "DISCONN_RSP"}
Msgs == [type : Types, cid : Channels, ok : BOOLEAN]
Phases == {"asked", "offered", "answered", "refused", "accepted", "open",
           "closing", "closed", "over"}
Pending == {"asked", "offered", "answered", "refused"}

\* What a message says about its channel.
Tag(m) ==
    CASE m.type = "CONN_IND"           -> "ind"
      [] m.type = "CONN_RSP" /\ m.ok   -> "rsp"
      [] m.type = "CONN_RSP" /\ ~m.ok  -> "rsp_fail"
      [] m.type = "CONN_CMPL" /\ m.ok  -> "cmpl"
      [] m.type = "CONN_CMPL" /\ ~m.ok -> "cmpl_fail"
      [] m.type = "DISCONN_IND"        -> "disc"
      [] OTHER                         -> "disc_rsp"

\* The order in which a host hears about a channel.
Rank(t) ==
    CASE t = "ind"                     -> 0
      [] t \in {"rsp", "rsp_fail"}     -> 1
      [] t \in {"cmpl", "cmpl_fail"}   -> 2
      [] OTHER                         -> 3

Tags(q, c) == {Tag(q[i]) : i \in {j \in DOMAIN q : q[j].cid = c}}

Ordered(q) ==
    \A i, j \in DOMAIN q : i < j /\ q[i].cid = q[j].cid => Rank(Tag(q[i])) < Rank(Tag(q[j]))

\* The message t is the first one about the channel.
First(t, ts) == t \in ts /\ \A x \in ts : x = t \/ Rank(t) < Rank(x)

\* The state of a bud's link if it has the channel.
View(l, c) == IF l.cid = c THEN l.state ELSE "NONE"

\* The bud that asked for the channel, or closed it, and its peer.
Roles == {"asker", "peer"}
Role(ch, b) == IF ch.by = b THEN "asker" ELSE "peer"
OtherRole(role) == IF role = "asker" THEN "peer" ELSE "asker"

\* The link of a bud and the messages that wait for it, by phase of the channel.
Views(phase, role) ==
    CASE role = "asker" /\ phase \in Pending -> {<<"NONE", {}>>}
      [] role = "asker" /\ phase = "accepted" -> {<<"NONE", {"rsp"}>>, <<"CONNECTING", {}>>}
      [] role = "asker" /\ phase = "open" ->
            {<<"NONE", {"rsp", "cmpl"}>>, <<"CONNECTING", {"cmpl"}>>, <<"CONNECTED", {}>>}
      [] role = "asker" /\ phase \in {"closing", "closed"} ->
            {<<"DISCONNECTING", {}>>, <<"DISCONNECTING", {"cmpl"}>>, <<"CONNECTED", {}>>}
      [] role = "peer" /\ phase \in {"asked", "refused", "closed"} -> {<<"NONE", {}>>}
      [] role = "peer" /\ phase = "offered" -> {<<"NONE", {"ind"}>>}
      [] role = "peer" /\ phase \in {"answered", "accepted"} -> {<<"CONNECTING", {}>>}
      [] role = "peer" /\ phase = "open" -> {<<"CONNECTING", {"cmpl"}>>, <<"CONNECTED", {}>>}
      [] role = "peer" /\ phase = "closing" ->
            {<<"NONE", {"rsp", "disc"}>>, <<"NONE", {"rsp", "cmpl", "disc"}>>,
             <<"CONNECTING", {"disc"}>>, <<"CONNECTING", {"cmpl", "disc"}>>,
             <<"DISCONNECTING", {"disc"}>>, <<"DISCONNECTING", {"cmpl", "disc"}>>,
             <<"CONNECTED", {"disc"}>>}
      [] OTHER ->
            {<<"NONE", {}>>, <<"NONE", {"ind", "disc"}>>, <<"NONE", {"disc"}>>,
             <<"NONE", {"rsp_fail"}>>, <<"NONE", {"rsp", "cmpl_fail"}>>,
             <<"NONE", {"rsp", "disc"}>>, <<"NONE", {"rsp", "cmpl", "disc"}>>,
             <<"CONNECTING", {"disc"}>>, <<"CONNECTING", {"cmpl", "disc"}>>,
             <<"DISCONNECTING", {"disc"}>>, <<"DISCONNECTING", {"cmpl", "disc"}>>,
             <<"DISCONNECTING", {"disc_rsp"}>>, <<"DISCONNECTING", {"cmpl", "disc_rsp"}>>,
             <<"CONNECTED", {"disc"}>>, <<"CONNECTED", {"disc_rsp"}>>,
             <<"CONNECTING", {"cmpl_fail"}>>}

\* The bud has asked for the channel and does not know its id yet.
Awaited(phase, role, ts) ==
    \/ role = "asker" /\ phase \in Pending
    \/ ts \cap {"rsp", "rsp_fail"} # {}

-----------------------------------------------------------------------------
(* The invariants.                                                         *)

QueuesTyped == evq \in [Buds -> Seq(Msgs)]

Basic == TypeOK /\ QueuesTyped /\ SessionHasLink

QueuesOrdered == \A b \in Buds : Ordered(evq[b])

LinksOK == \A b \in Buds : link[b].cid = NoCid => link[b].state \in {"NONE", "CONNECTING"}

ViewsOK ==
    \A b \in Buds, c \in Channels :
        <<View(link[b], c), Tags(evq[b], c)>> \in Views(chan[c].phase, Role(chan[c], b))

\* A link without a channel id stands for one channel the bud has asked for.
Awaits(b, c) == Awaited(chan[c].phase, Role(chan[c], b), Tags(evq[b], c))
Waiting(b) == link[b].state = "CONNECTING" /\ link[b].cid = NoCid

AwaitsOK ==
    \A b \in Buds :
        /\ \A c \in Channels : Awaits(b, c) => Waiting(b)
        /\ \A c, d \in Channels : Awaits(b, c) /\ Awaits(b, d) => c = d
        /\ Waiting(b) => \E c \in Channels : Awaits(b, c)

Engaged == QueuesOrdered /\ LinksOK /\ ViewsOK /\ AwaitsOK

\* L2CAP tells a bud t as the channel moves on to the phase "to".
Carried(phase, role, t, to) ==
    \A v, ts : <<v, ts>> \in Views(phase, role) =>
        /\ <<v, ts \cup t>> \in Views(to, role)
        /\ (Awaited(to, role, ts \cup t) <=> Awaited(phase, role, ts))
        /\ \A x \in ts, y \in t : Rank(x) < Rank(y)

\* The queue of bud b gets the messages ts about channel c.
Hears(b, c, ts) ==
    /\ Ordered(evq'[b])
    /\ Tags(evq'[b], c) = Tags(evq[b], c) \cup ts
    /\ \A d \in Channels : d # c => Tags(evq'[b], d) = Tags(evq[b], d)

\* Bud p reads m, one of the messages ts about a channel in this phase.
Reads(p, m, ts, phase, role) ==
    /\ evq[p] # <<>> /\ m = Head(evq[p]) /\ evq' = [evq EXCEPT ![p] = Tail(@)]
    /\ ts = Tags(evq[p], m.cid)
    /\ phase = chan[m.cid].phase /\ role = Role(chan[m.cid], p)

-----------------------------------------------------------------------------
(* The queues.                                                             *)

\* The order of the messages is one of numbers.
LEMMA RankNat == \A t : Rank(t) \in 0..3
BY DEF Rank

\* A message that comes after the others about its channel is put in the queue.
LEMMA Put ==
    ASSUME NEW q \in Seq(Msgs), Ordered(q), NEW m \in Msgs,
           \A t \in Tags(q, m.cid) : Rank(t) < Rank(Tag(m))
    PROVE  /\ Append(q, m) \in Seq(Msgs)
           /\ Ordered(Append(q, m))
           /\ Tags(Append(q, m), m.cid) = Tags(q, m.cid) \cup {Tag(m)}
           /\ \A d : d # m.cid => Tags(Append(q, m), d) = Tags(q, d)
<1> DEFINE r == Append(q, m)
<1>1. /\ r \in Seq(Msgs) /\ Len(q) \in Nat /\ DOMAIN q = 1..Len(q) /\ DOMAIN r = 1..(Len(q) + 1)
      /\ \A i \in DOMAIN q : r[i] = q[i]
      /\ r[Len(q) + 1] = m
  OBVIOUS
<1> HIDE DEF r
<1>2. Tags(r, m.cid) = Tags(q, m.cid) \cup {Tag(m)}
  <2>1. \A i \in DOMAIN r : i \in DOMAIN q \/ i = Len(q) + 1
    BY <1>1
  <2>2. DOMAIN q \subseteq DOMAIN r /\ Len(q) + 1 \in DOMAIN r
    BY <1>1
  <2> QED BY <1>1, <2>1, <2>2 DEF Tags
<1>3. \A d : d # m.cid => Tags(r, d) = Tags(q, d)
  <2>1. \A i \in DOMAIN r : i \in DOMAIN q \/ i = Len(q) + 1
    BY <1>1
  <2>2. DOMAIN q \subseteq DOMAIN r
    BY <1>1
  <2> QED BY <1>1, <2>1, <2>2 DEF Tags
<1>4. Ordered(r)
  <2> SUFFICES ASSUME NEW i \in DOMAIN r, NEW j \in DOMAIN r, i < j, r[i].cid = r[j].cid
               PROVE  Rank(Tag(r[i])) < Rank(Tag(r[j]))
    BY DEF Ordered
  <2>1. i \in DOMAIN q
    BY <1>1
  <2>2. CASE j \in DOMAIN q
    BY <1>1, <2>1, <2>2 DEF Ordered
  <2>3. CASE j = Len(q) + 1
    <3>1. Tag(q[i]) \in Tags(q, m.cid)
      BY <1>1, <2>1, <2>3 DEF Tags
    <3> QED BY <1>1, <2>1, <2>3, <3>1
  <2> QED BY <1>1, <2>2, <2>3
<1> QED BY <1>1, <1>2, <1>3, <1>4 DEF r

\* The message at the head is the first one about its channel, and leaves the
\* others when it is taken.
LEMMA Taken ==
    ASSUME NEW q \in Seq(Msgs), Ordered(q), q # <<>>, NEW m, m = Head(q)
    PROVE  /\ m \in Msgs
           /\ Tail(q) \in Seq(Msgs)
           /\ Ordered(Tail(q))
           /\ Tag(m) \in Tags(q, m.cid)
           /\ \A t \in Tags(q, m.cid) : t = Tag(m) \/ Rank(Tag(m)) < Rank(t)
           /\ Tags(Tail(q), m.cid) = Tags(q, m.cid) \ {Tag(m)}
           /\ \A d : d # m.cid => Tags(Tail(q), d) = Tags(q, d)
<1> DEFINE r == Tail(q)
<1>1. /\ r \in Seq(Msgs) /\ Len(q) \in Nat \ {0} /\ DOMAIN q = 1..Len(q) /\ DOMAIN r = 1..(Len(q) - 1)
      /\ \A i \in DOMAIN r : r[i] = q[i + 1]
      /\ m = q[1] /\ m \in Msgs
  OBVIOUS
<1> HIDE DEF r
<1>2. 1 \in DOMAIN q /\ \A i \in DOMAIN r : i + 1 \in DOMAIN q
  BY <1>1
<1>3. \A j \in DOMAIN q : j # 1 => 1 < j /\ j - 1 \in DOMAIN r /\ r[j - 1] = q[j]
  <2> SUFFICES ASSUME NEW j \in DOMAIN q, j # 1 PROVE 1 < j /\ j - 1 \in DOMAIN r /\ r[j - 1] = q[j]
    OBVIOUS
  <2>1. j \in Int /\ 1 < j /\ j - 1 \in DOMAIN r /\ (j - 1) + 1 = j
    BY <1>1
  <2> QED BY <2>1, <1>1
<1>4. Tag(m) \in Tags(q, m.cid)
  BY <1>1, <1>2 DEF Tags
<1>5. \A j \in DOMAIN q : 1 < j /\ q[j].cid = m.cid => Rank(Tag(m)) < Rank(Tag(q[j]))
  BY <1>1, <1>2 DEF Ordered
<1>6. \A t \in Tags(q, m.cid) : t = Tag(m) \/ Rank(Tag(m)) < Rank(t)
  BY <1>1, <1>3, <1>5 DEF Tags
<1>7. Tags(r, m.cid) = Tags(q, m.cid) \ {Tag(m)}
  <2>1. ASSUME NEW t \in Tags(r, m.cid) PROVE t \in Tags(q, m.cid) \ {Tag(m)}
    <3>1. PICK i \in DOMAIN r : r[i].cid = m.cid /\ t = Tag(r[i])
      BY <2>1 DEF Tags
    <3>2. /\ i + 1 \in DOMAIN q /\ 1 < i + 1 /\ q[i + 1] = r[i]
      BY <1>1, <1>2
    <3>3. Rank(Tag(m)) < Rank(t)
      BY <3>1, <3>2, <1>5
    <3>4. t # Tag(m)
      BY <3>3, RankNat
    <3> QED BY <3>1, <3>2, <3>4 DEF Tags
  <2>2. ASSUME NEW t \in Tags(q, m.cid) \ {Tag(m)} PROVE t \in Tags(r, m.cid)
    <3>1. PICK j \in DOMAIN q : q[j].cid = m.cid /\ t = Tag(q[j])
      BY <2>2 DEF Tags
    <3>2. j # 1
      BY <3>1, <1>1
    <3> QED BY <3>1, <3>2, <1>3 DEF Tags
  <2> QED BY <2>1, <2>2
<1>8. \A d : d # m.cid => Tags(r, d) = Tags(q, d)
  <2> SUFFICES ASSUME NEW d, d # m.cid PROVE Tags(r, d) = Tags(q, d)
    OBVIOUS
  <2>1. ASSUME NEW t \in Tags(r, d) PROVE t \in Tags(q, d)
    <3>1. PICK i \in DOMAIN r : r[i].cid = d /\ t = Tag(r[i])
      BY <2>1 DEF Tags
    <3> QED BY <3>1, <1>1, <1>2 DEF Tags
  <2>2. ASSUME NEW t \in Tags(q, d) PROVE t \in Tags(r, d)
    <3>1. PICK j \in DOMAIN q : q[j].cid = d /\ t = Tag(q[j])
      BY <2>2 DEF Tags
    <3>2. j # 1
      BY <3>1, <1>1
    <3> QED BY <3>1, <3>2, <1>3 DEF Tags
  <2> QED BY <2>1, <2>2
<1>9. Ordered(r)
  <2> SUFFICES ASSUME NEW i \in DOMAIN r, NEW j \in DOMAIN r, i < j, r[i].cid = r[j].cid
               PROVE  Rank(Tag(r[i])) < Rank(Tag(r[j]))
    BY DEF Ordered
  <2>1. i + 1 \in DOMAIN q /\ j + 1 \in DOMAIN q /\ i + 1 < j + 1
    BY <1>1, <1>2
  <2> QED BY <1>1, <2>1 DEF Ordered
<1> QED BY <1>1, <1>4, <1>6, <1>7, <1>8, <1>9 DEF r

-----------------------------------------------------------------------------
(* One bud and one channel.                                                *)

\* Every step of L2CAP, and what it tells the bud that asked and its peer.
LEMMA L2cMoves ==
    /\ Carried("asked", "asker", {}, "offered")
    /\ Carried("asked", "peer", {"ind"}, "offered")
    /\ Carried("answered", "asker", {"rsp"}, "accepted")
    /\ Carried("answered", "peer", {}, "accepted")
    /\ Carried("refused", "asker", {"rsp_fail"}, "over")
    /\ Carried("refused", "peer", {}, "over")
    /\ Carried("accepted", "asker", {"cmpl"}, "open")
    /\ Carried("accepted", "peer", {"cmpl"}, "open")
    /\ Carried("closed", "asker", {"disc_rsp"}, "over")
    /\ Carried("closed", "peer", {}, "over")
    /\ Carried("asked", "asker", {"rsp_fail"}, "over")
    /\ Carried("asked", "peer", {}, "over")
    /\ Carried("accepted", "asker", {"cmpl_fail"}, "over")
    /\ Carried("accepted", "peer", {"cmpl_fail"}, "over")
    /\ Carried("offered", "asker", {"rsp_fail"}, "over")
    /\ Carried("offered", "peer", {"disc"}, "over")
    /\ Carried("answered", "asker", {"rsp_fail"}, "over")
    /\ Carried("answered", "peer", {"disc"}, "over")
    /\ Carried("accepted", "asker", {"disc"}, "over")
    /\ Carried("accepted", "peer", {"disc"}, "over")
    /\ Carried("open", "asker", {"disc"}, "over")
    /\ Carried("open", "peer", {"disc"}, "over")
    /\ Carried("closing", "asker", {"disc_rsp"}, "over")
    /\ Carried("closing", "peer", {}, "over")
<1>1. Carried("asked", "asker", {}, "offered")
  BY DEF Carried, Awaited, Views, Pending, Rank
<1>2. Carried("asked", "peer", {"ind"}, "offered")
  BY DEF Carried, Awaited, Views, Pending, Rank
<1>3. Carried("answered", "asker", {"rsp"}, "accepted")
  BY DEF Carried, Awaited, Views, Pending, Rank
<1>4. Carried("answered", "peer", {}, "accepted")
  BY DEF Carried, Awaited, Views, Pending, Rank
<1>5. Carried("refused", "asker", {"rsp_fail"}, "over")
  BY DEF Carried, Awaited, Views, Pending, Rank
<1>6. Carried("refused", "peer", {}, "over")
  BY DEF Carried, Awaited, Views, Pending, Rank
<1>7. Carried("accepted", "asker", {"cmpl"}, "open")
  BY DEF Carried, Awaited, Views, Pending, Rank
<1>8. Carried("accepted", "peer", {"cmpl"}, "open")
  BY DEF Carried, Awaited, Views, Pending, Rank
<1>9. Carried("closed", "asker", {"disc_rsp"}, "over")
  BY DEF Carried, Awaited, Views, Pending, Rank
<1>10. Carried("closed", "peer", {}, "over")
  BY DEF Carried, Awaited, Views, Pending, Rank
<1>11. Carried("asked", "asker", {"rsp_fail"}, "over")
  BY DEF Carried, Awaited, Views, Pending, Rank
<1>12. Carried("asked", "peer", {}, "over")
  BY DEF Carried, Awaited, Views, Pending, Rank
<1>13. Carried("accepted", "asker", {"cmpl_fail"}, "over")
  BY DEF Carried, Awaited, Views, Pending, Rank
<1>14. Carried("accepted", "peer", {"cmpl_fail"}, "over")
  BY DEF Carried, Awaited, Views, Pending, Rank
<1>15. Carried("offered", "asker", {"rsp_fail"}, "over")
  BY DEF Carried, Awaited, Views, Pending, Rank
<1>16. Carried("offered", "peer", {"disc"}, "over")
  BY DEF Carried, Awaited, Views, Pending, Rank
<1>17. Carried("answered", "asker", {"rsp_fail"}, "over")
  BY DEF Carried, Awaited, Views, Pending, Rank
<1>18. Carried("answered", "peer", {"disc"}, "over")
  BY DEF Carried, Awaited, Views, Pending, Rank
<1>19. Carried("accepted", "asker", {"disc"}, "over")
  BY DEF Carried, Awaited, Views, Pending, Rank
<1>20. Carried("accepted", "peer", {"disc"}, "over")
  BY DEF Carried, Awaited, Views, Pending, Rank
<1>21. Carried("open", "asker", {"disc"}, "over")
  BY DEF Carried, Awaited, Views, Pending, Rank
<1>22. Carried("open", "peer", {"disc"}, "over")
  BY DEF Carried, Awaited, Views, Pending, Rank
<1>23. Carried("closing", "asker", {"disc_rsp"}, "over")
  BY DEF Carried, Awaited, Views, Pending, Rank
<1>24. Carried("closing", "peer", {}, "over")
  BY DEF Carried, Awaited, Views, Pending, Rank
<1> QED BY <1>1, <1>2, <1>3, <1>4, <1>5, <1>6, <1>7, <1>8, <1>9, <1>10, <1>11, <1>12, <1>13, <1>14, <1>15, <1>16, <1>17, <1>18, <1>19, <1>20, <1>21, <1>22, <1>23, <1>24

\* A bud handles CONN_IND: it has no link with the channel yet, and the channel
\* waits for its answer or is gone.
LEMMA HandledInd ==
    ASSUME NEW phase \in Phases, NEW role \in Roles, NEW v, NEW ts,
           <<v, ts>> \in Views(phase, role), First("ind", ts)
    PROVE  /\ v = "NONE"
           /\ phase \in {"offered", "over"}
           /\ phase = "offered" => role = "peer"
           /\ phase = "offered" => /\ <<"CONNECTING", ts \ {"ind"}>> \in Views("answered", role)
                                   /\ <<"NONE", ts \ {"ind"}>> \in Views("refused", role)
           /\ phase = "over" => /\ <<"CONNECTING", ts \ {"ind"}>> \in Views("over", role)
                                /\ <<"NONE", ts \ {"ind"}>> \in Views("over", role)
           /\ (ts \ {"ind"}) \cap {"rsp", "rsp_fail"} = ts \cap {"rsp", "rsp_fail"}
BY DEF Phases, Views, First, Rank, Pending, Roles

\* CONN_RSP, good: the bud that asked learns the channel id.
LEMMA HandledRsp ==
    ASSUME NEW phase \in Phases, NEW role \in Roles, NEW v, NEW ts,
           <<v, ts>> \in Views(phase, role), First("rsp", ts)
    PROVE  /\ v = "NONE"
           /\ <<"CONNECTING", ts \ {"rsp"}>> \in Views(phase, role)
           /\ ~Awaited(phase, role, ts \ {"rsp"})
BY DEF Phases, Views, First, Rank, Pending, Roles, Awaited

\* CONN_RSP, bad: its link is freed.
LEMMA HandledRspFail ==
    ASSUME NEW phase \in Phases, NEW role \in Roles, NEW v, NEW ts,
           <<v, ts>> \in Views(phase, role), First("rsp_fail", ts)
    PROVE  /\ v = "NONE"
           /\ <<"NONE", ts \ {"rsp_fail"}>> \in Views(phase, role)
           /\ ~Awaited(phase, role, ts \ {"rsp_fail"})
BY DEF Phases, Views, First, Rank, Pending, Roles, Awaited

\* CONN_CMPL, good: the link is there, whatever was asked of it meanwhile.
LEMMA HandledCmpl ==
    ASSUME NEW phase \in Phases, NEW role \in Roles, NEW v, NEW ts,
           <<v, ts>> \in Views(phase, role), First("cmpl", ts)
    PROVE  /\ v # "NONE"
           /\ <<"CONNECTED", ts \ {"cmpl"}>> \in Views(phase, role)
           /\ ~Awaited(phase, role, ts) /\ ~Awaited(phase, role, ts \ {"cmpl"})
BY DEF Phases, Views, First, Rank, Pending, Roles, Awaited

\* CONN_CMPL, bad: nobody closes a channel that is failing, so the link is
\* still being opened and is freed.
LEMMA HandledCmplFail ==
    ASSUME NEW phase \in Phases, NEW role \in Roles, NEW v, NEW ts,
           <<v, ts>> \in Views(phase, role), First("cmpl_fail", ts)
    PROVE  /\ v = "CONNECTING"
           /\ <<"NONE", ts \ {"cmpl_fail"}>> \in Views(phase, role)
           /\ ~Awaited(phase, role, ts) /\ ~Awaited(phase, role, ts \ {"cmpl_fail"})
BY DEF Phases, Views, First, Rank, Pending, Roles, Awaited

\* DISCONN_IND: the peer closed the channel, or it was lost.
LEMMA HandledDisc ==
    ASSUME NEW phase \in Phases, NEW role \in Roles, NEW v, NEW ts,
           <<v, ts>> \in Views(phase, role), First("disc", ts)
    PROVE  /\ phase \in {"closing", "over"}
           /\ phase = "closing" => role = "peer" /\ <<"NONE", ts \ {"disc"}>> \in Views("closed", role)
           /\ phase = "over" => <<"NONE", ts \ {"disc"}>> \in Views("over", role)
           /\ ~Awaited(phase, role, ts) /\ ~Awaited("closed", role, ts \ {"disc"})
           /\ ~Awaited("over", role, ts \ {"disc"})
BY DEF Phases, Views, First, Rank, Pending, Roles, Awaited

\* DISCONN_RSP: the channel is over.
LEMMA HandledDiscRsp ==
    ASSUME NEW phase \in Phases, NEW role \in Roles, NEW v, NEW ts,
           <<v, ts>> \in Views(phase, role), First("disc_rsp", ts)
    PROVE  /\ phase = "over"
           /\ <<"NONE", ts \ {"disc_rsp"}>> \in Views("over", role)
           /\ ~Awaited(phase, role, ts) /\ ~Awaited("over", role, ts \ {"disc_rsp"})
BY DEF Phases, Views, First, Rank, Pending, Roles, Awaited

\* A bud that closes its session: L2CAP closes the channel, or is done with it.
LEMMA Closes ==
    ASSUME NEW phase \in Phases, NEW role \in Roles, NEW v, NEW ts,
           <<v, ts>> \in Views(phase, role), v # "NONE", "cmpl_fail" \notin ts
    PROVE  /\ phase \in {"answered", "accepted", "open"} =>
                <<"DISCONNECTING", ts>> \in Views("closing", "asker")
           /\ phase \notin {"answered", "accepted", "open"} =>
                <<"DISCONNECTING", ts>> \in Views(phase, role)
           /\ phase = "answered" => role = "peer"
           /\ ~Awaited(phase, role, ts) /\ ~Awaited("closing", "asker", ts)
BY DEF Phases, Views, Pending, Awaited, Roles

\* The peer of a bud that closes the session.
LEMMA ClosedByPeer ==
    ASSUME NEW phase \in {"accepted", "open"}, NEW role \in Roles, NEW v, NEW ts,
           <<v, ts>> \in Views(phase, role)
    PROVE  /\ <<v, ts \cup {"disc"}>> \in Views("closing", "peer")
           /\ (Awaited("closing", "peer", ts \cup {"disc"}) <=> Awaited(phase, role, ts))
           /\ \A x \in ts : Rank(x) < Rank("disc")
BY DEF Views, Pending, Rank, Awaited, Roles

\* The same before it has heard that the channel was accepted.
LEMMA ClosedByPeerEarly ==
    ASSUME NEW v, NEW ts, <<v, ts>> \in Views("answered", "asker")
    PROVE  /\ ts = {}
           /\ <<v, {"rsp", "disc"}>> \in Views("closing", "peer")
           /\ (Awaited("closing", "peer", {"rsp", "disc"}) <=> Awaited("answered", "asker", ts))
BY DEF Views, Pending, Awaited

-----------------------------------------------------------------------------
(* Types, and the link of a session: Basic.                                *)

\* There are two buds.
LEMMA PeerFacts ==
    \A p \in Buds : Peer(p) \in Buds /\ Peer(p) # p /\ Peer(Peer(p)) = p /\ Buds = {p, Peer(p)}
BY DEF Buds, Peer

\* No channel has the id that stands for none.
LEMMA ChannelFacts == NoCid \notin Channels /\ IsFiniteSet(Channels)
<1>1. MaxChannels \in Nat
  BY RdtpAssumption
<1>2. NoCid \notin Channels
  BY <1>1 DEF NoCid, Channels
<1>3. IsFiniteSet(Channels)
  BY <1>1, FS_Interval DEF Channels
<1> QED BY <1>2, <1>3

\* Msg makes a message.
LEMMA MsgTyped ==
    ASSUME NEW t \in Types, NEW c \in Channels, NEW ok \in BOOLEAN
    PROVE  Msg(t, c, ok) \in Msgs
BY DEF Msg, Msgs

\* The two ways L2CAP tells the buds something.
LEMMA ToldTyped ==
    ASSUME QueuesTyped, NEW p \in Buds, NEW m \in Msgs, Told(p, m)
    PROVE  QueuesTyped'
BY DEF QueuesTyped, Told

\* And when it tells both.
LEMMA BothToldTyped ==
    ASSUME QueuesTyped, NEW p \in Buds, NEW m \in Msgs, NEW n \in Msgs, BothTold(p, m, n)
    PROVE  QueuesTyped'
<1> DEFINE q == Peer(p)
<1>1. q \in Buds /\ q # p
  BY PeerFacts
<1>2. Append(evq[p], m) \in Seq(Msgs) /\ Append(evq[q], n) \in Seq(Msgs)
  BY <1>1 DEF QueuesTyped
<1>3. evq' = [evq EXCEPT ![p] = Append(evq[p], m), ![q] = Append(evq[q], n)]
  BY <1>1 DEF BothTold, QueuesTyped
<1> HIDE DEF q
<1> QED BY <1>1, <1>2, <1>3 DEF QueuesTyped

\* A channel that moves on keeps who asked for it.
LEMMA BecomesTyped ==
    ASSUME TypeOK, NEW c \in Channels, NEW phase \in Phases, Becomes(c, phase)
    PROVE  /\ chan' \in [Channels -> [phase : Phases, by : Buds]]
           /\ chan'[c].phase = phase
           /\ \A d \in Channels : chan'[d].by = chan[d].by /\ (d # c => chan'[d] = chan[d])
BY DEF TypeOK, Becomes, Phases

\* L2CAP changes neither links nor sessions.
LEMMA TypeSame ==
    ASSUME TypeOK, UNCHANGED <<link, up>>, chan' \in [Channels -> [phase : Phases, by : Buds]]
    PROVE  TypeOK'
BY DEF TypeOK, Phases

\* So a session keeps its link.
LEMMA SessionSame ==
    ASSUME SessionHasLink, UNCHANGED <<link, up>>
    PROVE  SessionHasLink'
BY DEF SessionHasLink

\* Each action keeps Basic.
LEMMA BasicInit == Init => Basic
<1> SUFFICES ASSUME Init PROVE Basic
  OBVIOUS
<1>1. TypeOK
  BY DEF Init, TypeOK, NoLink, Buds
<1>2. QueuesTyped
  BY DEF Init, QueuesTyped
<1>3. SessionHasLink
  BY DEF Init, SessionHasLink, NoLink
<1> QED BY <1>1, <1>2, <1>3 DEF Basic

\* bt_rdtp_connect_req makes a link, no session.
LEMMA BasicConnect == Basic /\ bt_rdtp_connect_req => Basic'
<1> SUFFICES ASSUME Basic, bt_rdtp_connect_req PROVE Basic'
  OBVIOUS
<1> USE DEF Basic
<1>1. PICK p \in Buds, c \in Channels :
        /\ link[p].state = "NONE"
        /\ link' = [link EXCEPT ![p] = [state |-> "CONNECTING", cid |-> NoCid]]
        /\ chan' = [chan EXCEPT ![c] = [phase |-> "asked", by |-> p]]
        /\ UNCHANGED <<up, evq>>
  BY DEF bt_rdtp_connect_req
<1>2. TypeOK'
  BY <1>1 DEF TypeOK
<1>3. QueuesTyped'
  BY <1>1 DEF QueuesTyped
<1>4. SessionHasLink'
  BY <1>1 DEF TypeOK, SessionHasLink
<1> QED BY <1>2, <1>3, <1>4

\* bt_rdtp_disconnect_req keeps the link of the session.
LEMMA BasicDisconnect == Basic /\ bt_rdtp_disconnect_req => Basic'
<1> SUFFICES ASSUME Basic, bt_rdtp_disconnect_req PROVE Basic'
  OBVIOUS
<1> USE DEF Basic
<1>1. PICK p \in Buds :
        /\ link[p].state # "NONE"
        /\ link' = [link EXCEPT ![p].state = "DISCONNECTING"]
        /\ Disconnect(p, link[p].cid)
        /\ UNCHANGED up
  BY DEF bt_rdtp_disconnect_req, MayClose
<1> DEFINE c == link[p].cid
<1>2. SessionHasLink'
  BY <1>1 DEF TypeOK, SessionHasLink
<1>3. CASE In(c, {"answered", "accepted", "open"})
  <2>1. c \in Channels
    BY <1>3 DEF In
  <2>2. TypeOK'
    BY <1>1, <1>3, <2>1 DEF TypeOK, Disconnect
  <2>3. Msg("CONN_RSP", c, TRUE) \in Msgs /\ Msg("DISCONN_IND", c, TRUE) \in Msgs
    BY <2>1, MsgTyped DEF Types
  <2>4. QueuesTyped'
    <3> DEFINE q == Peer(p)
               rsp == Msg("CONN_RSP", c, TRUE)
               disc == Msg("DISCONN_IND", c, TRUE)
               first == IF In(c, {"answered"}) THEN <<rsp>> ELSE <<>>
               new == evq[q] \o Append(first, disc)
    <3>1. evq' = [evq EXCEPT ![q] = new]
      BY <1>1, <1>3 DEF Disconnect
    <3>2. q \in Buds
      BY PeerFacts
    <3>3. rsp \in Msgs /\ disc \in Msgs
      BY <2>3
    <3> HIDE DEF rsp, disc, q
    <3>4. evq[q] \in Seq(Msgs)
      BY <3>2 DEF QueuesTyped
    <3>5. first \in Seq(Msgs)
      <4>1. <<rsp>> \in Seq(Msgs) /\ <<>> \in Seq(Msgs)
        BY <3>3
      <4> QED BY <4>1
    <3> HIDE DEF first
    <3>6. Append(first, disc) \in Seq(Msgs)
      BY <3>3, <3>5
    <3>7. new \in Seq(Msgs)
      BY <3>4, <3>6
    <3> HIDE DEF new
    <3> QED BY <3>1, <3>2, <3>7 DEF QueuesTyped
  <2> QED BY <1>2, <2>2, <2>4
<1>4. CASE ~In(c, {"answered", "accepted", "open"})
  <2>1. UNCHANGED <<chan, evq>>
    BY <1>1, <1>4 DEF Disconnect
  <2>2. TypeOK'
    BY <1>1, <2>1 DEF TypeOK
  <2>3. QueuesTyped'
    BY <2>1 DEF QueuesTyped
  <2> QED BY <1>2, <2>2, <2>3
<1> QED BY <1>3, <1>4

\* bt_rdtp_cback makes and frees link and session together.
LEMMA BasicHandle == ASSUME NEW p \in Buds PROVE Basic /\ bt_rdtp_cback(p) => Basic'
<1> SUFFICES ASSUME Basic, bt_rdtp_cback(p) PROVE Basic'
  OBVIOUS
<1> USE DEF Basic
<1> DEFINE m == Head(evq[p])
<1>1. evq[p] # <<>> /\ m \in Msgs /\ QueuesTyped'
  BY DEF bt_rdtp_cback, QueuesTyped
<1>2. m.type \in Types /\ m.cid \in Channels /\ m.ok \in BOOLEAN
  BY <1>1 DEF Msgs
<1> HIDE DEF m
<1>3. ASSUME NEW c \in Channels, DisconnCmpl(p, c), chan' \in [Channels -> [phase : Phases, by : Buds]]
      PROVE  TypeOK' /\ SessionHasLink'
  <2>1. CASE Found(p, c)
    <3>1. link' = [link EXCEPT ![p] = NoLink] /\ up' = up \ {p}
      BY <1>3, <2>1 DEF DisconnCmpl
    <3>2. TypeOK'
      BY <1>3, <3>1 DEF TypeOK, NoLink, Phases
    <3>3. SessionHasLink'
      BY <3>1 DEF TypeOK, SessionHasLink, NoLink
    <3> QED BY <3>2, <3>3
  <2>2. CASE ~Found(p, c)
    BY <1>3, <2>2 DEF DisconnCmpl, TypeOK, SessionHasLink, Phases
  <2> QED BY <2>1, <2>2
<1>4. CASE m.type = "CONN_IND"
  <2>1. bt_rdtp_handle_conn_ind(p, m.cid)
    BY <1>4 DEF bt_rdtp_cback, m
  <2>2. chan' \in [Channels -> [phase : Phases, by : Buds]]
    <3>1. chan' = chan \/ \E phase \in Phases : Becomes(m.cid, phase)
      BY <2>1 DEF bt_rdtp_handle_conn_ind, Phases
    <3> QED BY <1>2, <3>1, BecomesTyped DEF TypeOK, Phases
  <2>3. TypeOK'
    BY <1>2, <2>1, <2>2 DEF bt_rdtp_handle_conn_ind, TypeOK, Phases
  <2>4. SessionHasLink'
    BY <2>1 DEF bt_rdtp_handle_conn_ind, TypeOK, SessionHasLink
  <2> QED BY <1>1, <2>3, <2>4
<1>5. CASE m.type = "CONN_RSP"
  <2>1. bt_rdtp_handle_conn_rsp(p, m.cid, m.ok)
    BY <1>5 DEF bt_rdtp_cback, m
  <2>2. TypeOK' /\ SessionHasLink'
    BY <1>2, <2>1 DEF bt_rdtp_handle_conn_rsp, TypeOK, SessionHasLink, NoLink
  <2> QED BY <1>1, <2>2
<1>6. CASE m.type = "CONN_CMPL"
  <2>1. bt_rdtp_handle_conn_cmpl(p, m.cid, m.ok)
    BY <1>6 DEF bt_rdtp_cback, m
  <2>2. TypeOK' /\ SessionHasLink'
    <3>1. CASE Found(p, m.cid) /\ m.ok
      <4>1. link' = [link EXCEPT ![p].state = "CONNECTED"] /\ up' = up \cup {p} /\ chan' = chan
        BY <2>1, <3>1 DEF bt_rdtp_handle_conn_cmpl
      <4>2. TypeOK'
        BY <3>1, <4>1 DEF TypeOK, Found
      <4>3. SessionHasLink'
        BY <4>1 DEF TypeOK, SessionHasLink
      <4> QED BY <4>2, <4>3
    <3>2. CASE ~(Found(p, m.cid) /\ m.ok)
      <4>1. up' = up /\ chan' = chan
        BY <2>1, <3>2 DEF bt_rdtp_handle_conn_cmpl
      <4>2. CASE Found(p, m.cid) /\ link[p].state = "CONNECTING"
        <5>1. link' = [link EXCEPT ![p] = NoLink]
          BY <2>1, <3>2, <4>2 DEF bt_rdtp_handle_conn_cmpl
        <5> QED BY <4>1, <4>2, <5>1 DEF TypeOK, SessionHasLink, NoLink
      <4>3. CASE ~(Found(p, m.cid) /\ link[p].state = "CONNECTING")
        <5>1. link' = link
          BY <2>1, <3>2, <4>3 DEF bt_rdtp_handle_conn_cmpl
        <5> QED BY <4>1, <5>1 DEF TypeOK, SessionHasLink
      <4> QED BY <4>2, <4>3
    <3> QED BY <3>1, <3>2
  <2> QED BY <1>1, <2>2
<1>7. CASE m.type = "DISCONN_IND"
  <2>1. bt_rdtp_handle_disconn_ind(p, m.cid)
    BY <1>7 DEF bt_rdtp_cback, m
  <2>2. chan' \in [Channels -> [phase : Phases, by : Buds]]
    BY <1>2, <2>1 DEF bt_rdtp_handle_disconn_ind, Becomes, TypeOK, Phases
  <2> QED BY <1>1, <1>2, <1>3, <2>1, <2>2 DEF bt_rdtp_handle_disconn_ind
<1>8. CASE m.type = "DISCONN_RSP"
  <2>1. bt_rdtp_handle_disconn_rsp(p, m.cid)
    BY <1>8 DEF bt_rdtp_cback, m
  <2>2. chan' \in [Channels -> [phase : Phases, by : Buds]]
    BY <2>1 DEF bt_rdtp_handle_disconn_rsp, TypeOK, Phases
  <2> QED BY <1>1, <1>2, <1>3, <2>1, <2>2 DEF bt_rdtp_handle_disconn_rsp
<1> QED BY <1>2, <1>4, <1>5, <1>6, <1>7, <1>8 DEF Types

\* What L2CAP does keeps the types.
LEMMA BasicL2c ==
    ASSUME Basic, UNCHANGED <<link, up>>, NEW c \in Channels, NEW phase \in Phases, Becomes(c, phase),
           NEW p \in Buds, NEW m \in Msgs, NEW n \in Msgs, Told(p, m) \/ BothTold(p, m, n)
    PROVE  Basic'
BY BecomesTyped, TypeSame, SessionSame, ToldTyped, BothToldTyped DEF Basic

\* L2cWorks, L2cFails and AclLost change a channel and tell the buds.
LEMMA BasicL2cWorks == ASSUME NEW c \in Channels PROVE Basic /\ L2cWorks(c) => Basic'
<1> SUFFICES ASSUME Basic, L2cWorks(c) PROVE Basic'
  OBVIOUS
<1> DEFINE p == chan[c].by
<1>1. p \in Buds /\ Peer(p) \in Buds
  BY PeerFacts DEF Basic, TypeOK
<1>2. \A t \in Types, ok \in BOOLEAN : Msg(t, c, ok) \in Msgs
  BY MsgTyped
<1>3. PICK phase \in Phases, b \in Buds, m \in Msgs, n \in Msgs :
        Becomes(c, phase) /\ (Told(b, m) \/ BothTold(b, m, n))
  BY <1>1, <1>2 DEF L2cWorks, L2cCarries, Phases, Types
<1> QED BY <1>3, BasicL2c DEF L2cWorks

\* The same of a channel that cannot be opened.
LEMMA BasicL2cFails == Basic /\ L2cFails => Basic'
<1> SUFFICES ASSUME Basic, L2cFails PROVE Basic'
  OBVIOUS
<1>1. \A c \in Channels : chan[c].by \in Buds
  BY DEF Basic, TypeOK
<1>2. \A c \in Channels, t \in Types, ok \in BOOLEAN : Msg(t, c, ok) \in Msgs
  BY MsgTyped
<1>3. PICK c \in Channels, phase \in Phases, b \in Buds, m \in Msgs, n \in Msgs :
        Becomes(c, phase) /\ (Told(b, m) \/ BothTold(b, m, n))
  BY <1>1, <1>2 DEF L2cFails, Phases, Types
<1> QED BY <1>3, BasicL2c DEF L2cFails

\* The same of a lost link.
LEMMA BasicAclLost == Basic /\ AclLost => Basic'
<1> SUFFICES ASSUME Basic, AclLost PROVE Basic'
  OBVIOUS
<1>1. \A c \in Channels : chan[c].by \in Buds
  BY DEF Basic, TypeOK
<1>2. \A c \in Channels, t \in Types, ok \in BOOLEAN : Msg(t, c, ok) \in Msgs
  BY MsgTyped
<1>3. PICK c \in Channels, phase \in Phases, b \in Buds, m \in Msgs, n \in Msgs :
        Becomes(c, phase) /\ (Told(b, m) \/ BothTold(b, m, n))
  BY <1>1, <1>2 DEF AclLost, Phases, Types
<1> QED BY <1>3, BasicL2c DEF AclLost

\* Every step keeps Basic.
LEMMA BasicNext == Basic /\ [Next]_vars => Basic'
<1> SUFFICES ASSUME Basic, [Next]_vars PROVE Basic'
  OBVIOUS
<1>1. CASE Next
  BY <1>1, BasicConnect, BasicDisconnect, BasicHandle, BasicL2cWorks, BasicL2cFails, BasicAclLost DEF Next
<1>2. CASE UNCHANGED vars
  BY <1>2 DEF vars, Basic, TypeOK, QueuesTyped, SessionHasLink
<1> QED BY <1>1, <1>2

\* Whatever the application, L2CAP and the ACL link do, the types are right and
\* remote_mgr has a session only while bt_rdtp has its link.
THEOREM BasicInvariance == Spec => []Basic
BY BasicInit, BasicNext, PTL DEF Spec

-----------------------------------------------------------------------------
(* L2CAP and the views of the buds.                                        *)

\* Nothing new is awaited.
LEMMA AwaitsSame ==
    ASSUME AwaitsOK, \A b \in Buds : (Waiting(b)' <=> Waiting(b)),
           \A b \in Buds, c \in Channels : (Awaits(b, c)' <=> Awaits(b, c))
    PROVE  AwaitsOK'
BY DEF AwaitsOK

\* A step about channel c leaves what the buds know of the others.
LEMMA ChannelStep ==
    ASSUME Engaged, NEW c \in Channels,
           \A b \in Buds : Ordered(evq'[b]),
           \A b \in Buds, d \in Channels : d # c =>
               /\ chan'[d] = chan[d]
               /\ View(link'[b], d) = View(link[b], d)
               /\ Tags(evq'[b], d) = Tags(evq[b], d),
           \A b \in Buds :
               <<View(link'[b], c), Tags(evq'[b], c)>> \in Views(chan'[c].phase, Role(chan'[c], b))
    PROVE  /\ QueuesOrdered' /\ ViewsOK'
           /\ \A b \in Buds, d \in Channels : d # c => (Awaits(b, d)' <=> Awaits(b, d))
<1>1. QueuesOrdered'
  BY DEF QueuesOrdered
<1>2. ViewsOK'
  <2> SUFFICES ASSUME NEW b \in Buds, NEW d \in Channels
               PROVE  <<View(link'[b], d), Tags(evq'[b], d)>> \in Views(chan'[d].phase, Role(chan'[d], b))
    BY DEF ViewsOK
  <2>1. CASE d = c
    BY <2>1
  <2>2. CASE d # c
    BY <2>2 DEF Engaged, ViewsOK
  <2> QED BY <2>1, <2>2
<1>3. \A b \in Buds, d \in Channels : d # c => (Awaits(b, d)' <=> Awaits(b, d))
  BY DEF Awaits
<1> QED BY <1>1, <1>2, <1>3

\* A message L2CAP tells is heard after the others about its channel.
LEMMA HearsOne ==
    ASSUME Basic, Engaged, NEW c \in Channels, NEW to, NEW b \in Buds, NEW m \in Msgs, m.cid = c,
           Carried(chan[c].phase, Role(chan[c], b), {Tag(m)}, to),
           evq'[b] = Append(evq[b], m)
    PROVE  Hears(b, c, {Tag(m)})
<1>1. evq[b] \in Seq(Msgs) /\ Ordered(evq[b])
  BY DEF Basic, QueuesTyped, Engaged, QueuesOrdered
<1>2. <<View(link[b], c), Tags(evq[b], c)>> \in Views(chan[c].phase, Role(chan[c], b))
  BY DEF Engaged, ViewsOK
<1>3. \A t \in Tags(evq[b], m.cid) : Rank(t) < Rank(Tag(m))
  BY <1>2 DEF Carried
<1>4. /\ Ordered(Append(evq[b], m))
      /\ Tags(Append(evq[b], m), c) = Tags(evq[b], c) \cup {Tag(m)}
      /\ \A d : d # c => Tags(Append(evq[b], m), d) = Tags(evq[b], d)
  BY <1>1, <1>3, Put
<1> QED BY <1>4 DEF Hears

\* A queue that is left alone hears nothing.
LEMMA HearsNone ==
    ASSUME Engaged, NEW c, NEW b \in Buds, evq'[b] = evq[b]
    PROVE  Hears(b, c, {})
BY DEF Hears, Engaged, QueuesOrdered

\* One bud is told.
LEMMA ToldHears ==
    ASSUME Basic, Engaged, NEW c \in Channels, NEW to, NEW p \in Buds, NEW m \in Msgs, m.cid = c,
           Carried(chan[c].phase, Role(chan[c], p), {Tag(m)}, to), Told(p, m)
    PROVE  Hears(p, c, {Tag(m)}) /\ Hears(Peer(p), c, {})
<1>1. evq'[p] = Append(evq[p], m) /\ evq'[Peer(p)] = evq[Peer(p)] /\ Peer(p) \in Buds
  BY PeerFacts DEF Told, Basic, QueuesTyped
<1> QED BY <1>1, HearsOne, HearsNone

\* Both buds are told.
LEMMA BothToldHears ==
    ASSUME Basic, Engaged, NEW c \in Channels, NEW to, NEW p \in Buds,
           NEW m \in Msgs, m.cid = c, Carried(chan[c].phase, Role(chan[c], p), {Tag(m)}, to),
           NEW n \in Msgs, n.cid = c, Carried(chan[c].phase, Role(chan[c], Peer(p)), {Tag(n)}, to),
           BothTold(p, m, n)
    PROVE  Hears(p, c, {Tag(m)}) /\ Hears(Peer(p), c, {Tag(n)})
<1> DEFINE q == Peer(p)
<1>1. q \in Buds /\ q # p
  BY PeerFacts
<1>2. evq' = [evq EXCEPT ![p] = Append(@, m), ![q] = Append(@, n)] /\ evq \in [Buds -> Seq(Msgs)]
  BY DEF BothTold, Basic, QueuesTyped
<1> HIDE DEF q
<1>3. evq'[p] = Append(evq[p], m) /\ evq'[q] = Append(evq[q], n)
  BY <1>1, <1>2
<1>4. Hears(p, c, {Tag(m)})
  BY <1>3, HearsOne
<1>5. Hears(q, c, {Tag(n)})
  BY <1>1, <1>3, HearsOne DEF q
<1> QED BY <1>4, <1>5 DEF q

\* A channel moves on as Carried says for both buds.
LEMMA L2cKeeps ==
    ASSUME Basic, Engaged, UNCHANGED <<link, up>>, NEW c \in Channels, NEW to \in Phases, Becomes(c, to),
           NEW p \in Buds, p = chan[c].by, NEW mt, NEW tt,
           Hears(p, c, mt), Carried(chan[c].phase, "asker", mt, to),
           Hears(Peer(p), c, tt), Carried(chan[c].phase, "peer", tt, to)
    PROVE  Engaged'
<1> DEFINE new(b) == IF b = p THEN mt ELSE tt
<1>1. ASSUME NEW b \in Buds
      PROVE  Hears(b, c, new(b)) /\ Carried(chan[c].phase, Role(chan[c], b), new(b), to)
  <2>1. CASE b = p
    <3>1. Role(chan[c], b) = "asker" /\ new(b) = mt
      BY <2>1 DEF Role, OtherRole
    <3> QED BY <2>1, <3>1
  <2>2. CASE b = Peer(p)
    <3>1. Role(chan[c], b) = "peer" /\ new(b) = tt
      BY <2>2, PeerFacts DEF Role, OtherRole
    <3> QED BY <2>2, <3>1
  <2> QED BY <2>1, <2>2, PeerFacts
<1> HIDE DEF new
<1>2. /\ chan'[c].phase = to /\ chan'[c].by = p
      /\ \A d \in Channels : d # c => chan'[d] = chan[d]
  BY BecomesTyped DEF Basic
<1>3. \A b \in Buds : <<View(link[b], c), Tags(evq[b], c)>> \in Views(chan[c].phase, Role(chan[c], b))
  BY DEF Engaged, ViewsOK
<1>4. ASSUME NEW b \in Buds
      PROVE  /\ <<View(link'[b], c), Tags(evq'[b], c)>> \in Views(chan'[c].phase, Role(chan'[c], b))
             /\ (Awaits(b, c)' <=> Awaits(b, c))
  <2>1. Tags(evq'[b], c) = Tags(evq[b], c) \cup new(b)
    BY <1>1 DEF Hears
  <2>2. /\ <<View(link[b], c), Tags(evq[b], c) \cup new(b)>> \in Views(to, Role(chan[c], b))
        /\ (Awaited(to, Role(chan[c], b), Tags(evq[b], c) \cup new(b)) <=> Awaited(chan[c].phase, Role(chan[c], b), Tags(evq[b], c)))
    <3> DEFINE v == View(link[b], c)
               ts == Tags(evq[b], c)
               role == Role(chan[c], b)
    <3>1. <<v, ts>> \in Views(chan[c].phase, role) /\ Carried(chan[c].phase, role, new(b), to)
      BY <1>1, <1>3
    <3> HIDE DEF v, ts, role
    <3>2. /\ <<v, ts \cup new(b)>> \in Views(to, role)
          /\ (Awaited(to, role, ts \cup new(b)) <=> Awaited(chan[c].phase, role, ts))
      BY <3>1 DEF Carried
    <3> QED BY <3>2 DEF v, ts, role
  <2>3. Role(chan'[c], b) = Role(chan[c], b)
    BY <1>2 DEF Role
  <2>4. <<View(link'[b], c), Tags(evq'[b], c)>> \in Views(chan'[c].phase, Role(chan'[c], b))
    BY <1>2, <2>1, <2>2, <2>3
  <2>5. Awaits(b, c)' <=> Awaits(b, c)
    BY <1>2, <2>1, <2>2, <2>3 DEF Awaits
  <2> QED BY <2>4, <2>5
<1>5. /\ QueuesOrdered' /\ ViewsOK'
      /\ \A b \in Buds, d \in Channels : d # c => (Awaits(b, d)' <=> Awaits(b, d))
  <2>1. \A b \in Buds : Ordered(evq'[b])
    BY <1>1 DEF Hears
  <2>2. \A b \in Buds, d \in Channels : d # c =>
               /\ chan'[d] = chan[d]
               /\ View(link'[b], d) = View(link[b], d)
               /\ Tags(evq'[b], d) = Tags(evq[b], d)
    BY <1>1, <1>2 DEF Hears
  <2> QED BY <1>4, <2>1, <2>2, ChannelStep
<1>6. AwaitsOK'
  <2>1. \A b \in Buds, d \in Channels : (Awaits(b, d)' <=> Awaits(b, d))
    BY <1>4, <1>5
  <2>2. \A b \in Buds : (Waiting(b)' <=> Waiting(b))
    BY DEF Waiting
  <2> QED BY <2>1, <2>2, AwaitsSame DEF Engaged
<1>7. LinksOK'
  BY DEF Engaged, LinksOK
<1> QED BY <1>5, <1>6, <1>7 DEF Engaged

\* L2CAP tells the bud that asked for the channel, or closed it.
LEMMA L2cTellsAsker ==
    ASSUME Basic, Engaged, UNCHANGED <<link, up>>, NEW c \in Channels, NEW to \in Phases, Becomes(c, to),
           NEW p \in Buds, p = chan[c].by, NEW m \in Msgs, m.cid = c,
           Told(p, m), Carried(chan[c].phase, "asker", {Tag(m)}, to), Carried(chan[c].phase, "peer", {}, to)
    PROVE  Engaged'
<1>1. Role(chan[c], p) = "asker"
  BY DEF Role, Roles
<1>2. Hears(p, c, {Tag(m)}) /\ Hears(Peer(p), c, {})
  BY <1>1, ToldHears
<1> QED BY <1>2, L2cKeeps

\* L2CAP tells its peer.
LEMMA L2cTellsPeer ==
    ASSUME Basic, Engaged, UNCHANGED <<link, up>>, NEW c \in Channels, NEW to \in Phases, Becomes(c, to),
           NEW p \in Buds, p = chan[c].by, NEW m \in Msgs, m.cid = c,
           Told(Peer(p), m), Carried(chan[c].phase, "asker", {}, to), Carried(chan[c].phase, "peer", {Tag(m)}, to)
    PROVE  Engaged'
<1>1. Role(chan[c], Peer(p)) = "peer" /\ Peer(p) \in Buds /\ Peer(Peer(p)) = p
  BY PeerFacts DEF Role, OtherRole
<1>2. Hears(Peer(p), c, {Tag(m)}) /\ Hears(Peer(Peer(p)), c, {})
  BY <1>1, ToldHears
<1> QED BY <1>1, <1>2, L2cKeeps

\* L2CAP tells both.
LEMMA L2cTellsBoth ==
    ASSUME Basic, Engaged, UNCHANGED <<link, up>>, NEW c \in Channels, NEW to \in Phases, Becomes(c, to),
           NEW p \in Buds, p = chan[c].by, NEW m \in Msgs, m.cid = c,
           NEW n \in Msgs, n.cid = c, BothTold(p, m, n),
           Carried(chan[c].phase, "asker", {Tag(m)}, to), Carried(chan[c].phase, "peer", {Tag(n)}, to)
    PROVE  Engaged'
<1>1. Role(chan[c], p) = "asker" /\ Role(chan[c], Peer(p)) = "peer"
  BY PeerFacts DEF Role, OtherRole
<1>2. Hears(p, c, {Tag(m)}) /\ Hears(Peer(p), c, {Tag(n)})
  BY <1>1, BothToldHears
<1> QED BY <1>2, L2cKeeps

\* What the messages of L2CAP say.
LEMMA MsgTags ==
    ASSUME NEW c \in Channels, NEW t \in Types, NEW ok \in BOOLEAN
    PROVE  /\ Msg(t, c, ok) \in Msgs /\ Msg(t, c, ok).cid = c
           /\ Tag(Msg(t, c, ok)) = CASE t = "CONN_IND" -> "ind"
                                     [] t = "CONN_RSP" -> IF ok THEN "rsp" ELSE "rsp_fail"
                                     [] t = "CONN_CMPL" -> IF ok THEN "cmpl" ELSE "cmpl_fail"
                                     [] t = "DISCONN_IND" -> "disc"
                                     [] t = "DISCONN_RSP" -> "disc_rsp"
BY DEF Msg, Msgs, Types, Tag

\* L2CAP carries out a request.
LEMMA EngagedL2cWorks ==
    ASSUME NEW c \in Channels PROVE Basic /\ Engaged /\ L2cWorks(c) => Engaged'
<1> SUFFICES ASSUME Basic, Engaged, L2cWorks(c) PROVE Engaged'
  OBVIOUS
<1> DEFINE p == chan[c].by
<1>1. p \in Buds /\ UNCHANGED <<link, up>>
  BY DEF Basic, TypeOK, L2cWorks
<1>2. CASE chan[c].phase = "asked"
  <2> DEFINE m == Msg("CONN_IND", c, TRUE)
  <2>1. Becomes(c, "offered") /\ Told(Peer(p), m) /\ "offered" \in Phases
    BY <1>2 DEF L2cWorks, L2cCarries, Phases
  <2>2. m \in Msgs /\ m.cid = c /\ Tag(m) = "ind"
    BY MsgTags DEF Types
  <2>4. Carried("asked", "asker", {}, "offered") /\ Carried("asked", "peer", {"ind"}, "offered")
    BY L2cMoves
  <2> HIDE DEF m, p
  <2>5. p = chan[c].by
    BY DEF p
  <2> QED BY <1>1, <1>2, <2>1, <2>2, <2>4, <2>5, L2cTellsPeer
<1>3. CASE chan[c].phase = "answered"
  <2> DEFINE m == Msg("CONN_RSP", c, TRUE)
  <2>1. Becomes(c, "accepted") /\ Told(p, m) /\ "accepted" \in Phases
    BY <1>3 DEF L2cWorks, L2cCarries, Phases
  <2>2. m \in Msgs /\ m.cid = c /\ Tag(m) = "rsp"
    BY MsgTags DEF Types
  <2>4. Carried("answered", "asker", {"rsp"}, "accepted") /\ Carried("answered", "peer", {}, "accepted")
    BY L2cMoves
  <2> HIDE DEF m, p
  <2>5. p = chan[c].by
    BY DEF p
  <2> QED BY <1>1, <1>3, <2>1, <2>2, <2>4, <2>5, L2cTellsAsker
<1>4. CASE chan[c].phase = "refused"
  <2> DEFINE m == Msg("CONN_RSP", c, FALSE)
  <2>1. Becomes(c, "over") /\ Told(p, m) /\ "over" \in Phases
    BY <1>4 DEF L2cWorks, L2cCarries, Phases
  <2>2. m \in Msgs /\ m.cid = c /\ Tag(m) = "rsp_fail"
    BY MsgTags DEF Types
  <2>4. Carried("refused", "asker", {"rsp_fail"}, "over") /\ Carried("refused", "peer", {}, "over")
    BY L2cMoves
  <2> HIDE DEF m, p
  <2>5. p = chan[c].by
    BY DEF p
  <2> QED BY <1>1, <1>4, <2>1, <2>2, <2>4, <2>5, L2cTellsAsker
<1>5. CASE chan[c].phase = "accepted"
  <2> DEFINE m == Msg("CONN_CMPL", c, TRUE)
             n == Msg("CONN_CMPL", c, TRUE)
  <2>1. Becomes(c, "open") /\ BothTold(p, m, n) /\ "open" \in Phases
    BY <1>5 DEF L2cWorks, L2cCarries, Phases
  <2>2. m \in Msgs /\ m.cid = c /\ Tag(m) = "cmpl"
    BY MsgTags DEF Types
  <2>3. n \in Msgs /\ n.cid = c /\ Tag(n) = "cmpl"
    BY MsgTags DEF Types
  <2>4. Carried("accepted", "asker", {"cmpl"}, "open") /\ Carried("accepted", "peer", {"cmpl"}, "open")
    BY L2cMoves
  <2> HIDE DEF m, n, p
  <2>5. p = chan[c].by
    BY DEF p
  <2> QED BY <1>1, <1>5, <2>1, <2>2, <2>3, <2>4, <2>5, L2cTellsBoth
<1>6. CASE chan[c].phase = "closed"
  <2> DEFINE m == Msg("DISCONN_RSP", c, TRUE)
  <2>1. Becomes(c, "over") /\ Told(p, m) /\ "over" \in Phases
    BY <1>6 DEF L2cWorks, L2cCarries, Phases
  <2>2. m \in Msgs /\ m.cid = c /\ Tag(m) = "disc_rsp"
    BY MsgTags DEF Types
  <2>4. Carried("closed", "asker", {"disc_rsp"}, "over") /\ Carried("closed", "peer", {}, "over")
    BY L2cMoves
  <2> HIDE DEF m, p
  <2>5. p = chan[c].by
    BY DEF p
  <2> QED BY <1>1, <1>6, <2>1, <2>2, <2>4, <2>5, L2cTellsAsker
<1> QED BY <1>2, <1>3, <1>4, <1>5, <1>6 DEF L2cWorks

\* L2CAP cannot open the channel.
LEMMA EngagedL2cFails == Basic /\ Engaged /\ L2cFails => Engaged'
<1> SUFFICES ASSUME Basic, Engaged, L2cFails PROVE Engaged'
  OBVIOUS
<1>1. PICK c \in Channels :
        \/ chan[c].phase = "asked" /\ Becomes(c, "over") /\ Told(chan[c].by, Msg("CONN_RSP", c, FALSE))
        \/ chan[c].phase = "accepted" /\ Becomes(c, "over") /\ BothTold(chan[c].by, Msg("CONN_CMPL", c, FALSE), Msg("CONN_CMPL", c, FALSE))
  BY DEF L2cFails
<1> DEFINE p == chan[c].by
<1>2. p \in Buds /\ UNCHANGED <<link, up>>
  BY DEF Basic, TypeOK, L2cFails
<1>3. CASE chan[c].phase = "asked" /\ Becomes(c, "over") /\ Told(chan[c].by, Msg("CONN_RSP", c, FALSE))
  <2> DEFINE m == Msg("CONN_RSP", c, FALSE)
  <2>1. Becomes(c, "over") /\ Told(p, m) /\ "over" \in Phases
    BY <1>3 DEF Phases
  <2>2. m \in Msgs /\ m.cid = c /\ Tag(m) = "rsp_fail"
    BY MsgTags DEF Types
  <2>4. Carried("asked", "asker", {"rsp_fail"}, "over") /\ Carried("asked", "peer", {}, "over")
    BY L2cMoves
  <2> HIDE DEF m, p
  <2>5. p = chan[c].by
    BY DEF p
  <2> QED BY <1>2, <1>3, <2>1, <2>2, <2>4, <2>5, L2cTellsAsker
<1>4. CASE chan[c].phase = "accepted" /\ Becomes(c, "over") /\ BothTold(chan[c].by, Msg("CONN_CMPL", c, FALSE), Msg("CONN_CMPL", c, FALSE))
  <2> DEFINE m == Msg("CONN_CMPL", c, FALSE)
             n == Msg("CONN_CMPL", c, FALSE)
  <2>1. Becomes(c, "over") /\ BothTold(p, m, n) /\ "over" \in Phases
    BY <1>4 DEF Phases
  <2>2. m \in Msgs /\ m.cid = c /\ Tag(m) = "cmpl_fail"
    BY MsgTags DEF Types
  <2>3. n \in Msgs /\ n.cid = c /\ Tag(n) = "cmpl_fail"
    BY MsgTags DEF Types
  <2>4. Carried("accepted", "asker", {"cmpl_fail"}, "over") /\ Carried("accepted", "peer", {"cmpl_fail"}, "over")
    BY L2cMoves
  <2> HIDE DEF m, n, p
  <2>5. p = chan[c].by
    BY DEF p
  <2> QED BY <1>2, <1>4, <2>1, <2>2, <2>3, <2>4, <2>5, L2cTellsBoth
<1> QED BY <1>1, <1>3, <1>4

\* The ACL link is lost.
LEMMA EngagedAclLost == Basic /\ Engaged /\ AclLost => Engaged'
<1> SUFFICES ASSUME Basic, Engaged, AclLost PROVE Engaged'
  OBVIOUS
<1>1. PICK c \in Channels :
        \/ chan[c].phase = "asked" /\ Becomes(c, "over") /\ Told(chan[c].by, Msg("CONN_RSP", c, FALSE))
        \/ chan[c].phase = "offered" /\ Becomes(c, "over") /\ BothTold(chan[c].by, Msg("CONN_RSP", c, FALSE), Msg("DISCONN_IND", c, TRUE))
        \/ chan[c].phase = "answered" /\ Becomes(c, "over") /\ BothTold(chan[c].by, Msg("CONN_RSP", c, FALSE), Msg("DISCONN_IND", c, TRUE))
        \/ chan[c].phase = "accepted" /\ Becomes(c, "over") /\ BothTold(chan[c].by, Msg("DISCONN_IND", c, TRUE), Msg("DISCONN_IND", c, TRUE))
        \/ chan[c].phase = "open" /\ Becomes(c, "over") /\ BothTold(chan[c].by, Msg("DISCONN_IND", c, TRUE), Msg("DISCONN_IND", c, TRUE))
        \/ chan[c].phase = "closing" /\ Becomes(c, "over") /\ Told(chan[c].by, Msg("DISCONN_RSP", c, TRUE))
  BY DEF AclLost
<1> DEFINE p == chan[c].by
<1>2. p \in Buds /\ UNCHANGED <<link, up>>
  BY DEF Basic, TypeOK, AclLost
<1>3. CASE chan[c].phase = "asked" /\ Becomes(c, "over") /\ Told(chan[c].by, Msg("CONN_RSP", c, FALSE))
  <2> DEFINE m == Msg("CONN_RSP", c, FALSE)
  <2>1. Becomes(c, "over") /\ Told(p, m) /\ "over" \in Phases
    BY <1>3 DEF Phases
  <2>2. m \in Msgs /\ m.cid = c /\ Tag(m) = "rsp_fail"
    BY MsgTags DEF Types
  <2>4. Carried("asked", "asker", {"rsp_fail"}, "over") /\ Carried("asked", "peer", {}, "over")
    BY L2cMoves
  <2> HIDE DEF m, p
  <2>5. p = chan[c].by
    BY DEF p
  <2> QED BY <1>2, <1>3, <2>1, <2>2, <2>4, <2>5, L2cTellsAsker
<1>4. CASE chan[c].phase = "offered" /\ Becomes(c, "over") /\ BothTold(chan[c].by, Msg("CONN_RSP", c, FALSE), Msg("DISCONN_IND", c, TRUE))
  <2> DEFINE m == Msg("CONN_RSP", c, FALSE)
             n == Msg("DISCONN_IND", c, TRUE)
  <2>1. Becomes(c, "over") /\ BothTold(p, m, n) /\ "over" \in Phases
    BY <1>4 DEF Phases
  <2>2. m \in Msgs /\ m.cid = c /\ Tag(m) = "rsp_fail"
    BY MsgTags DEF Types
  <2>3. n \in Msgs /\ n.cid = c /\ Tag(n) = "disc"
    BY MsgTags DEF Types
  <2>4. Carried("offered", "asker", {"rsp_fail"}, "over") /\ Carried("offered", "peer", {"disc"}, "over")
    BY L2cMoves
  <2> HIDE DEF m, n, p
  <2>5. p = chan[c].by
    BY DEF p
  <2> QED BY <1>2, <1>4, <2>1, <2>2, <2>3, <2>4, <2>5, L2cTellsBoth
<1>5. CASE chan[c].phase = "answered" /\ Becomes(c, "over") /\ BothTold(chan[c].by, Msg("CONN_RSP", c, FALSE), Msg("DISCONN_IND", c, TRUE))
  <2> DEFINE m == Msg("CONN_RSP", c, FALSE)
             n == Msg("DISCONN_IND", c, TRUE)
  <2>1. Becomes(c, "over") /\ BothTold(p, m, n) /\ "over" \in Phases
    BY <1>5 DEF Phases
  <2>2. m \in Msgs /\ m.cid = c /\ Tag(m) = "rsp_fail"
    BY MsgTags DEF Types
  <2>3. n \in Msgs /\ n.cid = c /\ Tag(n) = "disc"
    BY MsgTags DEF Types
  <2>4. Carried("answered", "asker", {"rsp_fail"}, "over") /\ Carried("answered", "peer", {"disc"}, "over")
    BY L2cMoves
  <2> HIDE DEF m, n, p
  <2>5. p = chan[c].by
    BY DEF p
  <2> QED BY <1>2, <1>5, <2>1, <2>2, <2>3, <2>4, <2>5, L2cTellsBoth
<1>6. CASE chan[c].phase = "accepted" /\ Becomes(c, "over") /\ BothTold(chan[c].by, Msg("DISCONN_IND", c, TRUE), Msg("DISCONN_IND", c, TRUE))
  <2> DEFINE m == Msg("DISCONN_IND", c, TRUE)
             n == Msg("DISCONN_IND", c, TRUE)
  <2>1. Becomes(c, "over") /\ BothTold(p, m, n) /\ "over" \in Phases
    BY <1>6 DEF Phases
  <2>2. m \in Msgs /\ m.cid = c /\ Tag(m) = "disc"
    BY MsgTags DEF Types
  <2>3. n \in Msgs /\ n.cid = c /\ Tag(n) = "disc"
    BY MsgTags DEF Types
  <2>4. Carried("accepted", "asker", {"disc"}, "over") /\ Carried("accepted", "peer", {"disc"}, "over")
    BY L2cMoves
  <2> HIDE DEF m, n, p
  <2>5. p = chan[c].by
    BY DEF p
  <2> QED BY <1>2, <1>6, <2>1, <2>2, <2>3, <2>4, <2>5, L2cTellsBoth
<1>7. CASE chan[c].phase = "open" /\ Becomes(c, "over") /\ BothTold(chan[c].by, Msg("DISCONN_IND", c, TRUE), Msg("DISCONN_IND", c, TRUE))
  <2> DEFINE m == Msg("DISCONN_IND", c, TRUE)
             n == Msg("DISCONN_IND", c, TRUE)
  <2>1. Becomes(c, "over") /\ BothTold(p, m, n) /\ "over" \in Phases
    BY <1>7 DEF Phases
  <2>2. m \in Msgs /\ m.cid = c /\ Tag(m) = "disc"
    BY MsgTags DEF Types
  <2>3. n \in Msgs /\ n.cid = c /\ Tag(n) = "disc"
    BY MsgTags DEF Types
  <2>4. Carried("open", "asker", {"disc"}, "over") /\ Carried("open", "peer", {"disc"}, "over")
    BY L2cMoves
  <2> HIDE DEF m, n, p
  <2>5. p = chan[c].by
    BY DEF p
  <2> QED BY <1>2, <1>7, <2>1, <2>2, <2>3, <2>4, <2>5, L2cTellsBoth
<1>8. CASE chan[c].phase = "closing" /\ Becomes(c, "over") /\ Told(chan[c].by, Msg("DISCONN_RSP", c, TRUE))
  <2> DEFINE m == Msg("DISCONN_RSP", c, TRUE)
  <2>1. Becomes(c, "over") /\ Told(p, m) /\ "over" \in Phases
    BY <1>8 DEF Phases
  <2>2. m \in Msgs /\ m.cid = c /\ Tag(m) = "disc_rsp"
    BY MsgTags DEF Types
  <2>4. Carried("closing", "asker", {"disc_rsp"}, "over") /\ Carried("closing", "peer", {}, "over")
    BY L2cMoves
  <2> HIDE DEF m, p
  <2>5. p = chan[c].by
    BY DEF p
  <2> QED BY <1>2, <1>8, <2>1, <2>2, <2>4, <2>5, L2cTellsAsker
<1> QED BY <1>1, <1>3, <1>4, <1>5, <1>6, <1>7, <1>8

-----------------------------------------------------------------------------
(* The buds.                                                               *)

\* bt_rdtp_connect_req: the bud without a link awaits one channel from now on.
LEMMA EngagedConnect == Basic /\ Engaged /\ bt_rdtp_connect_req => Engaged'
<1> SUFFICES ASSUME Basic, Engaged, bt_rdtp_connect_req PROVE Engaged'
  OBVIOUS
<1>1. PICK p \in Buds, c \in Channels :
        /\ link[p].state = "NONE" /\ Free(c)
        /\ link' = [link EXCEPT ![p] = [state |-> "CONNECTING", cid |-> NoCid]]
        /\ chan' = [chan EXCEPT ![c] = [phase |-> "asked", by |-> p]]
        /\ UNCHANGED <<up, evq>>
  BY DEF bt_rdtp_connect_req
<1>2. /\ link[p].cid = NoCid /\ link'[p] = [state |-> "CONNECTING", cid |-> NoCid]
      /\ \A b \in Buds : b # p => link'[b] = link[b]
      /\ chan'[c] = [phase |-> "asked", by |-> p]
      /\ \A d \in Channels : d # c => chan'[d] = chan[d]
  BY <1>1 DEF Basic, TypeOK
<1>3. \A b \in Buds : Tags(evq[b], c) = {} /\ link[b].cid # c /\ chan[c].phase = "over"
  BY <1>1 DEF Free, Tags
<1>4. \A b \in Buds, d \in Channels : View(link'[b], d) = View(link[b], d)
  BY <1>2, ChannelFacts DEF View
<1>5. \A b \in Buds : <<View(link'[b], c), Tags(evq'[b], c)>> \in Views(chan'[c].phase, Role(chan'[c], b))
  <2> SUFFICES ASSUME NEW b \in Buds
               PROVE  <<View(link'[b], c), Tags(evq'[b], c)>> \in Views(chan'[c].phase, Role(chan'[c], b))
    OBVIOUS
  <2>1. View(link'[b], c) = "NONE" /\ Tags(evq'[b], c) = {} /\ chan'[c].phase = "asked"
    BY <1>1, <1>2, <1>3, <1>4 DEF View
  <2>2. \A role \in Roles : <<"NONE", {}>> \in Views("asked", role)
    BY DEF Views, Pending, Role, OtherRole, Roles
  <2>3. Role(chan'[c], b) \in Roles
    BY DEF Role, Roles
  <2> QED BY <2>1, <2>2, <2>3
<1>6. /\ QueuesOrdered' /\ ViewsOK'
      /\ \A b \in Buds, d \in Channels : d # c => (Awaits(b, d)' <=> Awaits(b, d))
  <2>1. \A b \in Buds : Ordered(evq'[b])
    BY <1>1 DEF Engaged, QueuesOrdered
  <2>2. \A b \in Buds, d \in Channels : d # c =>
               /\ chan'[d] = chan[d]
               /\ View(link'[b], d) = View(link[b], d)
               /\ Tags(evq'[b], d) = Tags(evq[b], d)
    BY <1>1, <1>2, <1>4
  <2> QED BY <1>5, <2>1, <2>2, ChannelStep
<1>7. LinksOK'
  BY <1>2 DEF Engaged, LinksOK
<1>8. \A d \in Channels : ~Awaits(p, d)
  BY <1>1 DEF Engaged, AwaitsOK, Waiting
<1>9. Waiting(p)' /\ Awaits(p, c)' /\ \A d \in Channels : d # c => ~Awaits(p, d)'
  BY <1>2, <1>6, <1>8 DEF Waiting, Awaits, Awaited, Pending, Role
<1>10. \A b \in Buds : b # p => /\ (Waiting(b)' <=> Waiting(b))
                                /\ \A d \in Channels : (Awaits(b, d)' <=> Awaits(b, d))
  <2> SUFFICES ASSUME NEW b \in Buds, b # p
               PROVE  (Waiting(b)' <=> Waiting(b)) /\ (Awaits(b, c)' <=> Awaits(b, c))
    BY <1>6
  <2>1. (Awaits(b, c)' <=> Awaits(b, c))
    BY <1>1, <1>2, <1>3 DEF Awaits, Awaited, Pending, Role
  <2>2. (Waiting(b)' <=> Waiting(b))
    BY <1>2 DEF Waiting
  <2> QED BY <2>1, <2>2
<1>11. AwaitsOK'
  <2> SUFFICES ASSUME NEW b \in Buds
               PROVE  /\ \A d \in Channels : Awaits(b, d)' => Waiting(b)'
                      /\ \A d, e \in Channels : Awaits(b, d)' /\ Awaits(b, e)' => d = e
                      /\ Waiting(b)' => \E d \in Channels : Awaits(b, d)'
    BY DEF AwaitsOK
  <2>1. CASE b = p
    BY <1>9, <2>1
  <2>2. CASE b # p
    BY <1>10, <2>2 DEF Engaged, AwaitsOK
  <2> QED BY <2>1, <2>2
<1> QED BY <1>6, <1>7, <1>11 DEF Engaged

\* Nothing said and nothing moved.
LEMMA CarriedSame == \A phase, role : Carried(phase, role, {}, phase)
BY DEF Carried

\* Bud p handles its first message, t, which is about channel c.
LEMMA HandleKeeps ==
    ASSUME Engaged, NEW p \in Buds, NEW c \in Channels, NEW t, NEW v, NEW to,
           link'[Peer(p)] = link[Peer(p)], evq'[Peer(p)] = evq[Peer(p)],
           Ordered(evq'[p]), Tags(evq'[p], c) = Tags(evq[p], c) \ {t},
           \A d \in Channels : d # c => /\ Tags(evq'[p], d) = Tags(evq[p], d)
                                        /\ View(link'[p], d) = View(link[p], d)
                                        /\ chan'[d] = chan[d],
           chan'[c].phase = to, chan'[c].by = chan[c].by,
           View(link'[p], c) = v,
           <<v, Tags(evq[p], c) \ {t}>> \in Views(to, Role(chan[c], p)),
           Carried(chan[c].phase, Role(chan[c], Peer(p)), {}, to),
           LinksOK',
           \/ (Awaits(p, c)' <=> Awaits(p, c)) /\ (Waiting(p)' <=> Waiting(p))
           \/ Awaits(p, c) /\ ~Awaits(p, c)' /\ ~Waiting(p)'
    PROVE  Engaged'
<1> DEFINE q == Peer(p)
<1>1. q \in Buds /\ q # p /\ Buds = {p, q}
  BY PeerFacts
<1>2. Hears(q, c, {})
  BY <1>1, HearsNone
<1>3. /\ <<View(link'[q], c), Tags(evq'[q], c)>> \in Views(chan'[c].phase, Role(chan'[c], q))
      /\ (Awaits(q, c)' <=> Awaits(q, c)) /\ (Waiting(q)' <=> Waiting(q))
  <2> DEFINE vq == View(link[q], c)
             ts == Tags(evq[q], c)
             role == Role(chan[c], q)
  <2>1. <<vq, ts>> \in Views(chan[c].phase, role) /\ Carried(chan[c].phase, role, {}, to)
    BY <1>1 DEF Engaged, ViewsOK
  <2>2. View(link'[q], c) = vq /\ Tags(evq'[q], c) = ts /\ Role(chan'[c], q) = role
    BY DEF Role, Roles
  <2> HIDE DEF vq, ts, role
  <2>3. ts \cup {} = ts
    OBVIOUS
  <2>4. <<vq, ts>> \in Views(to, role) /\ (Awaited(to, role, ts) <=> Awaited(chan[c].phase, role, ts))
    BY <2>1, <2>3 DEF Carried
  <2>5. (Awaits(q, c)' <=> Awaits(q, c))
    BY <2>2, <2>4 DEF Awaits, role, ts
  <2>6. (Waiting(q)' <=> Waiting(q))
    BY DEF Waiting
  <2> QED BY <2>2, <2>4, <2>5, <2>6
<1>4. /\ QueuesOrdered' /\ ViewsOK'
      /\ \A b \in Buds, d \in Channels : d # c => (Awaits(b, d)' <=> Awaits(b, d))
  <2>1. \A b \in Buds : Ordered(evq'[b])
    BY <1>1, <1>2 DEF Hears
  <2>2. \A b \in Buds, d \in Channels : d # c =>
               /\ chan'[d] = chan[d]
               /\ View(link'[b], d) = View(link[b], d)
               /\ Tags(evq'[b], d) = Tags(evq[b], d)
    BY <1>1
  <2>3. \A b \in Buds : <<View(link'[b], c), Tags(evq'[b], c)>> \in Views(chan'[c].phase, Role(chan'[c], b))
    <3>1. Role(chan'[c], p) = Role(chan[c], p)
      BY DEF Role
    <3>2. <<View(link'[p], c), Tags(evq'[p], c)>> \in Views(chan'[c].phase, Role(chan'[c], p))
      BY <3>1
    <3> QED BY <1>1, <1>3, <3>2
  <2> QED BY <2>1, <2>2, <2>3, ChannelStep
<1> HIDE DEF q
<1>5. AwaitsOK'
  <2>1. CASE (Awaits(p, c)' <=> Awaits(p, c)) /\ (Waiting(p)' <=> Waiting(p))
    <3>1. \A b \in Buds : (Waiting(b)' <=> Waiting(b))
      BY <1>1, <1>3, <2>1
    <3>2. \A b \in Buds, d \in Channels : (Awaits(b, d)' <=> Awaits(b, d))
      BY <1>1, <1>3, <1>4, <2>1
    <3> QED BY <3>1, <3>2, AwaitsSame DEF Engaged
  <2>2. CASE Awaits(p, c) /\ ~Awaits(p, c)' /\ ~Waiting(p)'
    <3>1. \A d \in Channels : ~Awaits(p, d)'
      BY <1>4, <2>2 DEF Engaged, AwaitsOK
    <3>2. \A d \in Channels : (Awaits(q, d)' <=> Awaits(q, d))
      BY <1>1, <1>3, <1>4
    <3> SUFFICES ASSUME NEW b \in Buds
                 PROVE  /\ \A d \in Channels : Awaits(b, d)' => Waiting(b)'
                        /\ \A d, e \in Channels : Awaits(b, d)' /\ Awaits(b, e)' => d = e
                        /\ Waiting(b)' => \E d \in Channels : Awaits(b, d)'
      BY DEF AwaitsOK
    <3>3. CASE b = p
      BY <2>2, <3>1, <3>3
    <3>4. CASE b = q
      BY <1>3, <3>2, <3>4 DEF Engaged, AwaitsOK
    <3> QED BY <1>1, <3>3, <3>4
  <2> QED BY <2>1, <2>2
<1> QED BY <1>4, <1>5 DEF Engaged

\* What is known when bt_rdtp_cback has read a message.
LEMMA ReadsFacts ==
    ASSUME Basic, Engaged, NEW p \in Buds, NEW m, NEW ts, NEW phase, NEW role, Reads(p, m, ts, phase, role)
    PROVE  /\ m \in Msgs /\ m.cid \in Channels /\ m.cid # NoCid
           /\ phase \in Phases /\ role \in Roles /\ chan[m.cid].by \in Buds
           /\ Role(chan[m.cid], Peer(p)) = OtherRole(role)
           /\ <<View(link[p], m.cid), ts>> \in Views(phase, role)
           /\ First(Tag(m), ts)
           /\ (Awaits(p, m.cid) <=> Awaited(phase, role, ts))
           /\ Awaits(p, m.cid) => Waiting(p)
           /\ evq'[Peer(p)] = evq[Peer(p)]
           /\ Ordered(evq'[p]) /\ Tags(evq'[p], m.cid) = ts \ {Tag(m)}
           /\ \A d : d # m.cid => Tags(evq'[p], d) = Tags(evq[p], d)
<1>1. evq[p] # <<>> /\ evq[p] \in Seq(Msgs) /\ Ordered(evq[p]) /\ m = Head(evq[p])
  BY DEF Reads, Basic, QueuesTyped, Engaged, QueuesOrdered
<1>2. evq'[p] = Tail(evq[p]) /\ evq'[Peer(p)] = evq[Peer(p)]
  BY PeerFacts DEF Reads, Basic, QueuesTyped
<1>3. ts = Tags(evq[p], m.cid) /\ phase = chan[m.cid].phase /\ role = Role(chan[m.cid], p)
  BY DEF Reads, Role, OtherRole, Roles
<1>4. /\ m \in Msgs /\ Ordered(evq'[p]) /\ Tags(evq'[p], m.cid) = ts \ {Tag(m)}
      /\ \A d : d # m.cid => Tags(evq'[p], d) = Tags(evq[p], d)
  BY <1>1, <1>2, <1>3, Taken
<1>5. First(Tag(m), ts)
  BY <1>1, <1>3, Taken DEF First
<1>6. m.cid \in Channels /\ m.cid # NoCid
  BY <1>4, ChannelFacts DEF Msgs
<1>7. phase \in Phases /\ role \in Roles /\ chan[m.cid].by \in Buds
  BY <1>3, <1>6 DEF Basic, TypeOK, Phases, Role, OtherRole, Roles
<1>8. Role(chan[m.cid], Peer(p)) = OtherRole(role)
  BY <1>3, <1>7, PeerFacts DEF Role, OtherRole
<1>9. <<View(link[p], m.cid), ts>> \in Views(phase, role)
  BY <1>3, <1>6 DEF Engaged, ViewsOK
<1>10. (Awaits(p, m.cid) <=> Awaited(phase, role, ts)) /\ (Awaits(p, m.cid) => Waiting(p))
  BY <1>3, <1>6 DEF Awaits, Engaged, AwaitsOK
<1> QED BY <1>2, <1>4, <1>5, <1>6, <1>7, <1>8, <1>9, <1>10

\* What is left to show of each handler.
LEMMA HandledKeeps ==
    ASSUME Basic, Engaged, NEW p \in Buds, NEW m, NEW ts, NEW phase, NEW role, Reads(p, m, ts, phase, role),
           NEW v, NEW to,
           link'[Peer(p)] = link[Peer(p)],
           View(link'[p], m.cid) = v,
           \A d \in Channels : d # m.cid => View(link'[p], d) = View(link[p], d) /\ chan'[d] = chan[d],
           chan'[m.cid].phase = to, chan'[m.cid].by = chan[m.cid].by,
           <<v, ts \ {Tag(m)}>> \in Views(to, role),
           Carried(phase, OtherRole(role), {}, to),
           link'[p].cid = NoCid => link'[p].state \in {"NONE", "CONNECTING"},
           \/ /\ (Awaited(to, role, ts \ {Tag(m)}) <=> Awaited(phase, role, ts))
              /\ (Waiting(p)' <=> Waiting(p))
           \/ Awaits(p, m.cid) /\ ~Awaited(to, role, ts \ {Tag(m)}) /\ ~Waiting(p)'
    PROVE  Engaged'
<1> DEFINE c == m.cid
<1>1. c \in Channels /\ evq'[Peer(p)] = evq[Peer(p)]
  BY ReadsFacts
<1>2. Role(chan[c], Peer(p)) = OtherRole(role)
  <2>1. chan[c].by \in Buds
    BY ReadsFacts
  <2>2. role = Role(chan[c], p)
    BY DEF Reads
  <2> QED BY <2>1, <2>2, PeerFacts DEF Role, OtherRole
<1>3. Ordered(evq'[p]) /\ Tags(evq'[p], c) = ts \ {Tag(m)}
  BY ReadsFacts
<1>4. \A d : d # c => Tags(evq'[p], d) = Tags(evq[p], d)
  BY ReadsFacts
<1>5. Awaits(p, c) <=> Awaited(phase, role, ts)
  BY ReadsFacts
<1>6. ts = Tags(evq[p], c) /\ phase = chan[c].phase /\ role = Role(chan[c], p)
  BY DEF Reads
<1>7. LinksOK'
  BY PeerFacts DEF Engaged, LinksOK
<1>8. Awaits(p, c)' <=> Awaited(to, role, ts \ {Tag(m)})
  <2>1. Role(chan'[c], p) = role
    BY <1>6 DEF Role
  <2> QED BY <1>3, <2>1 DEF Awaits
<1> HIDE DEF c
<1>9. Carried(chan[c].phase, Role(chan[c], Peer(p)), {}, to)
  BY <1>2, <1>6
<1>10. \/ (Awaits(p, c)' <=> Awaits(p, c)) /\ (Waiting(p)' <=> Waiting(p))
       \/ Awaits(p, c) /\ ~Awaits(p, c)' /\ ~Waiting(p)'
  BY <1>5, <1>8 DEF c
<1>11. Tags(evq'[p], c) = Tags(evq[p], c) \ {Tag(m)}
  BY <1>3, <1>6
<1>12. <<v, Tags(evq[p], c) \ {Tag(m)}>> \in Views(to, Role(chan[c], p))
  BY <1>6
<1>13. \A d \in Channels : d # c => /\ Tags(evq'[p], d) = Tags(evq[p], d)
                                   /\ View(link'[p], d) = View(link[p], d)
                                   /\ chan'[d] = chan[d]
  BY <1>4 DEF c
<1>14. chan'[c].phase = to /\ chan'[c].by = chan[c].by /\ View(link'[p], c) = v
  BY DEF c
<1> QED BY <1>1, <1>3, <1>7, <1>9, <1>10, <1>11, <1>12, <1>13, <1>14, HandleKeeps

\* bt_rdtp_handle_conn_ind: the link takes the channel or the channel is refused.
LEMMA EngagedConnInd ==
    ASSUME Basic, Engaged, NEW p \in Buds, NEW m, NEW ts, NEW phase, NEW role, Reads(p, m, ts, phase, role),
           Tag(m) = "ind", bt_rdtp_handle_conn_ind(p, m.cid)
    PROVE  Engaged'
<1> DEFINE c == m.cid
           to == IF phase # "offered" THEN phase
                 ELSE IF link[p].state = "NONE" THEN "answered" ELSE "refused"
<1>1. /\ c \in Channels /\ c # NoCid /\ phase \in Phases /\ role \in Roles
      /\ <<View(link[p], c), ts>> \in Views(phase, role)
  BY ReadsFacts
<1>9. First("ind", ts)
  <2>1. First(Tag(m), ts)
    BY ReadsFacts
  <2> QED BY <2>1
<1>10. phase = chan[c].phase
  BY DEF Reads
<1>2. /\ phase \in {"offered", "over"} /\ (phase = "offered" => role = "peer")
      /\ View(link[p], c) = "NONE"
      /\ <<"CONNECTING", ts \ {"ind"}>> \in Views(IF phase = "offered" THEN "answered" ELSE "over", role)
      /\ <<"NONE", ts \ {"ind"}>> \in Views(IF phase = "offered" THEN "refused" ELSE "over", role)
      /\ (ts \ {"ind"}) \cap {"rsp", "rsp_fail"} = ts \cap {"rsp", "rsp_fail"}
  BY <1>1, <1>9, HandledInd
<1>3. (Awaited(to, role, ts \ {"ind"}) <=> Awaited(phase, role, ts))
  BY <1>2 DEF Awaited, Pending
<1>4. chan'[c].phase = to /\ chan'[c].by = chan[c].by /\ \A d \in Channels : d # c => chan'[d] = chan[d]
  <2>1. CASE phase = "offered"
    <3>1. Becomes(c, to) /\ to \in Phases
      BY <1>1, <1>10, <2>1 DEF bt_rdtp_handle_conn_ind, In, Phases
    <3> QED BY <1>1, <3>1, BecomesTyped DEF Basic
  <2>2. CASE phase # "offered"
    <3>1. UNCHANGED chan
      BY <1>1, <1>10, <2>2 DEF bt_rdtp_handle_conn_ind, In
    <3> QED BY <1>1, <1>10, <2>2, <3>1
  <2> QED BY <2>1, <2>2
<1>5. Carried(phase, OtherRole(role), {}, to)
  <2>1. Carried("offered", "asker", {}, "answered") /\ Carried("offered", "asker", {}, "refused")
    BY DEF Carried, Awaited, Views, Pending, Rank
  <2>2. CASE phase = "offered"
    <3>1. OtherRole(role) = "asker" /\ to \in {"answered", "refused"}
      BY <1>2, <2>2 DEF Role, OtherRole
    <3> QED BY <2>1, <2>2, <3>1
  <2>3. CASE phase # "offered"
    BY <2>3, CarriedSame
  <2> QED BY <2>2, <2>3
<1>6. Peer(p) \in Buds /\ Peer(p) # p
  BY PeerFacts
<1>7. CASE link[p].state = "NONE"
  <2>1. link' = [link EXCEPT ![p] = [state |-> "CONNECTING", cid |-> c]]
    BY <1>7 DEF bt_rdtp_handle_conn_ind
  <2>2. /\ link'[p] = [state |-> "CONNECTING", cid |-> c] /\ link'[Peer(p)] = link[Peer(p)]
        /\ link[p].cid = NoCid
    BY <1>6, <1>7, <2>1 DEF Basic, TypeOK
  <2>3. View(link'[p], c) = "CONNECTING" /\ \A d \in Channels : d # c => View(link'[p], d) = View(link[p], d)
    BY <2>2, ChannelFacts DEF View
  <2>4. <<"CONNECTING", ts \ {"ind"}>> \in Views(to, role)
    BY <1>2, <1>7
  <2>5. (Waiting(p)' <=> Waiting(p)) /\ link'[p].cid # NoCid
    BY <1>1, <1>7, <2>2 DEF Waiting
  <2> HIDE DEF to, c
  <2> QED BY <1>3, <1>4, <1>5, <2>2, <2>3, <2>4, <2>5, HandledKeeps DEF c
<1>8. CASE link[p].state # "NONE"
  <2>1. link' = link
    BY <1>8 DEF bt_rdtp_handle_conn_ind
  <2>2. <<"NONE", ts \ {"ind"}>> \in Views(to, role)
    BY <1>2, <1>8
  <2>3. (Waiting(p)' <=> Waiting(p)) /\ (link'[p].cid = NoCid => link'[p].state \in {"NONE", "CONNECTING"})
    BY <2>1 DEF Waiting, Engaged, LinksOK
  <2> HIDE DEF to, c
  <2> QED BY <1>2, <1>3, <1>4, <1>5, <2>1, <2>2, <2>3, HandledKeeps DEF c
<1> QED BY <1>7, <1>8

\* The other messages change only the link of the bud.
LEMMA LinkChanges ==
    ASSUME Basic, Engaged, NEW p \in Buds, NEW m, NEW ts, NEW phase, NEW role, Reads(p, m, ts, phase, role),
           NEW l, link' = [link EXCEPT ![p] = l], chan' = chan,
           l.cid = NoCid => l.state \in {"NONE", "CONNECTING"},
           \A d \in Channels : d # m.cid => View(l, d) = View(link[p], d),
           <<View(l, m.cid), ts \ {Tag(m)}>> \in Views(phase, role),
           \/ /\ (Awaited(phase, role, ts \ {Tag(m)}) <=> Awaited(phase, role, ts))
              /\ (l.state = "CONNECTING" /\ l.cid = NoCid) <=> Waiting(p)
           \/ Awaits(p, m.cid) /\ ~Awaited(phase, role, ts \ {Tag(m)}) /\ l.cid # NoCid
           \/ Awaits(p, m.cid) /\ ~Awaited(phase, role, ts \ {Tag(m)}) /\ l.state = "NONE"
    PROVE  Engaged'
<1>1. link'[p] = l /\ link'[Peer(p)] = link[Peer(p)]
  BY PeerFacts DEF Basic, TypeOK
<1>2. phase = chan[m.cid].phase
  BY DEF Reads
<1>3. Waiting(p)' <=> l.state = "CONNECTING" /\ l.cid = NoCid
  BY <1>1 DEF Waiting
<1>4. Carried(phase, OtherRole(role), {}, phase)
  BY CarriedSame
<1>5. \/ /\ (Awaited(phase, role, ts \ {Tag(m)}) <=> Awaited(phase, role, ts))
         /\ (Waiting(p)' <=> Waiting(p))
      \/ Awaits(p, m.cid) /\ ~Awaited(phase, role, ts \ {Tag(m)}) /\ ~Waiting(p)'
  BY <1>3
<1>6. \A d \in Channels : d # m.cid => View(link'[p], d) = View(link[p], d) /\ chan'[d] = chan[d]
  BY <1>1
<1>7. /\ chan'[m.cid].phase = phase /\ chan'[m.cid].by = chan[m.cid].by
      /\ View(link'[p], m.cid) = View(l, m.cid)
      /\ link'[p].cid = NoCid => link'[p].state \in {"NONE", "CONNECTING"}
  BY <1>1, <1>2
<1> QED BY <1>1, <1>4, <1>5, <1>6, <1>7, HandledKeeps

\* bt_rdtp_handle_conn_rsp: the link that waits gets its channel, or is freed.
LEMMA EngagedConnRsp ==
    ASSUME Basic, Engaged, NEW p \in Buds, NEW m, NEW ts, NEW phase, NEW role, Reads(p, m, ts, phase, role),
           NEW ok \in BOOLEAN, Tag(m) = IF ok THEN "rsp" ELSE "rsp_fail",
           bt_rdtp_handle_conn_rsp(p, m.cid, ok)
    PROVE  Engaged'
<1> DEFINE c == m.cid
<1>1. c \in Channels /\ c # NoCid /\ phase \in Phases /\ role \in Roles
  BY ReadsFacts
<1>2. <<View(link[p], c), ts>> \in Views(phase, role)
  BY ReadsFacts
<1>3. First(Tag(m), ts)
  BY ReadsFacts
<1>4. Awaits(p, c) <=> Awaited(phase, role, ts)
  BY ReadsFacts
<1>5. Awaits(p, c) => Waiting(p)
  BY ReadsFacts
<1>6. Awaits(p, c) /\ link[p].state = "CONNECTING" /\ link[p].cid = NoCid
  <2>1. Tag(m) \in ts \cap {"rsp", "rsp_fail"}
    BY <1>3 DEF First
  <2>2. Awaited(phase, role, ts)
    BY <2>1 DEF Awaited
  <2> QED BY <1>4, <1>5, <2>2 DEF Waiting
<1>7. CASE ok
  <2> DEFINE l == [link[p] EXCEPT !.cid = c]
  <2>1. link' = [link EXCEPT ![p] = l] /\ chan' = chan
    BY <1>6, <1>7 DEF bt_rdtp_handle_conn_rsp, Basic, TypeOK
  <2>2. l.cid = c /\ l.state = "CONNECTING"
    BY <1>6 DEF Basic, TypeOK
  <2>3. <<"CONNECTING", ts \ {Tag(m)}>> \in Views(phase, role) /\ ~Awaited(phase, role, ts \ {Tag(m)})
    BY <1>1, <1>2, <1>3, <1>7, HandledRsp
  <2>4. View(l, c) = "CONNECTING" /\ \A d \in Channels : d # c => View(l, d) = View(link[p], d)
    BY <1>6, <2>2, ChannelFacts DEF View
  <2> HIDE DEF l
  <2> QED BY <1>1, <1>6, <2>1, <2>2, <2>3, <2>4, LinkChanges
<1>8. CASE ~ok
  <2>1. link' = [link EXCEPT ![p] = NoLink] /\ chan' = chan
    BY <1>6, <1>8 DEF bt_rdtp_handle_conn_rsp
  <2>2. <<"NONE", ts \ {Tag(m)}>> \in Views(phase, role) /\ ~Awaited(phase, role, ts \ {Tag(m)})
    BY <1>1, <1>2, <1>3, <1>8, HandledRspFail
  <2>3. NoLink.state = "NONE" /\ View(NoLink, c) = "NONE" /\ \A d \in Channels : d # c => View(NoLink, d) = View(link[p], d)
    BY <1>6, ChannelFacts DEF View, NoLink
  <2> QED BY <1>6, <2>1, <2>2, <2>3, LinkChanges
<1> QED BY <1>7, <1>8

\* bt_rdtp_handle_conn_cmpl: the session is there, or the link is freed.
LEMMA EngagedConnCmpl ==
    ASSUME Basic, Engaged, NEW p \in Buds, NEW m, NEW ts, NEW phase, NEW role, Reads(p, m, ts, phase, role),
           NEW ok \in BOOLEAN, Tag(m) = IF ok THEN "cmpl" ELSE "cmpl_fail",
           bt_rdtp_handle_conn_cmpl(p, m.cid, ok)
    PROVE  Engaged'
<1> DEFINE c == m.cid
<1>1. c \in Channels /\ c # NoCid /\ phase \in Phases /\ role \in Roles
  BY ReadsFacts
<1>2. <<View(link[p], c), ts>> \in Views(phase, role)
  BY ReadsFacts
<1>3. First(Tag(m), ts)
  BY ReadsFacts
<1>4. CASE ok
  <2>1. /\ View(link[p], c) # "NONE"
        /\ <<"CONNECTED", ts \ {Tag(m)}>> \in Views(phase, role)
        /\ ~Awaited(phase, role, ts) /\ ~Awaited(phase, role, ts \ {Tag(m)})
    BY <1>1, <1>2, <1>3, <1>4, HandledCmpl
  <2>2. link[p].cid = c /\ link[p].state # "NONE"
    BY <2>1 DEF View
  <2> DEFINE l == [link[p] EXCEPT !.state = "CONNECTED"]
  <2>3. link' = [link EXCEPT ![p] = l] /\ chan' = chan
    BY <1>4, <2>2 DEF bt_rdtp_handle_conn_cmpl, Found
  <2>4. l.cid = c /\ l.state = "CONNECTED"
    BY <2>2 DEF Basic, TypeOK
  <2>5. View(l, c) = "CONNECTED" /\ \A d \in Channels : d # c => View(l, d) = View(link[p], d)
    BY <2>2, <2>4 DEF View
  <2>6. ~Waiting(p)
    BY <1>1, <2>2 DEF Waiting
  <2> HIDE DEF l
  <2> QED BY <1>1, <2>1, <2>3, <2>4, <2>5, <2>6, LinkChanges
<1>5. CASE ~ok
  <2>1. /\ View(link[p], c) = "CONNECTING"
        /\ <<"NONE", ts \ {Tag(m)}>> \in Views(phase, role)
        /\ ~Awaited(phase, role, ts) /\ ~Awaited(phase, role, ts \ {Tag(m)})
    BY <1>1, <1>2, <1>3, <1>5, HandledCmplFail
  <2>2. link[p].cid = c /\ link[p].state = "CONNECTING"
    BY <2>1 DEF View
  <2>3. link' = [link EXCEPT ![p] = NoLink] /\ chan' = chan
    BY <1>5, <2>2 DEF bt_rdtp_handle_conn_cmpl, Found
  <2>4. NoLink.cid = NoCid /\ NoLink.state = "NONE"
    BY DEF NoLink
  <2>5. View(NoLink, c) = "NONE" /\ \A d \in Channels : d # c => View(NoLink, d) = View(link[p], d)
    BY <1>1, <2>2, <2>4, ChannelFacts DEF View
  <2>6. ~Waiting(p)
    BY <1>1, <2>2 DEF Waiting
  <2> QED BY <2>1, <2>3, <2>4, <2>5, <2>6, LinkChanges
<1> QED BY <1>4, <1>5

\* DisconnCmpl frees the link that has the channel and leaves any other.
LEMMA LinkFreed ==
    ASSUME Basic, Engaged, NEW p \in Buds, NEW c \in Channels, DisconnCmpl(p, c)
    PROVE  /\ link'[Peer(p)] = link[Peer(p)]
           /\ View(link'[p], c) = "NONE"
           /\ \A d \in Channels : d # c => View(link'[p], d) = View(link[p], d)
           /\ link'[p].cid = NoCid => link'[p].state \in {"NONE", "CONNECTING"}
           /\ (Waiting(p)' <=> Waiting(p))
<1>1. CASE Found(p, c)
  <2>1. link'[p] = NoLink /\ link'[Peer(p)] = link[Peer(p)]
    BY <1>1, PeerFacts DEF DisconnCmpl, Basic, TypeOK
  <2>2. link[p].cid = c /\ c # NoCid /\ NoLink.cid = NoCid /\ NoLink.state = "NONE"
    BY <1>1, ChannelFacts DEF Found, NoLink
  <2> QED BY <2>1, <2>2, ChannelFacts DEF View, Waiting
<1>2. CASE ~Found(p, c)
  <2>1. link' = link
    BY <1>2 DEF DisconnCmpl
  <2>2. View(link[p], c) = "NONE"
    BY <1>2 DEF Found, View
  <2> QED BY <2>1, <2>2 DEF Waiting, Engaged, LinksOK
<1> QED BY <1>1, <1>2

\* bt_rdtp_handle_disconn_ind: the link is freed and the close confirmed.
LEMMA EngagedDisconnInd ==
    ASSUME Basic, Engaged, NEW p \in Buds, NEW m, NEW ts, NEW phase, NEW role, Reads(p, m, ts, phase, role),
           Tag(m) = "disc", bt_rdtp_handle_disconn_ind(p, m.cid)
    PROVE  Engaged'
<1> DEFINE c == m.cid
           to == IF phase = "closing" THEN "closed" ELSE "over"
<1>1. c \in Channels /\ c # NoCid /\ phase \in Phases /\ role \in Roles
  BY ReadsFacts
<1>2. <<View(link[p], c), ts>> \in Views(phase, role)
  BY ReadsFacts
<1>3. First("disc", ts)
  <2>1. First(Tag(m), ts)
    BY ReadsFacts
  <2> QED BY <2>1
<1>4. phase = chan[c].phase
  BY DEF Reads
<1>5. /\ phase \in {"closing", "over"} /\ (phase = "closing" => role = "peer")
      /\ <<"NONE", ts \ {"disc"}>> \in Views(to, role)
      /\ ~Awaited(phase, role, ts) /\ ~Awaited(to, role, ts \ {"disc"})
  BY <1>1, <1>2, <1>3, HandledDisc
<1>6. chan'[c].phase = to /\ chan'[c].by = chan[c].by /\ \A d \in Channels : d # c => chan'[d] = chan[d]
  <2>1. CASE phase = "closing"
    <3>1. Becomes(c, "closed") /\ "closed" \in Phases
      BY <1>1, <1>4, <2>1 DEF bt_rdtp_handle_disconn_ind, In, Phases
    <3> QED BY <1>1, <2>1, <3>1, BecomesTyped DEF Basic
  <2>2. CASE phase = "over"
    <3>1. UNCHANGED chan
      BY <1>1, <1>4, <2>2 DEF bt_rdtp_handle_disconn_ind, In
    <3> QED BY <1>4, <2>2, <3>1
  <2> QED BY <1>5, <2>1, <2>2
<1>7. Carried(phase, OtherRole(role), {}, to)
  <2>1. Carried("closing", "asker", {}, "closed")
    BY DEF Carried, Awaited, Views, Pending, Rank
  <2>2. phase = "closing" => OtherRole(role) = "asker"
    BY <1>5 DEF OtherRole
  <2>3. Carried("over", OtherRole(role), {}, "over")
    BY CarriedSame
  <2> QED BY <1>5, <2>1, <2>2, <2>3
<1>8. /\ link'[Peer(p)] = link[Peer(p)]
      /\ View(link'[p], c) = "NONE"
      /\ \A d \in Channels : d # c => View(link'[p], d) = View(link[p], d)
      /\ link'[p].cid = NoCid => link'[p].state \in {"NONE", "CONNECTING"}
      /\ (Waiting(p)' <=> Waiting(p))
  BY <1>1, LinkFreed DEF bt_rdtp_handle_disconn_ind
<1>9. <<"NONE", ts \ {Tag(m)}>> \in Views(to, role)
  BY <1>5
<1>10. (Awaited(to, role, ts \ {Tag(m)}) <=> Awaited(phase, role, ts))
  BY <1>5
<1> HIDE DEF to
<1> QED BY <1>6, <1>7, <1>8, <1>9, <1>10, HandledKeeps

\* bt_rdtp_handle_disconn_rsp: the link is freed.
LEMMA EngagedDisconnRsp ==
    ASSUME Basic, Engaged, NEW p \in Buds, NEW m, NEW ts, NEW phase, NEW role, Reads(p, m, ts, phase, role),
           Tag(m) = "disc_rsp", bt_rdtp_handle_disconn_rsp(p, m.cid)
    PROVE  Engaged'
<1> DEFINE c == m.cid
<1>1. c \in Channels /\ c # NoCid /\ phase \in Phases /\ role \in Roles
  BY ReadsFacts
<1>2. <<View(link[p], c), ts>> \in Views(phase, role)
  BY ReadsFacts
<1>3. First("disc_rsp", ts)
  <2>1. First(Tag(m), ts)
    BY ReadsFacts
  <2> QED BY <2>1
<1>4. phase = chan[c].phase /\ chan' = chan
  BY DEF Reads, bt_rdtp_handle_disconn_rsp
<1>5. /\ phase = "over" /\ <<"NONE", ts \ {"disc_rsp"}>> \in Views(phase, role)
      /\ ~Awaited(phase, role, ts) /\ ~Awaited(phase, role, ts \ {"disc_rsp"})
  BY <1>1, <1>2, <1>3, HandledDiscRsp
<1>6. Carried(phase, OtherRole(role), {}, phase)
  BY CarriedSame
<1>7. /\ link'[Peer(p)] = link[Peer(p)]
      /\ View(link'[p], c) = "NONE"
      /\ \A d \in Channels : d # c => View(link'[p], d) = View(link[p], d)
      /\ link'[p].cid = NoCid => link'[p].state \in {"NONE", "CONNECTING"}
      /\ (Waiting(p)' <=> Waiting(p))
  BY <1>1, LinkFreed DEF bt_rdtp_handle_disconn_rsp
<1>8. <<"NONE", ts \ {Tag(m)}>> \in Views(phase, role)
  BY <1>5
<1>9. (Awaited(phase, role, ts \ {Tag(m)}) <=> Awaited(phase, role, ts))
  BY <1>5
<1>10. chan'[c].phase = phase /\ chan'[c].by = chan[c].by /\ \A d \in Channels : d # c => chan'[d] = chan[d]
  BY <1>4
<1> QED BY <1>6, <1>7, <1>8, <1>9, <1>10, HandledKeeps

\* bt_rdtp_cback.
LEMMA EngagedHandle ==
    ASSUME NEW p \in Buds PROVE Basic /\ Engaged /\ bt_rdtp_cback(p) => Engaged'
<1> SUFFICES ASSUME Basic, Engaged, bt_rdtp_cback(p) PROVE Engaged'
  OBVIOUS
<1>1. PICK m : m = Head(evq[p])
  OBVIOUS
<1>2. PICK ts : ts = Tags(evq[p], m.cid)
  OBVIOUS
<1>3. PICK phase : phase = chan[m.cid].phase
  OBVIOUS
<1>4. PICK role : role = Role(chan[m.cid], p)
  OBVIOUS
<1>5. Reads(p, m, ts, phase, role)
  BY <1>1, <1>2, <1>3, <1>4 DEF Reads, bt_rdtp_cback
<1>6. m \in Msgs
  BY <1>5, ReadsFacts
<1>7. m.type \in Types /\ m.ok \in BOOLEAN
  BY <1>6 DEF Msgs
<1>8. CASE m.type = "CONN_IND"
  <2>1. bt_rdtp_handle_conn_ind(p, m.cid)
    BY <1>1, <1>8 DEF bt_rdtp_cback
  <2>2. Tag(m) = "ind"
    BY <1>8 DEF Tag
  <2> QED BY <1>5, <2>1, <2>2, EngagedConnInd
<1>9. CASE m.type = "CONN_RSP"
  <2>1. bt_rdtp_handle_conn_rsp(p, m.cid, m.ok)
    BY <1>1, <1>9 DEF bt_rdtp_cback
  <2>2. Tag(m) = IF m.ok THEN "rsp" ELSE "rsp_fail"
    BY <1>7, <1>9 DEF Tag
  <2> QED BY <1>5, <1>7, <2>1, <2>2, EngagedConnRsp
<1>10. CASE m.type = "CONN_CMPL"
  <2>1. bt_rdtp_handle_conn_cmpl(p, m.cid, m.ok)
    BY <1>1, <1>10 DEF bt_rdtp_cback
  <2>2. Tag(m) = IF m.ok THEN "cmpl" ELSE "cmpl_fail"
    BY <1>7, <1>10 DEF Tag
  <2> QED BY <1>5, <1>7, <2>1, <2>2, EngagedConnCmpl
<1>11. CASE m.type = "DISCONN_IND"
  <2>1. bt_rdtp_handle_disconn_ind(p, m.cid)
    BY <1>1, <1>11 DEF bt_rdtp_cback
  <2>2. Tag(m) = "disc"
    BY <1>11 DEF Tag
  <2> QED BY <1>5, <2>1, <2>2, EngagedDisconnInd
<1>12. CASE m.type = "DISCONN_RSP"
  <2>1. bt_rdtp_handle_disconn_rsp(p, m.cid)
    BY <1>1, <1>12 DEF bt_rdtp_cback
  <2>2. Tag(m) = "disc_rsp"
    BY <1>12 DEF Tag
  <2> QED BY <1>5, <2>1, <2>2, EngagedDisconnRsp
<1> QED BY <1>7, <1>8, <1>9, <1>10, <1>11, <1>12 DEF Types

\* A channel that is failing is one with such a message.
LEMMA NotFailing ==
    ASSUME Basic, NEW c \in Channels, ~Failing(c), NEW b \in Buds
    PROVE  "cmpl_fail" \notin Tags(evq[b], c)
<1> SUFFICES ASSUME NEW i \in DOMAIN evq[b], evq[b][i].cid = c, Tag(evq[b][i]) = "cmpl_fail"
             PROVE  FALSE
  BY DEF Tags
<1>1. evq[b][i] \in Msgs
  BY DEF Basic, QueuesTyped
<1>2. evq[b][i].type = "CONN_CMPL" /\ ~evq[b][i].ok
  BY <1>1 DEF Tag, Msgs, Types
<1> QED BY <1>2 DEF Failing

\* The peer of the bud that closes the channel is told, and has the channel
\* before it loses it.
LEMMA PeerTold ==
    ASSUME Basic, Engaged, NEW p \in Buds, NEW c \in Channels, Disconnect(p, c),
           chan[c].phase \in {"answered", "accepted", "open"},
           chan[c].phase = "answered" => Role(chan[c], p) = "peer"
    PROVE  /\ evq'[p] = evq[p]
           /\ Ordered(evq'[Peer(p)])
           /\ \A d \in Channels : d # c => Tags(evq'[Peer(p)], d) = Tags(evq[Peer(p)], d)
           /\ <<View(link[Peer(p)], c), Tags(evq'[Peer(p)], c)>> \in Views("closing", "peer")
           /\ (Awaited("closing", "peer", Tags(evq'[Peer(p)], c)) <=> Awaits(Peer(p), c))
<1> DEFINE q == Peer(p)
           v == View(link[q], c)
           ts == Tags(evq[q], c)
           role == Role(chan[c], q)
           rsp == Msg("CONN_RSP", c, TRUE)
           disc == Msg("DISCONN_IND", c, TRUE)
           first == IF chan[c].phase = "answered" THEN <<rsp>> ELSE <<>>
<1>1. q \in Buds /\ q # p /\ evq[q] \in Seq(Msgs) /\ Ordered(evq[q])
  BY PeerFacts DEF Basic, QueuesTyped, Engaged, QueuesOrdered
<1>2. evq' = [evq EXCEPT ![q] = evq[q] \o Append(first, disc)]
  BY DEF Disconnect, In
<1>3. evq'[p] = evq[p] /\ evq'[q] = evq[q] \o Append(first, disc)
  BY <1>1, <1>2 DEF Basic, QueuesTyped
<1>4. rsp \in Msgs /\ rsp.cid = c /\ Tag(rsp) = "rsp"
  BY MsgTags DEF Types
<1>5. disc \in Msgs /\ disc.cid = c /\ Tag(disc) = "disc"
  BY MsgTags DEF Types
<1>6. <<v, ts>> \in Views(chan[c].phase, role) /\ role \in Roles
  BY <1>1 DEF Engaged, ViewsOK, Role, Roles
<1>7. Awaits(q, c) <=> Awaited(chan[c].phase, role, ts)
  BY DEF Awaits
<1>8. chan[c].phase = "answered" => role = "asker"
  <2>1. chan[c].by \in Buds
    BY DEF Basic, TypeOK
  <2> QED BY <2>1, PeerFacts DEF Role
<1>9. CASE chan[c].phase = "answered"
  <2> DEFINE r == Append(evq[q], rsp)
  <2>1. evq'[q] = Append(r, disc)
    <3> HIDE DEF rsp, disc, q
    <3>1. first = <<rsp>> /\ first \in Seq(Msgs)
      BY <1>4, <1>9
    <3> HIDE DEF first
    <3>2. evq[q] \o first = r
      BY <1>1, <1>4, <3>1, AppendIsConcat
    <3>3. <<disc>> \in Seq(Msgs) /\ Append(first, disc) = first \o <<disc>>
      BY <1>5, <3>1, AppendIsConcat
    <3>4. evq[q] \o (first \o <<disc>>) = (evq[q] \o first) \o <<disc>>
      BY <1>1, <3>1, <3>3, ConcatAssociative
    <3>5. r \in Seq(Msgs)
      BY <1>1, <1>4, AppendProperties
    <3> HIDE DEF r
    <3>6. r \o <<disc>> = Append(r, disc)
      BY <1>5, <3>5, AppendIsConcat
    <3> QED BY <1>3, <3>2, <3>3, <3>4, <3>6
  <2> HIDE DEF rsp, disc, q, v, ts, role
  <2>2. /\ ts = {} /\ <<v, {"rsp", "disc"}>> \in Views("closing", "peer")
        /\ (Awaited("closing", "peer", {"rsp", "disc"}) <=> Awaited("answered", "asker", ts))
    BY <1>6, <1>8, <1>9, ClosedByPeerEarly
  <2>3. Tags(evq[q], c) = {}
    BY <2>2 DEF ts
  <2>4. /\ r \in Seq(Msgs) /\ Ordered(r) /\ Tags(r, c) = {"rsp"}
        /\ \A d : d # c => Tags(r, d) = Tags(evq[q], d)
    BY <1>1, <1>4, <2>3, Put
  <2> HIDE DEF r
  <2>5. Rank("rsp") < Rank("disc")
    BY DEF Rank
  <2>6. /\ Ordered(Append(r, disc)) /\ Tags(Append(r, disc), c) = {"rsp"} \cup {"disc"}
        /\ \A d : d # c => Tags(Append(r, disc), d) = Tags(r, d)
    BY <1>5, <2>4, <2>5, Put
  <2>7. Tags(evq'[q], c) = {"rsp", "disc"}
    BY <2>1, <2>6
  <2> QED BY <1>3, <1>7, <1>8, <1>9, <2>1, <2>2, <2>4, <2>6, <2>7 DEF q, v
<1>10. CASE chan[c].phase # "answered"
  <2>1. evq'[q] = Append(evq[q], disc)
    <3> HIDE DEF rsp, disc, q
    <3>1. Append(<<>>, disc) = <<disc>>
      BY <1>5
    <3>2. evq[q] \o <<disc>> = Append(evq[q], disc)
      BY <1>1, <1>5
    <3> QED BY <1>3, <1>10, <3>1, <3>2
  <2> HIDE DEF rsp, disc, q, v, ts, role
  <2>2. /\ <<v, ts \cup {"disc"}>> \in Views("closing", "peer")
        /\ (Awaited("closing", "peer", ts \cup {"disc"}) <=> Awaited(chan[c].phase, role, ts))
        /\ \A x \in ts : Rank(x) < Rank("disc")
    <3>1. chan[c].phase \in {"accepted", "open"}
      BY <1>10
    <3> QED BY <1>6, <3>1, ClosedByPeer
  <2>3. \A t \in Tags(evq[q], c) : Rank(t) < Rank("disc")
    BY <2>2 DEF ts
  <2>4. /\ Ordered(Append(evq[q], disc))
        /\ Tags(Append(evq[q], disc), c) = Tags(evq[q], c) \cup {"disc"}
        /\ \A d : d # c => Tags(Append(evq[q], disc), d) = Tags(evq[q], d)
    BY <1>1, <1>5, <2>3, Put
  <2>5. Tags(evq'[q], c) = ts \cup {"disc"}
    BY <2>1, <2>4 DEF ts
  <2> QED BY <1>3, <1>7, <2>1, <2>2, <2>4, <2>5 DEF q, v
<1> QED BY <1>9, <1>10

\* bt_rdtp_disconnect_req on a link with a channel that is not failing.
LEMMA EngagedDisconnect ==
    ASSUME EarlyClose = FALSE PROVE Basic /\ Engaged /\ bt_rdtp_disconnect_req => Engaged'
<1> SUFFICES ASSUME Basic, Engaged, bt_rdtp_disconnect_req PROVE Engaged'
  OBVIOUS
<1>1. PICK p \in Buds :
        /\ link[p].state # "NONE" /\ link[p].cid # NoCid /\ ~Failing(link[p].cid)
        /\ link' = [link EXCEPT ![p].state = "DISCONNECTING"]
        /\ Disconnect(p, link[p].cid)
  BY DEF bt_rdtp_disconnect_req, MayClose
<1>2. PICK c : c = link[p].cid
  OBVIOUS
<1>3. PICK q : q = Peer(p)
  OBVIOUS
<1>4. q \in Buds /\ q # p /\ Buds = {p, q}
  BY <1>3, PeerFacts
<1>5. c \in Channels /\ c # NoCid /\ chan[c].phase \in Phases /\ chan[c].by \in Buds
  BY <1>1, <1>2 DEF Basic, TypeOK, Phases
<1>6. link'[p] = [link[p] EXCEPT !.state = "DISCONNECTING"] /\ link'[q] = link[q]
  BY <1>1, <1>4 DEF Basic, TypeOK
<1>7. link'[p].state = "DISCONNECTING" /\ link'[p].cid = c
  BY <1>2, <1>6 DEF Basic, TypeOK
<1>8. View(link'[p], c) = "DISCONNECTING" /\ \A d \in Channels : d # c => View(link'[p], d) = View(link[p], d)
  BY <1>2, <1>7 DEF View
<1>9. LinksOK'
  BY <1>4, <1>5, <1>6, <1>7 DEF Engaged, LinksOK
<1>10. \A b \in Buds : (Waiting(b)' <=> Waiting(b))
  BY <1>2, <1>4, <1>5, <1>6, <1>7 DEF Waiting
<1>11. PICK v, ts, role : v = View(link[p], c) /\ ts = Tags(evq[p], c) /\ role = Role(chan[c], p)
  OBVIOUS
<1>12. <<v, ts>> \in Views(chan[c].phase, role) /\ role \in Roles
  BY <1>5, <1>11 DEF Engaged, ViewsOK, Role, Roles
<1>13. v # "NONE" /\ "cmpl_fail" \notin ts
  BY <1>1, <1>2, <1>5, <1>11, NotFailing DEF View
<1>14. /\ chan[c].phase \in {"answered", "accepted", "open"} =>
             <<"DISCONNECTING", ts>> \in Views("closing", "asker")
       /\ chan[c].phase \notin {"answered", "accepted", "open"} =>
             <<"DISCONNECTING", ts>> \in Views(chan[c].phase, role)
       /\ chan[c].phase = "answered" => role = "peer"
       /\ ~Awaited(chan[c].phase, role, ts) /\ ~Awaited("closing", "asker", ts)
  BY <1>5, <1>12, <1>13, Closes
<1>15. ~Awaits(p, c)
  BY <1>11, <1>14 DEF Awaits
<1>16. ASSUME \A b \in Buds : Ordered(evq'[b]),
              \A b \in Buds, d \in Channels : d # c =>
                   chan'[d] = chan[d] /\ Tags(evq'[b], d) = Tags(evq[b], d),
              \A b \in Buds :
                   /\ <<View(link'[b], c), Tags(evq'[b], c)>> \in Views(chan'[c].phase, Role(chan'[c], b))
                   /\ (Awaits(b, c)' <=> Awaits(b, c))
       PROVE  Engaged'
  <2>1. \A b \in Buds, d \in Channels : d # c => View(link'[b], d) = View(link[b], d)
    BY <1>4, <1>6, <1>8
  <2>2. /\ QueuesOrdered' /\ ViewsOK'
        /\ \A b \in Buds, d \in Channels : d # c => (Awaits(b, d)' <=> Awaits(b, d))
    BY <1>5, <1>16, <2>1, ChannelStep
  <2>3. AwaitsOK'
    BY <1>10, <1>16, <2>2, AwaitsSame DEF Engaged
  <2> QED BY <1>9, <2>2, <2>3 DEF Engaged
<1>17. CASE In(c, {"answered", "accepted", "open"})
  <2>1. chan[c].phase \in {"answered", "accepted", "open"}
    BY <1>17 DEF In
  <2>2. Disconnect(p, c) /\ chan' = [chan EXCEPT ![c] = [phase |-> "closing", by |-> p]]
    BY <1>1, <1>2, <1>17 DEF Disconnect
  <2>3. chan'[c] = [phase |-> "closing", by |-> p] /\ \A d \in Channels : d # c => chan'[d] = chan[d]
    BY <1>5, <2>2 DEF Basic, TypeOK
  <2>4. chan'[c].phase = "closing" /\ Role(chan'[c], p) = "asker" /\ Role(chan'[c], q) = "peer"
    BY <1>4, <2>3 DEF Role
  <2>5. /\ evq'[p] = evq[p] /\ Ordered(evq'[q])
        /\ \A d \in Channels : d # c => Tags(evq'[q], d) = Tags(evq[q], d)
        /\ <<View(link[q], c), Tags(evq'[q], c)>> \in Views("closing", "peer")
        /\ (Awaited("closing", "peer", Tags(evq'[q], c)) <=> Awaits(q, c))
    BY <1>3, <1>5, <1>11, <1>14, <2>1, <2>2, PeerTold
  <2>6. \A b \in Buds : Ordered(evq'[b])
    BY <1>4, <2>5 DEF Engaged, QueuesOrdered
  <2>7. \A b \in Buds, d \in Channels : d # c =>
           chan'[d] = chan[d] /\ Tags(evq'[b], d) = Tags(evq[b], d)
    BY <1>4, <2>3, <2>5
  <2>8. /\ <<View(link'[p], c), Tags(evq'[p], c)>> \in Views(chan'[c].phase, Role(chan'[c], p))
        /\ (Awaits(p, c)' <=> Awaits(p, c))
    <3>1. <<View(link'[p], c), Tags(evq'[p], c)>> \in Views(chan'[c].phase, Role(chan'[c], p))
      BY <1>8, <1>11, <1>14, <2>1, <2>4, <2>5
    <3>2. ~Awaits(p, c)'
      BY <1>11, <1>14, <2>4, <2>5 DEF Awaits
    <3> QED BY <1>15, <3>1, <3>2
  <2>9. /\ <<View(link'[q], c), Tags(evq'[q], c)>> \in Views(chan'[c].phase, Role(chan'[c], q))
        /\ (Awaits(q, c)' <=> Awaits(q, c))
    <3>1. <<View(link'[q], c), Tags(evq'[q], c)>> \in Views(chan'[c].phase, Role(chan'[c], q))
      BY <1>6, <2>4, <2>5
    <3>2. Awaits(q, c)' <=> Awaited("closing", "peer", Tags(evq'[q], c))
      BY <2>4 DEF Awaits
    <3> QED BY <2>5, <3>1, <3>2
  <2> QED BY <1>4, <1>16, <2>6, <2>7, <2>8, <2>9
<1>18. CASE ~In(c, {"answered", "accepted", "open"})
  <2>1. chan[c].phase \notin {"answered", "accepted", "open"}
    BY <1>5, <1>18 DEF In
  <2>2. UNCHANGED <<chan, evq>>
    BY <1>1, <1>2, <1>18 DEF Disconnect
  <2>3. \A b \in Buds : Ordered(evq'[b])
    BY <2>2 DEF Engaged, QueuesOrdered
  <2>4. <<View(link'[p], c), Tags(evq'[p], c)>> \in Views(chan'[c].phase, Role(chan'[c], p))
    BY <1>8, <1>11, <1>14, <2>1, <2>2
  <2>5. <<View(link'[q], c), Tags(evq'[q], c)>> \in Views(chan'[c].phase, Role(chan'[c], q))
    BY <1>4, <1>5, <1>6, <2>2 DEF Engaged, ViewsOK
  <2>6. \A b \in Buds : (Awaits(b, c)' <=> Awaits(b, c))
    BY <2>2 DEF Awaits
  <2> QED BY <1>4, <1>16, <2>2, <2>3, <2>4, <2>5, <2>6
<1> QED BY <1>17, <1>18

\* At first there is no link, no channel and no message.
LEMMA EngagedInit == Init => Engaged
<1> SUFFICES ASSUME Init PROVE Engaged
  OBVIOUS
<1>1. \A b \in Buds : evq[b] = <<>> /\ link[b].cid = NoCid /\ link[b].state = "NONE"
  BY DEF Init, NoLink
<1>2. \A b \in Buds, c \in Channels : Tags(evq[b], c) = {} /\ View(link[b], c) = "NONE" /\ chan[c].phase = "over"
  BY <1>1 DEF Init, Tags, View
<1>3. QueuesOrdered
  BY <1>1 DEF QueuesOrdered, Ordered
<1>4. LinksOK
  BY <1>1 DEF LinksOK
<1>5. ViewsOK
  <2>1. \A role \in Roles : <<"NONE", {}>> \in Views("over", role)
    BY DEF Views, Pending, Roles
  <2>2. \A b \in Buds, c \in Channels : Role(chan[c], b) \in Roles
    BY DEF Role, Roles
  <2> QED BY <1>2, <2>1, <2>2 DEF ViewsOK
<1>6. AwaitsOK
  <2>1. \A b \in Buds, c \in Channels : ~Awaits(b, c)
    BY <1>2 DEF Awaits, Awaited, Pending
  <2>2. \A b \in Buds : ~Waiting(b)
    BY <1>1 DEF Waiting
  <2> QED BY <2>1, <2>2 DEF AwaitsOK
<1> QED BY <1>3, <1>4, <1>5, <1>6 DEF Engaged

\* Every step keeps Engaged.
LEMMA EngagedNext ==
    ASSUME EarlyClose = FALSE PROVE Basic /\ Engaged /\ [Next]_vars => Engaged'
<1> SUFFICES ASSUME Basic, Engaged, [Next]_vars PROVE Engaged'
  OBVIOUS
<1>1. CASE Next
  BY <1>1, EngagedConnect, EngagedDisconnect, EngagedHandle, EngagedL2cWorks, EngagedL2cFails,
     EngagedAclLost DEF Next
<1>2. CASE UNCHANGED vars
  <2>1. link' = link /\ evq' = evq /\ chan' = chan
    BY <1>2 DEF vars
  <2>2. QueuesOrdered' /\ LinksOK' /\ ViewsOK'
    BY <2>1 DEF Engaged, QueuesOrdered, LinksOK, ViewsOK
  <2>3. /\ \A b \in Buds : (Waiting(b)' <=> Waiting(b))
        /\ \A b \in Buds, c \in Channels : (Awaits(b, c)' <=> Awaits(b, c))
    BY <2>1 DEF Waiting, Awaits
  <2>4. AwaitsOK'
    BY <2>3, AwaitsSame DEF Engaged
  <2> QED BY <2>2, <2>4 DEF Engaged
<1> QED BY <1>1, <1>2

-----------------------------------------------------------------------------
(* The properties.                                                         *)

\* The one who answered a channel that is up has its link there, the one who
\* asked has it there or waits for its id: two channels would need two links.
LEMMA EngagedGivesOneChannel == Basic /\ Engaged => OneChannel
<1> SUFFICES ASSUME Basic, Engaged PROVE OneChannel
  OBVIOUS
<1> DEFINE Up == {c \in Channels : chan[c].phase \in {"accepted", "open"}}
<1>1. ASSUME NEW c \in Up, NEW b \in Buds
      PROVE  /\ Role(chan[c], b) = "peer" => link[b].cid = c
             /\ Role(chan[c], b) = "asker" => link[b].cid \in {c, NoCid}
  <2>1. PICK v, ts : v = View(link[b], c) /\ ts = Tags(evq[b], c)
    OBVIOUS
  <2>2. c \in Channels /\ <<v, ts>> \in Views(chan[c].phase, Role(chan[c], b))
    BY <1>1, <2>1 DEF Engaged, ViewsOK
  <2>3. Role(chan[c], b) = "peer" => v # "NONE"
    BY <1>1, <2>2 DEF Views, Pending
  <2>4. Role(chan[c], b) = "asker" => v # "NONE" \/ "rsp" \in ts
    BY <1>1, <2>2 DEF Views, Pending
  <2>5. v # "NONE" => link[b].cid = c
    BY <2>1 DEF View
  <2>6. "rsp" \in ts => Awaits(b, c)
    BY <2>1 DEF Awaits, Awaited
  <2>7. Awaits(b, c) => link[b].cid = NoCid
    BY <2>2 DEF Engaged, AwaitsOK, Waiting
  <2> QED BY <2>3, <2>4, <2>5, <2>6, <2>7
<1>2. ASSUME NEW c \in Up, NEW d \in Up PROVE c = d
  <2>1. c \in Channels /\ d \in Channels /\ c # NoCid /\ d # NoCid
    BY <1>2, ChannelFacts
  <2>2. PICK b \in Buds : Role(chan[c], b) = "peer"
    <3>1. chan[c].by \in Buds
      BY <2>1 DEF Basic, TypeOK
    <3> QED BY <3>1, PeerFacts DEF Role
  <2>3. link[b].cid = c
    BY <1>1, <1>2, <2>2
  <2>4. link[b].cid \in {d, NoCid}
    BY <1>1, <1>2 DEF Role
  <2> QED BY <2>1, <2>3, <2>4
<1>3. Cardinality(Up) <= 1
  <2>1. CASE Up = {}
    <3>1. Cardinality({}) = 0
      BY FS_EmptySet
    <3> QED BY <2>1, <3>1
  <2>2. CASE Up # {}
    <3>1. PICK c : Up = {c}
      BY <1>2, <2>2
    <3>2. Cardinality({c}) = 1
      BY FS_Singleton
    <3> QED BY <3>1, <3>2
  <2> QED BY <2>1, <2>2
<1> QED BY <1>3 DEF OneChannel

\* With empty queues the views leave a link that is connected over an open
\* channel, or none.
LEMMA EngagedGivesAgreement == Basic /\ Engaged => SessionsAgree
<1> SUFFICES ASSUME Basic, Engaged, Idle PROVE SessionsAgree
  BY DEF SessionsAgree
<1>1. ASSUME NEW b \in Buds, NEW c \in Channels
      PROVE  /\ Tags(evq[b], c) = {} /\ ~Awaits(b, c)
             /\ View(link[b], c) = IF chan[c].phase = "open" THEN "CONNECTED" ELSE "NONE"
  <2>1. Tags(evq[b], c) = {} /\ chan[c].phase \in {"open", "over"}
    BY <1>1 DEF Idle, Tags
  <2>2. PICK v, role : v = View(link[b], c) /\ role = Role(chan[c], b)
    OBVIOUS
  <2>3. <<v, {}>> \in Views(chan[c].phase, role) /\ role \in Roles
    BY <1>1, <2>1, <2>2 DEF Engaged, ViewsOK, Role, Roles
  <2>4. CASE chan[c].phase = "open"
    BY <2>1, <2>2, <2>3, <2>4 DEF Views, Pending, Roles, Awaits, Awaited
  <2>5. CASE chan[c].phase = "over"
    <3>1. \/ <<v, {}>> = <<"NONE", {}>>
          \/ \E x, y : <<v, {}>> = <<x, y>> /\ y # {}
      BY <2>3, <2>5 DEF Views, Pending, Roles
    <3> QED BY <2>1, <2>2, <2>5, <3>1 DEF Pending, Awaits, Awaited
  <2> QED BY <2>1, <2>4, <2>5
<1>2. ASSUME NEW b \in Buds
      PROVE  \/ link[b].state = "NONE" /\ b \notin up
             \/ /\ link[b].state = "CONNECTED" /\ b \in up
                /\ link[b].cid \in Channels /\ chan[link[b].cid].phase = "open"
  <2>1. link[b].cid = NoCid \/ link[b].cid \in Channels
    BY DEF Basic, TypeOK
  <2>2. CASE link[b].cid = NoCid
    <3>1. ~Waiting(b)
      BY <1>1 DEF Engaged, AwaitsOK
    <3>2. link[b].state = "NONE"
      BY <2>2, <3>1 DEF Waiting, Engaged, LinksOK
    <3> QED BY <3>2 DEF Basic, SessionHasLink
  <2>3. CASE link[b].cid \in Channels
    <3>1. link[b].state = IF chan[link[b].cid].phase = "open" THEN "CONNECTED" ELSE "NONE"
      BY <1>1, <2>3 DEF View
    <3>2. link[b].state # "NONE"
      BY <2>3, ChannelFacts DEF Basic, TypeOK
    <3> QED BY <2>3, <3>1, <3>2 DEF Basic, SessionHasLink
  <2> QED BY <2>1, <2>2, <2>3
<1>3. ASSUME NEW b \in Buds, b \in up
      PROVE  Peer(b) \in up /\ link[Peer(b)].cid = link[b].cid
  <2>1. link[b].state = "CONNECTED" /\ link[b].cid \in Channels /\ chan[link[b].cid].phase = "open"
    BY <1>2, <1>3
  <2>2. View(link[Peer(b)], link[b].cid) = "CONNECTED"
    BY <1>1, <2>1, PeerFacts
  <2>3. link[Peer(b)].cid = link[b].cid /\ link[Peer(b)].state = "CONNECTED"
    BY <2>2 DEF View
  <2> QED BY <2>3, PeerFacts DEF Basic, SessionHasLink
<1>4. "L" \in Buds /\ "R" \in Buds /\ Peer("L") = "R" /\ Peer("R") = "L"
  BY DEF Buds, Peer
<1>5. up \subseteq Buds
  BY DEF Basic, TypeOK
<1>6. up = {} \/ up = Buds
  BY <1>3, <1>4, <1>5 DEF Buds
<1>7. up = Buds => /\ In(link["L"].cid, {"open"}) /\ link["L"].cid = link["R"].cid
                   /\ \A p \in Buds : link[p].state = "CONNECTED"
  BY <1>2, <1>3, <1>4 DEF In
<1>8. up = {} => \A p \in Buds : link[p].state = "NONE"
  BY <1>2
<1> QED BY <1>6, <1>7, <1>8 DEF SessionsAgree

\* A link that is being closed is in one of the views with its end to come.
LEMMA EngagedGivesClosing == Basic /\ Engaged => ClosingEnds
<1> SUFFICES ASSUME Basic, Engaged, NEW p \in Buds, link[p].state = "DISCONNECTING"
             PROVE  \/ In(link[p].cid, {"closing", "closed"})
                    \/ \E i \in DOMAIN evq[p] : /\ evq[p][i].type \in {"DISCONN_IND", "DISCONN_RSP"}
                                                /\ evq[p][i].cid = link[p].cid
  BY DEF ClosingEnds
<1>1. PICK c, ts, role : c = link[p].cid /\ ts = Tags(evq[p], c) /\ role = Role(chan[c], p)
  OBVIOUS
<1>2. c \in Channels /\ chan[c].phase \in Phases /\ role \in Roles
  BY <1>1 DEF Engaged, LinksOK, Basic, TypeOK, Phases, Role, Roles
<1>3. <<"DISCONNECTING", ts>> \in Views(chan[c].phase, role)
  BY <1>1, <1>2 DEF Engaged, ViewsOK, View
<1>4. chan[c].phase \in {"closing", "closed"} \/ "disc" \in ts \/ "disc_rsp" \in ts
  BY <1>2, <1>3 DEF Views, Pending, Phases, Roles
<1>5. CASE chan[c].phase \in {"closing", "closed"}
  BY <1>1, <1>2, <1>5 DEF In
<1>6. CASE "disc" \in ts \/ "disc_rsp" \in ts
  <2>1. PICK i \in DOMAIN evq[p] : evq[p][i].cid = c /\ Tag(evq[p][i]) \in {"disc", "disc_rsp"}
    BY <1>1, <1>6 DEF Tags
  <2>2. evq[p][i] \in Msgs
    BY DEF Basic, QueuesTyped
  <2>3. evq[p][i].type \in {"DISCONN_IND", "DISCONN_RSP"}
    BY <2>1, <2>2 DEF Tag, Msgs, Types
  <2> QED BY <1>1, <2>1, <2>3
<1> QED BY <1>4, <1>5, <1>6

\* Links, sessions and channels have their types, whatever is opened, closed or
\* lost, and a freed T_BT_RDTP_LINK keeps no channel id.
THEOREM TypeCorrect == Spec => []TypeOK
BY BasicInvariance, PTL DEF Basic

\* remote_mgr relays only while bt_rdtp has the link of the session: bt_mgr tells
\* it of CONN_CMPL and DISCONN_CMPL in the steps that make and free the link.
THEOREM SessionAlwaysHasLink == Spec => []SessionHasLink
BY BasicInvariance, PTL DEF Basic

\* Unless a session is closed too early, each bud's link fits the channel and the
\* messages that wait for bt_rdtp_cback.
THEOREM EngagedInvariance == ASSUME EarlyClose = FALSE PROVE Spec => [](Basic /\ Engaged)
<1>1. Init => Basic /\ Engaged
  BY BasicInit, EngagedInit
<1>2. Basic /\ Engaged /\ [Next]_vars => (Basic /\ Engaged)'
  BY BasicNext, EngagedNext
<1> QED BY <1>1, <1>2, PTL DEF Spec

\* Requests of bt_rdtp_connect_req that cross never lead to two channels: a bud
\* whose own link is being opened refuses the request of its peer.
THEOREM OneChannelAtATime == ASSUME EarlyClose = FALSE PROVE Spec => []OneChannel
BY EngagedInvariance, EngagedGivesOneChannel, PTL

\* When nothing is on the way, both buds have the session of one open channel or
\* neither has one, whatever crossed, was refused, closed or lost before.
THEOREM SessionsAlwaysAgree == ASSUME EarlyClose = FALSE PROVE Spec => []SessionsAgree
BY EngagedInvariance, EngagedGivesAgreement, PTL

\* A link bt_rdtp_disconnect_req has set to DISCONNECTING has a channel that is
\* being closed, or the message that frees it waits: the run with EarlyClose
\* shows that the assumption is needed.
THEOREM ClosingAlwaysEnds == ASSUME EarlyClose = FALSE PROVE Spec => []ClosingEnds
BY EngagedInvariance, EngagedGivesClosing, PTL
=============================================================================
