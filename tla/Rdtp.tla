--------------------------------- MODULE Rdtp ---------------------------------
(***************************************************************************)
(* The session between the two buds: the L2CAP channel that bt_rdtp.c      *)
(* opens and closes at each of them, and what bt_mgr.c tells remote_mgr.c  *)
(* about it.  Either bud may open and close the session at any time, both  *)
(* at once, and the ACL link may be lost.                                  *)
(*                                                                         *)
(* L2CAP is not code of the repository.  It carries out the requests one   *)
(* after the other, and puts what each host is to handle in a queue.       *)
(***************************************************************************)
EXTENDS Naturals, Sequences, FiniteSets

CONSTANTS
    MaxChannels,    \* bound: channels at a time
    EarlyClose      \* FALSE: the application does not close a session that has
                    \* no channel id yet, nor one whose channel is failing

ASSUME RdtpAssumption ==
    /\ MaxChannels \in Nat
    /\ EarlyClose \in BOOLEAN

Buds == {"L", "R"}
Peer(p) == IF p = "L" THEN "R" ELSE "L"
Channels == 1..MaxChannels
NoCid == 0

VARIABLES
    link,   \* of each bud its T_BT_RDTP_LINK, state "NONE" if there is none
    up,     \* the buds whose remote_db.session_state is CONNECTED
    evq,    \* of each bud the L2CAP messages bt_rdtp_cback has not handled
    chan    \* the channels: phase, and the bud that asked for it

vars == <<link, up, evq, chan>>

NoLink == [state |-> "NONE", cid |-> NoCid]

Init ==
    /\ link = [p \in Buds |-> NoLink]
    /\ up = {}
    /\ evq = [p \in Buds |-> <<>>]
    /\ chan = [c \in Channels |-> [phase |-> "over", by |-> "L"]]

Msg(type, c, ok) == [type |-> type, cid |-> c, ok |-> ok]
Told(p, m) == evq' = [evq EXCEPT ![p] = Append(@, m)]
BothTold(p, m, n) == evq' = [evq EXCEPT ![p] = Append(@, m), ![Peer(p)] = Append(@, n)]
Becomes(c, phase) == chan' = [chan EXCEPT ![c].phase = phase]
In(c, phases) == c \in Channels /\ chan[c].phase \in phases

-----------------------------------------------------------------------------
(* The application: remote_session_open and remote_session_close.          *)

\* The id of a channel that is over is given to another once it is forgotten.
Free(c) ==
    /\ chan[c].phase = "over"
    /\ \A p \in Buds : /\ link[p].cid # c
                       /\ \A i \in DOMAIN evq[p] : evq[p][i].cid # c

bt_rdtp_connect_req ==
    \E p \in Buds, c \in Channels :
        /\ link[p].state = "NONE"
        /\ Free(c) /\ \A d \in 1..(c - 1) : ~Free(d)
        /\ link' = [link EXCEPT ![p] = [state |-> "CONNECTING", cid |-> NoCid]]
        /\ chan' = [chan EXCEPT ![c] = [phase |-> "asked", by |-> p]]
        /\ UNCHANGED <<up, evq>>

\* mpa_send_l2c_disconn_req: L2CAP answers a request for a channel it has, and
\* for no other.  The peer has the channel before it loses it.
Disconnect(p, c) ==
    IF In(c, {"answered", "accepted", "open"})
    THEN LET first == IF In(c, {"answered"}) THEN <<Msg("CONN_RSP", c, TRUE)>> ELSE <<>>
         IN  /\ chan' = [chan EXCEPT ![c] = [phase |-> "closing", by |-> p]]
             /\ evq' = [evq EXCEPT ![Peer(p)] =
                           @ \o Append(first, Msg("DISCONN_IND", c, TRUE))]
    ELSE UNCHANGED <<chan, evq>>

Failing(c) == \E p \in Buds : \E i \in DOMAIN evq[p] :
                 evq[p][i].type = "CONN_CMPL" /\ evq[p][i].cid = c /\ ~evq[p][i].ok

MayClose(p) ==
    /\ link[p].state # "NONE"
    /\ EarlyClose \/ (link[p].cid # NoCid /\ ~Failing(link[p].cid))

bt_rdtp_disconnect_req ==
    \E p \in Buds :
        /\ MayClose(p)
        /\ link' = [link EXCEPT ![p].state = "DISCONNECTING"]
        /\ Disconnect(p, link[p].cid)
        /\ UNCHANGED up

-----------------------------------------------------------------------------
(* The host: bt_rdtp_cback on the first message of bud p.                  *)

\* Mutant: a session that is being opened accepts the peer's request as well.
ConnIndCollides(p, c) ==
    LET accept == link[p].state \in {"NONE", "CONNECTING"}
    IN  /\ link' = IF accept THEN [link EXCEPT ![p] = [state |-> "CONNECTING", cid |-> c]] ELSE link
        /\ IF In(c, {"offered"})
           THEN Becomes(c, IF accept THEN "answered" ELSE "refused")
           ELSE UNCHANGED chan
        /\ UNCHANGED up

\* A link that is being opened or closed refuses the peer's request.
bt_rdtp_handle_conn_ind(p, c) ==
    LET accept == link[p].state = "NONE"
    IN  /\ link' = IF accept THEN [link EXCEPT ![p] = [state |-> "CONNECTING", cid |-> c]] ELSE link
        /\ IF In(c, {"offered"})
           THEN Becomes(c, IF accept THEN "answered" ELSE "refused")
           ELSE UNCHANGED chan
        /\ UNCHANGED up

\* Mutant: the channel id is not kept.
ConnRspNoCid(p, c, ok) ==
    /\ link' = CASE link[p].state = "CONNECTING" /\ ~ok -> [link EXCEPT ![p] = NoLink]
                 [] OTHER -> link
    /\ UNCHANGED <<up, chan>>

bt_rdtp_handle_conn_rsp(p, c, ok) ==
    /\ link' = CASE link[p].state = "CONNECTING" /\ ok  -> [link EXCEPT ![p].cid = c]
                 [] link[p].state = "CONNECTING" /\ ~ok -> [link EXCEPT ![p] = NoLink]
                 [] OTHER -> link
    /\ UNCHANGED <<up, chan>>

Found(p, c) == link[p].state # "NONE" /\ link[p].cid = c

\* BT_MSG_RDTP_CONN_CMPL makes remote_mgr open its session.
bt_rdtp_handle_conn_cmpl(p, c, ok) ==
    /\ IF Found(p, c) /\ ok
       THEN /\ link' = [link EXCEPT ![p].state = "CONNECTED"]
            /\ up' = up \cup {p}
       ELSE /\ link' = IF Found(p, c) /\ link[p].state = "CONNECTING"
                       THEN [link EXCEPT ![p] = NoLink] ELSE link
            /\ UNCHANGED up
    /\ UNCHANGED chan

\* Mutant: the channel id stays in the link that is freed.
DisconnCmplKeepsCid(p, c) ==
    IF Found(p, c) THEN link' = [link EXCEPT ![p].state = "NONE"] /\ up' = up \ {p}
                   ELSE UNCHANGED <<link, up>>

\* Mutant: remote_mgr is not told.
DisconnCmplUntold(p, c) ==
    /\ link' = IF Found(p, c) THEN [link EXCEPT ![p] = NoLink] ELSE link
    /\ UNCHANGED up

\* BT_MSG_RDTP_DISCONN_CMPL makes remote_mgr close its session.
DisconnCmpl(p, c) ==
    IF Found(p, c) THEN link' = [link EXCEPT ![p] = NoLink] /\ up' = up \ {p}
                   ELSE UNCHANGED <<link, up>>

\* Mutant: a channel that is closed by the peer is not confirmed.
DisconnIndUnconfirmed(p, c) == DisconnCmpl(p, c) /\ UNCHANGED chan

\* The confirmation is sent for a channel that is not found, too.
bt_rdtp_handle_disconn_ind(p, c) ==
    /\ DisconnCmpl(p, c)
    /\ IF In(c, {"closing"}) THEN Becomes(c, "closed") ELSE UNCHANGED chan

bt_rdtp_handle_disconn_rsp(p, c) == DisconnCmpl(p, c) /\ UNCHANGED chan

bt_rdtp_cback(p) ==
    /\ evq[p] # <<>>
    /\ LET m == Head(evq[p])
       IN  CASE m.type = "CONN_IND"    -> bt_rdtp_handle_conn_ind(p, m.cid)
             [] m.type = "CONN_RSP"    -> bt_rdtp_handle_conn_rsp(p, m.cid, m.ok)
             [] m.type = "CONN_CMPL"   -> bt_rdtp_handle_conn_cmpl(p, m.cid, m.ok)
             [] m.type = "DISCONN_IND" -> bt_rdtp_handle_disconn_ind(p, m.cid)
             [] m.type = "DISCONN_RSP" -> bt_rdtp_handle_disconn_rsp(p, m.cid)
    /\ evq' = [evq EXCEPT ![p] = Tail(@)]

-----------------------------------------------------------------------------
(* L2CAP and the ACL link.                                                 *)

\* The phases of a channel: asked, offered to the peer, answered or refused by
\* it, accepted at the one who asked, open; closing, closed; over.
L2cCarries(c) ==
    LET p == chan[c].by
    IN  CASE chan[c].phase = "asked"    -> Becomes(c, "offered")  /\ Told(Peer(p), Msg("CONN_IND", c, TRUE))
          [] chan[c].phase = "answered" -> Becomes(c, "accepted") /\ Told(p, Msg("CONN_RSP", c, TRUE))
          [] chan[c].phase = "refused"  -> Becomes(c, "over")     /\ Told(p, Msg("CONN_RSP", c, FALSE))
          [] chan[c].phase = "accepted" -> Becomes(c, "open")     /\ BothTold(p, Msg("CONN_CMPL", c, TRUE), Msg("CONN_CMPL", c, TRUE))
          [] chan[c].phase = "closed"   -> Becomes(c, "over")     /\ Told(p, Msg("DISCONN_RSP", c, TRUE))

L2cWorks(c) ==
    /\ chan[c].phase \in {"asked", "answered", "refused", "accepted", "closed"}
    /\ L2cCarries(c)
    /\ UNCHANGED <<link, up>>

L2cFails ==
    /\ \E c \in Channels :
          LET p == chan[c].by
          IN  \/ /\ chan[c].phase = "asked"
                 /\ Becomes(c, "over") /\ Told(p, Msg("CONN_RSP", c, FALSE))
              \/ /\ chan[c].phase = "accepted"
                 /\ Becomes(c, "over")
                 /\ BothTold(p, Msg("CONN_CMPL", c, FALSE), Msg("CONN_CMPL", c, FALSE))
    /\ UNCHANGED <<link, up>>

\* The ACL link is lost: L2CAP tells both hosts that their channel is gone.
AclLost ==
    /\ \E c \in Channels :
          LET p == chan[c].by
          IN  /\ Becomes(c, "over")
              /\ \/ /\ chan[c].phase = "asked"
                    /\ Told(p, Msg("CONN_RSP", c, FALSE))
                 \/ /\ chan[c].phase \in {"offered", "answered"}
                    /\ BothTold(p, Msg("CONN_RSP", c, FALSE), Msg("DISCONN_IND", c, TRUE))
                 \/ /\ chan[c].phase \in {"accepted", "open"}
                    /\ BothTold(p, Msg("DISCONN_IND", c, TRUE), Msg("DISCONN_IND", c, TRUE))
                 \/ /\ chan[c].phase = "closing"
                    /\ Told(p, Msg("DISCONN_RSP", c, TRUE))
    /\ UNCHANGED <<link, up>>

Next ==
    \/ bt_rdtp_connect_req \/ bt_rdtp_disconnect_req
    \/ \E p \in Buds : bt_rdtp_cback(p)
    \/ \E c \in Channels : L2cWorks(c)
    \/ L2cFails \/ AclLost

Spec == Init /\ [][Next]_vars

\* Each host handles its messages and L2CAP works on each channel; nobody has
\* to open or close a session, and nothing has to fail.
FairSpec ==
    /\ Spec
    /\ \A p \in Buds : WF_vars(bt_rdtp_cback(p))
    /\ \A c \in Channels : WF_vars(L2cWorks(c))

-----------------------------------------------------------------------------
(* Properties.                                                             *)

TypeOK ==
    /\ link \in [Buds -> [state : {"NONE", "CONNECTING", "CONNECTED", "DISCONNECTING"},
                          cid : Channels \cup {NoCid}]]
    /\ \A p \in Buds : link[p].state = "NONE" => link[p].cid = NoCid
    /\ up \subseteq Buds
    /\ chan \in [Channels -> [phase : {"asked", "offered", "answered", "refused",
                                       "accepted", "open", "closing", "closed", "over"},
                              by : Buds]]

Idle == /\ \A p \in Buds : evq[p] = <<>>
        /\ \A c \in Channels : chan[c].phase \in {"open", "over"}

\* When nothing is on the way the two buds agree whether there is a session,
\* and it runs over one and the same open channel: requests that cross, closes
\* that cross an open and a lost link leave no half of a session behind.
SessionsAgree ==
    Idle => /\ up = {} \/ up = Buds
            /\ up = Buds => /\ In(link["L"].cid, {"open"}) /\ link["L"].cid = link["R"].cid
                            /\ \A p \in Buds : link[p].state = "CONNECTED"
            /\ up = {}   => \A p \in Buds : link[p].state = "NONE"

\* No two channels of the buds are up at the same time.
OneChannel == Cardinality({c \in Channels : chan[c].phase \in {"accepted", "open"}}) <= 1

\* remote_mgr believes in a session only while bt_rdtp has its link, so a
\* relayed message never finds a link that is being opened.
SessionHasLink ==
    /\ \A p \in up : link[p].state \in {"CONNECTED", "DISCONNECTING"}
    /\ \A p \in Buds : link[p].state = "CONNECTED" => p \in up

\* A session that is being opened or closed is settled in the end, one way or
\* the other.
Settled(p) == link[p].state \in {"NONE", "CONNECTED"}
AlwaysSettles == \A p \in Buds : ~Settled(p) ~> Settled(p)

\* remote_session_close returns "released successfully": a link that is being
\* closed has a channel L2CAP knows, or the message that ends it has come.
ClosingEnds ==
    \A p \in Buds :
        link[p].state = "DISCONNECTING" =>
            \/ In(link[p].cid, {"closing", "closed"})
            \/ \E i \in DOMAIN evq[p] : /\ evq[p][i].type \in {"DISCONN_IND", "DISCONN_RSP"}
                                        /\ evq[p][i].cid = link[p].cid
=============================================================================
