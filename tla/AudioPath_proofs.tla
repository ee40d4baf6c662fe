------------------------- MODULE AudioPath_proofs -------------------------
(***************************************************************************)
(* What is proved of AudioPath, for any number of paths and any choice of  *)
(* categories: every safety property the runs check.                       *)
(*                                                                         *)
(* Handlers nest (a path that runs tells its user, who stops it, which     *)
(* takes it down), so the operators of the model are functions of a state  *)
(* b, and a lemma says of each one what it keeps.  Core(b, o) is what      *)
(* holds of b in the middle of a handler: each path is at one of the steps *)
(* of being brought up, running or being taken down, with the messages     *)
(* that step implies (Fits); at most one is brought up, and none then is   *)
(* taken down (Steady); those that are active mix (Mixes).  o is the path  *)
(* that still owes a message at that point, if any.  Good(b, o, Z, R) adds *)
(* what the users, the flag PATH_STARTING and the stops that wait for it   *)
(* have to do with the paths; Z are the paths whose user is being told     *)
(* that it is idle, R those whose stop is being made again.  The inductive *)
(* invariant, Inv, is Good of the state between two handlers, together     *)
(* with NoStall.                                                           *)
(***************************************************************************)
EXTENDS AudioPath, ListFacts, FiniteSetTheorems

Occasions == {"ANALOG_ON", "ANALOG_OFF", "DIGITAL_ON", "DIGITAL_OFF"}
Messages == [path : Paths, occasion : Occasions]

State ==
  [list : Seq(Paths), path : [Paths -> PathRecord], starting : BOOLEAN,
   stops : Seq(Paths), ancEnabling : Paths \cup {NoPath}, ancDisabling : Paths \cup {NoPath},
   msgs : Seq(Messages), power : {"off", "booting", "on", "closing"}, missed : BOOLEAN]

HasCodec(c) == "codec" \in Domains(c)
HasDsp(c) == "dsp" \in Domains(c)

-----------------------------------------------------------------------------
(* The steps of a path.  w stands for the messages of the path under way,  *)
(* e and d for it being the path that waits for the ANC engine.            *)

Mails == Occasions \cup {"none", "ON_OFF"}

NoMail(m, p) == \A i \in DOMAIN m : m[i].path # p
OneMail(m, p, o) ==
  \E i \in DOMAIN m : /\ m[i].path = p /\ m[i].occasion = o
                      /\ \A k \in DOMAIN m : m[k].path = p => k = i
TwoMails(m, p) ==
  \E i, j \in DOMAIN m : /\ i < j
                         /\ m[i].path = p /\ m[i].occasion = "DIGITAL_ON"
                         /\ m[j].path = p /\ m[j].occasion = "DIGITAL_OFF"
                         /\ \A k \in DOMAIN m : m[k].path = p => k = i \/ k = j
Mail(m, p, w) == \/ w = "none" /\ NoMail(m, p)
                 \/ w \in Occasions /\ OneMail(m, p, w)
                 \/ w = "ON_OFF" /\ TwoMails(m, p)

CodecIn(x, s) == IF HasCodec(x.cat) THEN x.codec \in s ELSE x.codec = "off"

AtRest(x, w, e, d) ==
  /\ x.codec = "off" /\ x.dsp = "off" /\ ~x.plugin /\ ~x.waitCodec /\ ~x.waitRunning
  /\ w = "none" /\ ~e /\ ~d

Rising(x, w, e, d) ==
  /\ ~d
  /\ e => /\ IsAnc(x.cat) /\ x.codec = "on" /\ x.dsp = "off" /\ x.plugin
          /\ ~x.waitCodec /\ ~x.waitRunning /\ w = "none"
  /\ ~e =>
       /\ x.waitRunning /\ ~x.plugin
       /\ x.waitCodec => /\ HasCodec(x.cat) /\ HasDsp(x.cat)
                         /\ x.codec = "enabling" /\ x.dsp = "prepared" /\ w = "none"
       /\ ~x.waitCodec =>
            \/ /\ HasDsp(x.cat)
               /\ \/ x.dsp = "loading" /\ w = "none" /\ CodecIn(x, {"enabling", "on"})
                  \/ x.dsp = "prepared" /\ w = "ANALOG_ON" /\ CodecIn(x, {"on"})
                  \/ x.dsp = "creating" /\ w = "none" /\ CodecIn(x, {"on"})
                  \/ x.dsp = "on" /\ w = "DIGITAL_ON" /\ CodecIn(x, {"on"}) /\ x.cat # "PIPE"
            \/ /\ ~HasDsp(x.cat) /\ x.dsp = "off"
               /\ \/ x.codec = "enabling" /\ w = "none"
                  \/ x.codec = "on" /\ w \in {"ANALOG_ON", "DIGITAL_ON"}

Risen(x, w, e, d) ==
  /\ ~d /\ ~e /\ ~x.waitCodec /\ ~x.waitRunning
  /\ CodecIn(x, {"on"})
  /\ IF HasDsp(x.cat) THEN x.dsp = "on" ELSE x.dsp = "off"
  /\ x.plugin => w = "none"
  /\ ~x.plugin => x.cat = "PIPE" /\ w = "DIGITAL_ON"

Falling(x, w, e, d) ==
  /\ ~e /\ ~x.waitCodec /\ ~x.waitRunning
  /\ d => IsAnc(x.cat) /\ x.dsp = "off" /\ x.codec = "on" /\ x.plugin /\ w = "none"
  /\ \/ /\ HasDsp(x.cat) /\ x.dsp = "disabling" /\ CodecIn(x, {"on"})
        /\ x.plugin => w = "none"
        /\ ~x.plugin => x.cat = "PIPE" /\ w = "DIGITAL_ON"
     \/ /\ x.dsp = "off"
        /\ \/ x.plugin /\ w = "DIGITAL_OFF" /\ CodecIn(x, {"on"})
           \/ ~x.plugin /\ w = "ON_OFF" /\ x.cat = "PIPE" /\ x.codec = "off"
           \/ ~x.plugin /\ w = "none" /\ HasCodec(x.cat) /\ x.codec = "disabling"
           \/ ~x.plugin /\ w = "ANALOG_OFF" /\ x.codec = "off"
           \/ x.plugin /\ w = "none" /\ ~HasDsp(x.cat) /\ x.codec = "on"

Phase(x, w, e, d) ==
  /\ x.state \in {"IDLE", "PENDING"} => AtRest(x, w, e, d)
  /\ x.state = "READY" => Rising(x, w, e, d)
  /\ x.state = "RUNNING" => Risen(x, w, e, d)
  /\ x.state \in {"SUSPENDING", "STOPPING"} => Falling(x, w, e, d)

Exists(x) == IF x.cat = "none" THEN x = Absent ELSE x.user # "none"

-----------------------------------------------------------------------------
(* What holds in the middle of a handler, and between two of them.         *)

\* The path that owes the message that its session has started counts as if
\* it had sent it.
Sent(b, o, p, w) ==
  IF p = o THEN w = "DIGITAL_ON" /\ NoMail(b.msgs, p) ELSE Mail(b.msgs, p, w)

Fits(b, o, p) ==
  /\ Exists(b.path[p])
  /\ \E w \in Mails :
        Sent(b, o, p, w) /\ Phase(b.path[p], w, b.ancEnabling = p, b.ancDisabling = p)

Listed(b) ==
  /\ \A i, j \in DOMAIN b.list : b.list[i] = b.list[j] => i = j
  /\ \A p \in Paths : (\E i \in DOMAIN b.list : b.list[i] = p) <=> b.path[p].cat # "none"

Steady(b) ==
  \A p, q \in Paths :
    b.path[p].state = "READY" =>
      /\ b.path[q].state = "READY" => q = p
      /\ b.path[q].state \notin {"SUSPENDING", "STOPPING"}

Busy(x) == x.state \in {"READY", "RUNNING", "SUSPENDING", "STOPPING"}

Mixes(b) ==
  \A p, q \in Paths :
    Busy(b.path[p]) /\ Busy(b.path[q]) /\ p # q =>
      \/ b.path[p].cat \notin Excludes(b.path[q].cat)
      \/ b.path[q].cat \notin Excludes(b.path[p].cat)

Core(b, o) == /\ b \in State /\ Listed(b)
              /\ \A p \in Paths : Fits(b, o, p)
              /\ Steady(b) /\ Mixes(b)

\* A path is idle when its user takes its session for stopped, except those
\* of Z, whose user is being told.
Users(b, Z) ==
  \A p \in Paths \ Z : b.path[p].state = "IDLE" <=> b.path[p].user \in {"none", "stopped"}

Starting(b) == b.starting <=> \E p \in Paths : b.path[p].state = "READY"

Waits(b, p) == \E i \in DOMAIN b.stops : b.stops[i] = p

Stops(b, R) ==
  /\ \A i, j \in DOMAIN b.stops : b.stops[i] = b.stops[j] => i = j
  /\ b.stops # <<>> => b.starting
  /\ \A p \in Paths :
       /\ Waits(b, p) \/ p \in R => /\ b.path[p].user = "stopping"
                                    /\ b.path[p].state \notin {"IDLE", "STOPPING"}
       /\ ~(Waits(b, p) /\ p \in R)

Good(b, o, Z, R) == Core(b, o) /\ Users(b, Z) /\ Starting(b) /\ Stops(b, R)

\* NoStall of any state.
NoStallOf(b) ==
  InState(b, "PENDING") # {} /\ (\A p \in Paths : ~Busy(b.path[p]) \/ b.path[p].state = "RUNNING") =>
    LET p == audio_path_schedule_switch(b)
    IN \/ b.missed
       \/ "dsp" \in Domains(Cat(b, p)) /\ b.power \in {"booting", "closing"}
       \/ ~audio_path_is_mixable(b, p) /\ Yielding(b, p) = {}

Inv == Good(a, NoPath, {}, {}) /\ NoStallOf(a)
-----------------------------------------------------------------------------
(* Tables, messages and records.                                           *)

\* Every path has a codec or a DSP session; those of the ANC engine and of
\* the hardware VAD have no DSP session, a pipe nothing else.
LEMMA DomainFacts ==
  ASSUME NEW c
  PROVE  /\ HasCodec(c) \/ HasDsp(c)
         /\ ~HasDsp(c) <=> IsAnc(c) \/ c = "HWVAD"
         /\ "plugin" \in Domains(c) <=> c # "PIPE"
         /\ c = "PIPE" => ~HasCodec(c) /\ HasDsp(c)
         /\ Domains(c) \subseteq {"codec", "dsp", "plugin"}
         /\ IsAnc(c) => c # "HWVAD"
BY DEF HasCodec, HasDsp, Domains, IsAnc

\* When the wait of a path to run is over.
LEMMA MayRunFacts ==
  ASSUME NEW x \in PathRecord
  PROVE  MayRun(x) <=> /\ x.waitRunning
                       /\ HasCodec(x.cat) => x.codec \in {"on", "disabling"}
                       /\ HasDsp(x.cat) => x.dsp \in {"on", "disabling"}
                       /\ x.cat # "PIPE" => x.plugin
<1>1. "codec" \in Up(x) <=> x.codec \in {"on", "disabling"}
  BY DEF Up
<1>2. "dsp" \in Up(x) <=> x.dsp \in {"on", "disabling"}
  BY DEF Up
<1>3. "plugin" \in Up(x) <=> x.plugin
  BY DEF Up, PathRecord
<1>4. Domains(x.cat) \subseteq Up(x) <=> /\ HasCodec(x.cat) => "codec" \in Up(x)
                                         /\ HasDsp(x.cat) => "dsp" \in Up(x)
                                         /\ x.cat # "PIPE" => "plugin" \in Up(x)
  BY DomainFacts DEF HasCodec, HasDsp
<1> QED BY <1>1, <1>2, <1>3, <1>4 DEF MayRun

\* A message of another path leaves those of p.
LEMMA MailOther ==
  ASSUME NEW m \in Seq(Messages), NEW e \in Messages, NEW p \in Paths, e.path # p, NEW w,
         Mail(m, p, w)
  PROVE  Mail(Append(m, e), p, w)
<1> DEFINE n == Append(m, e)
<1>1. Len(m) \in Nat /\ DOMAIN m = 1..Len(m) /\ DOMAIN n = 1..(Len(m) + 1)
      /\ n[Len(m) + 1] = e /\ \A i \in 1..Len(m) : n[i] = m[i]
  BY AppendProperties, LenProperties
<1> HIDE DEF n
<1>2. NoMail(m, p) => NoMail(n, p)
  BY <1>1 DEF NoMail
<1>3. OneMail(m, p, w) => OneMail(n, p, w)
  BY <1>1 DEF OneMail
<1>4. TwoMails(m, p) => TwoMails(n, p)
  BY <1>1 DEF TwoMails
<1>5. Mail(n, p, w)
  BY <1>2, <1>3, <1>4 DEF Mail
<1> QED BY <1>5 DEF n

\* A message of p comes after those it has.
LEMMA MailOwn ==
  ASSUME NEW m \in Seq(Messages), NEW p \in Paths, NEW o \in Occasions
  PROVE  LET n == Append(m, [path |-> p, occasion |-> o])
         IN  /\ NoMail(m, p) => Mail(n, p, o)
             /\ Mail(m, p, "DIGITAL_ON") /\ o = "DIGITAL_OFF" => Mail(n, p, "ON_OFF")
<1> DEFINE e == [path |-> p, occasion |-> o]
           n == Append(m, e)
<1>1. Len(m) \in Nat /\ DOMAIN m = 1..Len(m) /\ DOMAIN n = 1..(Len(m) + 1)
      /\ n[Len(m) + 1] = e /\ \A i \in 1..Len(m) : n[i] = m[i]
  <2> e \in Messages
    BY DEF Messages
  <2> QED BY AppendProperties, LenProperties
<1>2. e.path = p /\ e.occasion = o
  OBVIOUS
<1> HIDE DEF n, e
<1>3. ASSUME NoMail(m, p) PROVE OneMail(n, p, o)
  <2>1. \A k \in DOMAIN n : n[k].path = p => k = Len(m) + 1
    BY <1>1, <1>3 DEF NoMail
  <2> QED BY <1>1, <1>2, <2>1 DEF OneMail
<1>4. ASSUME OneMail(m, p, "DIGITAL_ON"), o = "DIGITAL_OFF" PROVE TwoMails(n, p)
  <2>1. PICK i \in DOMAIN m : /\ m[i].path = p /\ m[i].occasion = "DIGITAL_ON"
                              /\ \A k \in DOMAIN m : m[k].path = p => k = i
    BY <1>4 DEF OneMail
  <2>2. \A k \in DOMAIN n : n[k].path = p => k = i \/ k = Len(m) + 1
    BY <1>1, <2>1
  <2>3. i \in DOMAIN n /\ Len(m) + 1 \in DOMAIN n /\ i < Len(m) + 1 /\ n[i] = m[i]
    BY <1>1
  <2> QED BY <1>1, <1>2, <1>4, <2>1, <2>2, <2>3 DEF TwoMails
<1>5. Mail(m, p, "DIGITAL_ON") => OneMail(m, p, "DIGITAL_ON")
  BY DEF Mail
<1>6. /\ NoMail(m, p) => Mail(n, p, o)
      /\ Mail(m, p, "DIGITAL_ON") /\ o = "DIGITAL_OFF" => Mail(n, p, "ON_OFF")
  BY <1>3, <1>4, <1>5 DEF Mail
<1> QED BY <1>6 DEF n, e

\* The first message is handled.
LEMMA MailTail ==
  ASSUME NEW m \in Seq(Messages), m # <<>>, NEW p \in Paths, NEW w, Mail(m, p, w)
  PROVE  /\ Tail(m) \in Seq(Messages)
         /\ Head(m).path # p => Mail(Tail(m), p, w)
         /\ Head(m).path = p => \/ w = Head(m).occasion /\ NoMail(Tail(m), p)
                                \/ /\ w = "ON_OFF" /\ Head(m).occasion = "DIGITAL_ON"
                                   /\ Mail(Tail(m), p, "DIGITAL_OFF")
<1> DEFINE n == Tail(m)
           h == Head(m)
<1>1. /\ Len(m) \in Nat /\ Len(m) > 0 /\ DOMAIN m = 1..Len(m) /\ DOMAIN n = 1..(Len(m) - 1)
      /\ h = m[1] /\ \A i \in 1..(Len(m) - 1) : n[i] = m[i + 1]
      /\ n \in Seq(Messages)
  <2>1. Len(m) \in Nat /\ DOMAIN m = 1..Len(m) /\ Len(m) # 0
    BY LenProperties, EmptySeq
  <2>2. n \in Seq(Messages) /\ Len(n) = Len(m) - 1 /\ DOMAIN n = 1..Len(n) /\ h = m[1]
    BY HeadTailProperties, LenProperties
  <2>3. \A i \in 1..(Len(m) - 1) : n[i] = m[i + 1]
    BY <2>1, <2>2, HeadTailProperties
  <2> QED BY <2>1, <2>2, <2>3
<1> HIDE DEF n, h
<1>2. \A k \in DOMAIN m : k = 1 \/ (k - 1 \in DOMAIN n /\ n[k - 1] = m[k])
  BY <1>1
<1>3. \A k \in DOMAIN n : k + 1 \in DOMAIN m /\ n[k] = m[k + 1] /\ k + 1 # 1 /\ k \in Int
  BY <1>1
<1>4. 1 \in DOMAIN m
  BY <1>1
<1>5. CASE w = "none" /\ NoMail(m, p)
  <2>1. h.path # p
    BY <1>1, <1>4, <1>5 DEF NoMail
  <2>2. NoMail(n, p)
    BY <1>3, <1>5 DEF NoMail
  <2> QED BY <1>1, <1>5, <2>1, <2>2 DEF Mail, n, h
<1>6. CASE w \in Occasions /\ OneMail(m, p, w)
  <2>1. PICK i \in DOMAIN m : /\ m[i].path = p /\ m[i].occasion = w
                              /\ \A k \in DOMAIN m : m[k].path = p => k = i
    BY <1>6 DEF OneMail
  <2>2. CASE i = 1
    <3>1. h.path = p /\ h.occasion = w
      BY <1>1, <2>1, <2>2
    <3>2. NoMail(n, p)
      BY <1>3, <2>1, <2>2 DEF NoMail
    <3> QED BY <1>1, <3>1, <3>2 DEF n, h
  <2>3. CASE i # 1
    <3>1. h.path # p
      BY <1>1, <1>4, <2>1, <2>3
    <3>2. i - 1 \in DOMAIN n /\ n[i - 1] = m[i]
      BY <1>2, <2>3
    <3>3. \A k \in DOMAIN n : n[k].path = p => k = i - 1
      BY <1>1, <1>3, <2>1
    <3>4. OneMail(n, p, w)
      BY <2>1, <3>2, <3>3 DEF OneMail
    <3> QED BY <1>1, <1>6, <3>1, <3>4 DEF Mail, n, h
  <2> QED BY <2>2, <2>3
<1>7. CASE w = "ON_OFF" /\ TwoMails(m, p)
  <2>1. PICK i, j \in DOMAIN m :
          /\ i < j
          /\ m[i].path = p /\ m[i].occasion = "DIGITAL_ON"
          /\ m[j].path = p /\ m[j].occasion = "DIGITAL_OFF"
          /\ \A k \in DOMAIN m : m[k].path = p => k = i \/ k = j
    BY <1>7 DEF TwoMails
  <2>2. j # 1 /\ j - 1 \in DOMAIN n /\ n[j - 1] = m[j]
    BY <1>1, <1>2, <2>1
  <2>3. CASE i = 1
    <3>1. h.path = p /\ h.occasion = "DIGITAL_ON"
      BY <1>1, <2>1, <2>3
    <3>2. \A k \in DOMAIN n : n[k].path = p => k = j - 1
      BY <1>1, <1>3, <2>1, <2>3
    <3>3. OneMail(n, p, "DIGITAL_OFF")
      BY <2>1, <2>2, <3>2 DEF OneMail
    <3> QED BY <1>1, <1>7, <3>1, <3>3 DEF Mail, n, h, Occasions
  <2>4. CASE i # 1
    <3>1. h.path # p
      BY <1>1, <1>4, <2>1, <2>2, <2>4
    <3>2. i - 1 \in DOMAIN n /\ n[i - 1] = m[i] /\ i - 1 < j - 1
      BY <1>1, <1>2, <2>1, <2>4
    <3>3. ASSUME NEW k \in DOMAIN n, n[k].path = p PROVE k = i - 1 \/ k = j - 1
      <4>1. k + 1 \in DOMAIN m /\ m[k + 1].path = p
        BY <1>3, <3>3
      <4>2. k + 1 = i \/ k + 1 = j
        BY <2>1, <4>1
      <4>3. k \in Int /\ i \in Int /\ j \in Int
        BY <1>1
      <4> QED BY <4>2, <4>3
    <3>4. TwoMails(n, p)
      BY <2>1, <2>2, <3>2, <3>3 DEF TwoMails
    <3> QED BY <1>1, <1>7, <3>1, <3>4 DEF Mail, n, h
  <2> QED BY <2>3, <2>4
<1> QED BY <1>5, <1>6, <1>7 DEF Mail

-----------------------------------------------------------------------------
(* The path whose turn it is.                                              *)

\* The choice after the first n paths of the list.
Choice(b, select, n) ==
  IF n = 0 THEN NoPath
  ELSE IF b.path[b.list[n]].state # "PENDING" THEN select[n - 1]
  ELSE IF select[n - 1] = NoPath THEN b.list[n]
  ELSE audio_path_schedule_priority(b, select[n - 1], b.list[n])

\* The choices one by one: each is made from the one before.
Selects(b, select) == select = [n \in 0..Len(b.list) |-> Choice(b, select, n)]

\* The choices can be made one by one, and the last one is what the scheduler takes.
LEMMA SelectionExists ==
  ASSUME NEW b, Len(b.list) \in Nat
  PROVE  \E select : /\ Selects(b, select)
                     /\ audio_path_schedule_switch(b) = select[Len(b.list)]
<1> DEFINE N == Len(b.list)
           Upto(m) == \E f : f = [n \in 0..m |-> Choice(b, f, n)]
           T == {m \in 0..N : ~Upto(m)}
<1>1. Upto(0)
  <2> DEFINE g == [n \in 0..0 |-> NoPath]
  <2>1. g = [n \in 0..0 |-> Choice(b, g, n)]
    BY DEF Choice
  <2> QED BY <2>1
<1>2. ASSUME NEW m \in 0..N, m # 0, Upto(m - 1) PROVE Upto(m)
  <2>1. PICK f : f = [n \in 0..(m - 1) |-> Choice(b, f, n)]
    BY <1>2
  <2> DEFINE g == [n \in 0..m |-> IF n = m THEN Choice(b, f, m) ELSE f[n]]
  <2>2. \A n \in 0..(m - 1) : f[n] = Choice(b, f, n)
    BY <2>1
  <2>3. \A n \in 0..m : g[n] = Choice(b, g, n)
    <3>1. TAKE n \in 0..m
    <3>2. n = 0 \/ g[n - 1] = f[n - 1]
      BY <1>2
    <3>3. Choice(b, g, n) = Choice(b, f, n)
      BY <3>2 DEF Choice
    <3>4. n # m => n \in 0..(m - 1)
      BY <1>2
    <3> QED BY <2>2, <3>3, <3>4
  <2>4. g = [n \in 0..m |-> Choice(b, g, n)]
    BY <2>3
  <2> QED BY <2>4
<1> HIDE DEF Upto
<1>3. T = {}
  <2> SUFFICES ASSUME T # {} PROVE FALSE
    OBVIOUS
  <2> T \subseteq Nat
    OBVIOUS
  <2> HIDE DEF T
  <2>1. PICK m \in T : \A k \in T : m <= k
    BY LeastNat
  <2> USE DEF T
  <2>2. m # 0 /\ m - 1 \in 0..N /\ ~(m <= m - 1)
    BY <1>1, <2>1
  <2>3. Upto(m - 1)
    BY <2>1, <2>2
  <2> QED BY <1>2, <2>1, <2>2, <2>3
<1>4. Upto(N)
  BY <1>3
<1> DEFINE s == CHOOSE f : f = [n \in 0..N |-> Choice(b, f, n)]
<1>5. s = [n \in 0..N |-> Choice(b, s, n)]
  BY <1>4 DEF Upto
<1>6. audio_path_schedule_switch(b) = s[N]
  BY DEF audio_path_schedule_switch, Choice
<1> HIDE DEF s
<1> QED BY <1>5, <1>6 DEF Selects

Pending(b, p) == b.path[p].state = "PENDING"

\* The choice is a pending path of the list; there is none when no path of
\* the list is pending.
LEMMA SwitchPending ==
  ASSUME NEW b, b.list \in Seq(Paths)
  PROVE  LET p == audio_path_schedule_switch(b)
         IN  IF p = NoPath THEN \A i \in DOMAIN b.list : ~Pending(b, b.list[i])
             ELSE p \in Paths /\ Pending(b, p)
<1> DEFINE N == Len(b.list)
<1>1. N \in Nat /\ DOMAIN b.list = 1..N /\ \A i \in 1..N : b.list[i] \in Paths
  BY LenProperties, ElementOfSeq
<1>2. PICK s : Selects(b, s) /\ audio_path_schedule_switch(b) = s[N]
  BY <1>1, SelectionExists
<1>3. \A n \in 0..N : s[n] = Choice(b, s, n)
  BY <1>2 DEF Selects
<1> DEFINE Right(n) == IF s[n] = NoPath THEN \A i \in 1..n : ~Pending(b, b.list[i])
                       ELSE s[n] \in Paths /\ Pending(b, s[n])
           T == {n \in 0..N : ~Right(n)}
<1>4. Right(0)
  BY <1>1, <1>3 DEF Choice
<1>5. ASSUME NEW n \in 0..N, n # 0, Right(n - 1) PROVE Right(n)
  <2>1. n \in 1..N /\ n - 1 \in 0..N
    BY <1>1, <1>5
  <2>2. b.list[n] \in Paths /\ b.list[n] # NoPath
    BY <1>1, <2>1, NoPathAssumption
  <2>3. \A i \in 1..n : i = n \/ i \in 1..(n - 1)
    BY <2>1
  <2>4. s[n] = Choice(b, s, n)
    BY <1>3
  <2>5. CASE ~Pending(b, b.list[n])
    <3>1. s[n] = s[n - 1]
      BY <1>5, <2>4, <2>5 DEF Choice, Pending
    <3> QED BY <1>5, <2>3, <2>5, <3>1
  <2>6. CASE Pending(b, b.list[n])
    <3>1. s[n] = b.list[n] \/ (s[n - 1] # NoPath /\ s[n] = s[n - 1])
      BY <1>5, <2>4, <2>6 DEF Choice, Pending, audio_path_schedule_priority
    <3> QED BY <1>5, <2>2, <2>6, <3>1
  <2> QED BY <2>5, <2>6
<1>6. T = {}
  <2> SUFFICES ASSUME T # {} PROVE FALSE
    OBVIOUS
  <2> T \subseteq Nat
    OBVIOUS
  <2> HIDE DEF T
  <2>1. PICK m \in T : \A k \in T : m <= k
    BY LeastNat
  <2> USE DEF T
  <2>2. m # 0 /\ m - 1 \in 0..N /\ ~(m <= m - 1)
    BY <1>4, <2>1
  <2>3. m - 1 \notin T
    BY <2>1, <2>2
  <2> HIDE DEF Right
  <2> QED BY <1>5, <2>1, <2>2, <2>3
<1>7. Right(N)
  <2> HIDE DEF Right
  <2> QED BY <1>1, <1>6
<1> QED BY <1>1, <1>2, <1>7

\* The choice depends only on the pending paths, their order and their
\* categories: the other paths of the list may come and go.  g tells where
\* the first n paths of a list are in the shorter one.
LEMMA SwitchSame ==
  ASSUME NEW b, b.list \in Seq(Paths), NEW c, c.list \in Seq(Paths),
         NEW g \in [0..Len(b.list) -> 0..Len(c.list)],
         g[0] = 0, g[Len(b.list)] = Len(c.list),
         \A n \in 1..Len(b.list) :
            IF Pending(b, b.list[n])
            THEN g[n] = g[n - 1] + 1 /\ c.list[g[n]] = b.list[n]
            ELSE g[n] = g[n - 1] \/ (g[n] = g[n - 1] + 1 /\ ~Pending(c, c.list[g[n]])),
         \A p \in Paths : Pending(b, p) => Pending(c, p) /\ c.path[p].cat = b.path[p].cat
  PROVE  audio_path_schedule_switch(c) = audio_path_schedule_switch(b)
<1> DEFINE N == Len(b.list)
<1>1. N \in Nat /\ Len(c.list) \in Nat /\ \A i \in 1..N : b.list[i] \in Paths
  BY LenProperties, ElementOfSeq
<1>2. PICK s : Selects(b, s) /\ audio_path_schedule_switch(b) = s[N]
  BY <1>1, SelectionExists
<1>3. PICK t : Selects(c, t) /\ audio_path_schedule_switch(c) = t[Len(c.list)]
  BY <1>1, SelectionExists
<1>4. \A n \in 0..N : s[n] = Choice(b, s, n)
  BY <1>2 DEF Selects
<1>5. \A n \in 0..Len(c.list) : t[n] = Choice(c, t, n)
  <2>1. Selects(c, t)
    BY <1>3
  <2> QED BY <2>1 DEF Selects
<1> DEFINE Right(n) == t[g[n]] = s[n] /\ (s[n] = NoPath \/ (s[n] \in Paths /\ Pending(b, s[n])))
           T == {n \in 0..N : ~Right(n)}
<1>6. Right(0)
  BY <1>1, <1>4, <1>5 DEF Choice
<1>7. ASSUME NEW n \in 0..N, n # 0, Right(n - 1) PROVE Right(n)
  <2>1. n \in 1..N /\ n - 1 \in 0..N
    BY <1>1, <1>7
  <2>2. b.list[n] \in Paths /\ b.list[n] # NoPath
    BY <1>1, <2>1, NoPathAssumption
  <2>3. g[n] \in 0..Len(c.list) /\ g[n - 1] \in 0..Len(c.list)
    BY <2>1
  <2>4. s[n] = Choice(b, s, n) /\ t[g[n]] = Choice(c, t, g[n])
    BY <1>4, <1>5, <2>3
  <2>5. CASE ~Pending(b, b.list[n])
    <3>1. s[n] = s[n - 1]
      BY <1>7, <2>4, <2>5 DEF Choice, Pending
    <3>2. g[n] = g[n - 1] \/ (g[n] = g[n - 1] + 1 /\ ~Pending(c, c.list[g[n]]))
      BY <2>1, <2>5
    <3>3. t[g[n]] = t[g[n - 1]]
      <4>1. CASE g[n] = g[n - 1]
        BY <4>1
      <4>2. CASE g[n] = g[n - 1] + 1 /\ ~Pending(c, c.list[g[n]])
        <5>1. g[n] # 0 /\ g[n] - 1 = g[n - 1]
          BY <1>1, <2>3, <4>2
        <5> QED BY <2>4, <4>2, <5>1 DEF Choice, Pending
      <4> QED BY <3>2, <4>1, <4>2
    <3> QED BY <1>7, <3>1, <3>3
  <2>6. CASE Pending(b, b.list[n])
    <3>1. g[n] = g[n - 1] + 1 /\ c.list[g[n]] = b.list[n]
      BY <2>1, <2>6
    <3>2. g[n] # 0 /\ g[n] - 1 = g[n - 1]
      BY <1>1, <2>3, <3>1
    <3>3. Pending(c, b.list[n]) /\ c.path[b.list[n]].cat = b.path[b.list[n]].cat
      BY <2>2, <2>6
    <3>4. s[n] = IF s[n - 1] = NoPath THEN b.list[n]
                 ELSE audio_path_schedule_priority(b, s[n - 1], b.list[n])
      BY <1>7, <2>4, <2>6 DEF Choice, Pending
    <3>5. t[g[n]] = IF s[n - 1] = NoPath THEN b.list[n]
                    ELSE audio_path_schedule_priority(c, s[n - 1], b.list[n])
      BY <1>7, <2>4, <3>1, <3>2, <3>3 DEF Choice, Pending
    <3>6. s[n - 1] = NoPath \/ (s[n - 1] \in Paths /\ c.path[s[n - 1]].cat = b.path[s[n - 1]].cat)
      BY <1>7
    <3>7. t[g[n]] = s[n]
      BY <3>3, <3>4, <3>5, <3>6 DEF audio_path_schedule_priority, Cat
    <3>8. s[n] = b.list[n] \/ (s[n - 1] # NoPath /\ s[n] = s[n - 1])
      BY <3>4 DEF audio_path_schedule_priority
    <3> QED BY <1>7, <2>2, <2>6, <3>7, <3>8
  <2> QED BY <2>5, <2>6
<1>8. T = {}
  <2> SUFFICES ASSUME T # {} PROVE FALSE
    OBVIOUS
  <2> T \subseteq Nat
    OBVIOUS
  <2> HIDE DEF T
  <2>1. PICK m \in T : \A k \in T : m <= k
    BY LeastNat
  <2> USE DEF T
  <2>2. m # 0 /\ m - 1 \in 0..N /\ ~(m <= m - 1)
    BY <1>6, <2>1
  <2>3. m - 1 \notin T
    BY <2>1, <2>2
  <2> HIDE DEF Right
  <2> QED BY <1>7, <2>1, <2>2, <2>3
<1>9. Right(N)
  <2> HIDE DEF Right
  <2> QED BY <1>1, <1>8
<1> QED BY <1>2, <1>3, <1>9

-----------------------------------------------------------------------------
(* Records.                                                                *)

\* The types of the fields of a state.
LEMMA StateFields ==
  ASSUME NEW b \in State
  PROVE  /\ b.list \in Seq(Paths) /\ b.stops \in Seq(Paths) /\ b.msgs \in Seq(Messages)
         /\ b.path \in [Paths -> PathRecord] /\ \A p \in Paths : b.path[p] \in PathRecord
         /\ b.starting \in BOOLEAN /\ b.missed \in BOOLEAN
         /\ b.ancEnabling \in Paths \cup {NoPath} /\ b.ancDisabling \in Paths \cup {NoPath}
         /\ b.power \in {"off", "booting", "on", "closing"}
BY DEF State

\* The list, the stops that wait, the messages and the ANC engine's paths.
SameQueues(b, c) ==
  /\ c.list = b.list /\ c.stops = b.stops /\ c.msgs = b.msgs
  /\ c.ancEnabling = b.ancEnabling /\ c.ancDisabling = b.ancDisabling

\* The states of c and b differ in the record of p at most.
SameButPath(b, c, p) ==
  /\ SameQueues(b, c)
  /\ c.starting = b.starting /\ c.power = b.power /\ c.missed = b.missed
  /\ \A q \in Paths \ {p} : c.path[q] = b.path[q]

\* Set changes one field of one path.
LEMMA SetPath ==
  ASSUME NEW b \in State, NEW p \in Paths, NEW y \in PathRecord, NEW f, NEW v,
         y = [b.path[p] EXCEPT ![f] = v]
  PROVE  /\ Set(b, p, f, v) \in State
         /\ Set(b, p, f, v).path[p] = y
         /\ SameButPath(b, Set(b, p, f, v), p)
<1> DEFINE c == [b EXCEPT !.path[p] = y]
<1>1. Set(b, p, f, v) = c
  BY DEF Set, State
<1>2. c \in State
  BY DEF State
<1>3. c.path[p] = y
  BY DEF State
<1>4. SameButPath(b, c, p)
  BY DEF SameButPath, SameQueues, State
<1> QED BY <1>1, <1>2, <1>3, <1>4

PathStates == {"IDLE", "PENDING", "READY", "RUNNING", "SUSPENDING", "STOPPING"}

\* What each Set of the model does.
LEMMA SetState ==
  ASSUME NEW b \in State, NEW p \in Paths, NEW v \in PathStates
  PROVE  LET c == Set(b, p, "state", v) IN
         /\ c \in State /\ SameButPath(b, c, p)
         /\ c.path[p] = [b.path[p] EXCEPT !.state = v]
         /\ c.path[p].state = v /\ c.path[p].user = b.path[p].user
         /\ c.path[p].cat = b.path[p].cat /\ c.path[p].action = b.path[p].action
<1> DEFINE y == [b.path[p] EXCEPT !.state = v]
<1>1. y \in PathRecord /\ b.path[p] \in PathRecord
  <2>1. b.path[p] \in PathRecord
    BY StateFields
  <2> QED BY <2>1 DEF PathRecord, PathStates
<1>2. /\ y.state = v /\ y.user = b.path[p].user
      /\ y.cat = b.path[p].cat /\ y.action = b.path[p].action
  BY <1>1 DEF PathRecord
<1>3. y = [b.path[p] EXCEPT !["state"] = v]
  OBVIOUS
<1> HIDE DEF y
<1>4. Set(b, p, "state", v) \in State /\ Set(b, p, "state", v).path[p] = y
      /\ SameButPath(b, Set(b, p, "state", v), p)
  BY <1>1, <1>3, SetPath
<1> QED BY <1>2, <1>4 DEF y

UserStates == {"none", "stopped", "starting", "started", "paused", "stopping"}
UserActions == {"none", "start", "stop", "release"}

\* What changes when the user's record of p is set.
LEMMA SetUser ==
  ASSUME NEW b \in State, NEW p \in Paths, NEW v \in UserStates
  PROVE  LET c == Set(b, p, "user", v) IN
         /\ c \in State /\ SameButPath(b, c, p)
         /\ c.path[p] = [b.path[p] EXCEPT !.user = v]
         /\ c.path[p].user = v /\ c.path[p].state = b.path[p].state
         /\ c.path[p].cat = b.path[p].cat /\ c.path[p].action = b.path[p].action
<1> DEFINE y == [b.path[p] EXCEPT !.user = v]
<1>1. y \in PathRecord /\ b.path[p] \in PathRecord
  <2>1. b.path[p] \in PathRecord
    BY StateFields
  <2> QED BY <2>1 DEF PathRecord, UserStates
<1>2. /\ y.user = v /\ y.state = b.path[p].state
      /\ y.cat = b.path[p].cat /\ y.action = b.path[p].action
  BY <1>1 DEF PathRecord
<1>3. y = [b.path[p] EXCEPT !["user"] = v]
  OBVIOUS
<1> HIDE DEF y
<1>4. Set(b, p, "user", v) \in State /\ Set(b, p, "user", v).path[p] = y
      /\ SameButPath(b, Set(b, p, "user", v), p)
  BY <1>1, <1>3, SetPath
<1> QED BY <1>2, <1>4 DEF y

\* What changes when the order that waits for the end of a step is set.
LEMMA SetAction ==
  ASSUME NEW b \in State, NEW p \in Paths, NEW v \in UserActions
  PROVE  LET c == Set(b, p, "action", v) IN
         /\ c \in State /\ SameButPath(b, c, p)
         /\ c.path[p] = [b.path[p] EXCEPT !.action = v]
         /\ c.path[p].action = v /\ c.path[p].state = b.path[p].state
         /\ c.path[p].cat = b.path[p].cat /\ c.path[p].user = b.path[p].user
<1> DEFINE y == [b.path[p] EXCEPT !.action = v]
<1>1. y \in PathRecord /\ b.path[p] \in PathRecord
  <2>1. b.path[p] \in PathRecord
    BY StateFields
  <2> QED BY <2>1 DEF PathRecord, UserActions
<1>2. /\ y.action = v /\ y.state = b.path[p].state
      /\ y.cat = b.path[p].cat /\ y.user = b.path[p].user
  BY <1>1 DEF PathRecord
<1>3. y = [b.path[p] EXCEPT !["action"] = v]
  OBVIOUS
<1> HIDE DEF y
<1>4. Set(b, p, "action", v) \in State /\ Set(b, p, "action", v).path[p] = y
      /\ SameButPath(b, Set(b, p, "action", v), p)
  BY <1>1, <1>3, SetPath
<1> QED BY <1>2, <1>4 DEF y

\* What the drivers of a path do.
Drivers(x) == <<x.cat, x.codec, x.dsp, x.plugin, x.waitCodec, x.waitRunning>>

\* A user may do anything without moving the drivers.
LEMMA UserOnly ==
  ASSUME NEW x \in PathRecord, NEW y, NEW v,
         \/ y = [x EXCEPT !.user = v]
         \/ y = [x EXCEPT !.action = v]
         \/ y = [x EXCEPT !.state = v]
  PROVE  Drivers(y) = Drivers(x)
BY DEF Drivers, PathRecord

\* Drivers(x) is what the drivers know of a path.
LEMMA DriversFields ==
  ASSUME NEW x, NEW y, Drivers(x) = Drivers(y)
  PROVE  /\ x.cat = y.cat /\ x.codec = y.codec /\ x.dsp = y.dsp /\ x.plugin = y.plugin
         /\ x.waitCodec = y.waitCodec /\ x.waitRunning = y.waitRunning
BY DEF Drivers

\* The steps of a path depend on its drivers only.
LEMMA PhaseSame ==
  ASSUME NEW x, NEW y, Drivers(x) = Drivers(y), NEW w, NEW e, NEW d
  PROVE  /\ AtRest(x, w, e, d) <=> AtRest(y, w, e, d)
         /\ Rising(x, w, e, d) <=> Rising(y, w, e, d)
         /\ Risen(x, w, e, d) <=> Risen(y, w, e, d)
         /\ Falling(x, w, e, d) <=> Falling(y, w, e, d)
         /\ x.state = y.state => (Phase(x, w, e, d) <=> Phase(y, w, e, d))
<1>1. /\ x.cat = y.cat /\ x.codec = y.codec /\ x.dsp = y.dsp /\ x.plugin = y.plugin
      /\ x.waitCodec = y.waitCodec /\ x.waitRunning = y.waitRunning
  BY DriversFields
<1>2. AtRest(x, w, e, d) <=> AtRest(y, w, e, d)
  BY <1>1, Zenon DEF AtRest
<1>3. Rising(x, w, e, d) <=> Rising(y, w, e, d)
  BY <1>1, Zenon DEF Rising, CodecIn
<1>4. Risen(x, w, e, d) <=> Risen(y, w, e, d)
  BY <1>1, Zenon DEF Risen, CodecIn
<1>5. Falling(x, w, e, d) <=> Falling(y, w, e, d)
  BY <1>1, Zenon DEF Falling, CodecIn
<1>6. x.state = y.state => (Phase(x, w, e, d) <=> Phase(y, w, e, d))
  BY <1>2, <1>3, <1>4, <1>5, Zenon DEF Phase
<1> QED BY <1>2, <1>3, <1>4, <1>5, <1>6

-----------------------------------------------------------------------------
(* One path at a time.                                                     *)

\* A path whose record and messages stay keeps its step.
LEMMA FitsSame ==
  ASSUME NEW b, NEW c, NEW o, NEW o2, NEW q,
         Fits(b, o, q), c.path[q] = b.path[q], q = o2 <=> q = o,
         \A w \in Mails : Mail(b.msgs, q, w) => Mail(c.msgs, q, w),
         c.ancEnabling = q <=> b.ancEnabling = q,
         c.ancDisabling = q <=> b.ancDisabling = q
  PROVE  Fits(c, o2, q)
<1>1. PICK w \in Mails :
        Sent(b, o, q, w) /\ Phase(b.path[q], w, b.ancEnabling = q, b.ancDisabling = q)
  BY DEF Fits
<1>2. Sent(c, o2, q, w)
  <2>1. Mail(b.msgs, q, "none") <=> NoMail(b.msgs, q)
    BY DEF Mail, Occasions
  <2>2. Mail(c.msgs, q, "none") <=> NoMail(c.msgs, q)
    BY DEF Mail, Occasions
  <2>3. "none" \in Mails
    BY DEF Mails
  <2> QED BY <1>1, <2>1, <2>2, <2>3 DEF Sent
<1>3. (c.ancEnabling = q) = (b.ancEnabling = q) /\ (c.ancDisabling = q) = (b.ancDisabling = q)
  OBVIOUS
<1>4. Phase(c.path[q], w, c.ancEnabling = q, c.ancDisabling = q)
  BY <1>1, <1>3
<1> QED BY <1>1, <1>2, <1>4 DEF Fits

\* A step of one path.
LEMMA OnePath ==
  ASSUME NEW b, NEW o, NEW o2, Core(b, o), NEW p \in Paths, NEW c \in State,
         c.list = b.list,
         \A q \in Paths \ {p} : c.path[q] = b.path[q] /\ Fits(c, o2, q),
         c.path[p].cat = b.path[p].cat, Fits(c, o2, p),
         c.path[p].state = b.path[p].state \/ (Steady(c) /\ Mixes(c))
  PROVE  Core(c, o2)
<1>1. \A q \in Paths : Fits(c, o2, q)
  OBVIOUS
<1>2. \A q \in Paths : c.path[q].cat = b.path[q].cat
  OBVIOUS
<1>3. Listed(c)
  BY <1>2 DEF Listed, Core
<1>4. Steady(c) /\ Mixes(c)
  <2>1. CASE c.path[p].state = b.path[p].state
    <3>1. \A q \in Paths : c.path[q].state = b.path[q].state
      BY <2>1
    <3> QED BY <1>2, <3>1 DEF Steady, Mixes, Core, Busy
  <2> QED BY <2>1
<1> QED BY <1>1, <1>3, <1>4 DEF Core

\* A path that is not brought up disturbs no other; one is taken down only
\* when none is brought up.
LEMMA Lower ==
  ASSUME NEW b, Steady(b), Mixes(b), NEW p \in Paths, NEW c,
         \A q \in Paths \ {p} : c.path[q] = b.path[q],
         c.path[p].cat = b.path[p].cat,
         c.path[p].state # "READY",
         Busy(c.path[p]) => Busy(b.path[p]),
         c.path[p].state \in {"SUSPENDING", "STOPPING"} =>
           \/ b.path[p].state \in {"SUSPENDING", "STOPPING"}
           \/ \A q \in Paths \ {p} : b.path[q].state # "READY"
  PROVE  Steady(c) /\ Mixes(c)
<1>1. \A q \in Paths : c.path[q].state = "READY" => q # p /\ b.path[q].state = "READY"
  OBVIOUS
<1>2. Steady(c)
  BY <1>1 DEF Steady
<1>3. \A q \in Paths : c.path[q].cat = b.path[q].cat /\ (Busy(c.path[q]) => Busy(b.path[q]))
  BY DEF Busy
<1>4. Mixes(c)
  BY <1>3 DEF Mixes
<1> QED BY <1>2, <1>4

\* The user of a path changes its mind: no driver moves.
LEMMA UserStep ==
  ASSUME NEW b, NEW o, Core(b, o), NEW p \in Paths, NEW c \in State, SameButPath(b, c, p),
         Drivers(c.path[p]) = Drivers(b.path[p]), c.path[p].state = b.path[p].state,
         b.path[p].cat # "none", c.path[p].user # "none"
  PROVE  Core(c, o)
<1>1. \A q \in Paths \ {p} : c.path[q] = b.path[q] /\ Fits(c, o, q)
  <2> TAKE q \in Paths \ {p}
  <2>1. Fits(b, o, q)
    BY DEF Core
  <2> QED BY <2>1, FitsSame DEF SameButPath, SameQueues
<1>2. Exists(c.path[p]) /\ c.path[p].cat = b.path[p].cat
  BY DriversFields DEF Exists
<1>3. Fits(c, o, p)
  <2>1. PICK w \in Mails :
          Sent(b, o, p, w) /\ Phase(b.path[p], w, b.ancEnabling = p, b.ancDisabling = p)
    BY DEF Fits, Core
  <2> DEFINE e == b.ancEnabling = p
             d == b.ancDisabling = p
  <2>2. Phase(c.path[p], w, e, d)
    <3>1. Phase(b.path[p], w, e, d)
      BY <2>1
    <3> HIDE DEF e, d
    <3> QED BY <3>1, PhaseSame
  <2>3. Sent(c, o, p, w)
    BY <2>1 DEF Sent, SameButPath, SameQueues
  <2> QED BY <1>2, <2>2, <2>3 DEF Fits, SameButPath, SameQueues
<1> QED BY <1>1, <1>2, <1>3, OnePath DEF SameButPath, SameQueues

-----------------------------------------------------------------------------
(* audio_path_schedule.                                                    *)

\* A path of some state other than idle exists.
LEMMA InStateFacts ==
  ASSUME NEW b, NEW o, Core(b, o), NEW s, s # "IDLE"
  PROVE  InState(b, s) = {p \in Paths : b.path[p].state = s}
<1>1. ASSUME NEW p \in Paths, b.path[p].cat = "none" PROVE b.path[p].state = "IDLE"
  <2>1. Exists(b.path[p])
    BY DEF Core, Fits
  <2>2. b.path[p] = Absent
    BY <1>1, <2>1 DEF Exists
  <2> QED BY <2>2 DEF Absent
<1> QED BY <1>1 DEF InState

\* The scheduler does not see idle paths.
SameAwake(b, c) ==
  \A p \in Paths : \/ c.path[p].cat = b.path[p].cat /\ c.path[p].state = b.path[p].state
                   \/ c.path[p].state = "IDLE" /\ b.path[p].state = "IDLE"

\* The choice of the scheduler depends on the paths that are awake and their order.
LEMMA SwitchKept ==
  ASSUME NEW b \in State, NEW c \in State, c.list = b.list, SameAwake(b, c)
  PROVE  audio_path_schedule_switch(c) = audio_path_schedule_switch(b)
<1> DEFINE g == [n \in 0..Len(b.list) |-> n]
<1>1. b.list \in Seq(Paths) /\ c.list \in Seq(Paths)
  BY StateFields
<1>2. Len(b.list) \in Nat /\ \A n \in 1..Len(b.list) : b.list[n] \in Paths
  BY <1>1, LenProperties, ElementOfSeq
<1>3. g \in [0..Len(b.list) -> 0..Len(c.list)] /\ g[0] = 0 /\ g[Len(b.list)] = Len(c.list)
  BY <1>2
<1>4. \A n \in 1..Len(b.list) : g[n] = n /\ g[n - 1] = n - 1 /\ (n - 1) + 1 = n
  BY <1>2
<1>5. \A p \in Paths : /\ Pending(b, p) <=> Pending(c, p)
                       /\ Pending(b, p) => c.path[p].cat = b.path[p].cat
  BY DEF Pending, SameAwake
<1> HIDE DEF g
<1>6. \A n \in 1..Len(b.list) :
        IF Pending(b, b.list[n])
        THEN g[n] = g[n - 1] + 1 /\ c.list[g[n]] = b.list[n]
        ELSE g[n] = g[n - 1] \/ (g[n] = g[n - 1] + 1 /\ ~Pending(c, c.list[g[n]]))
  BY <1>2, <1>4, <1>5
<1> QED BY <1>1, <1>3, <1>5, <1>6, SwitchSame

\* Whether a pending path mixes with those that run, and which of them yield.
LEMMA MixingKept ==
  ASSUME NEW b, NEW o, Core(b, o), NEW c, NEW o2, Core(c, o2), SameAwake(b, c),
         NEW p \in Paths, b.path[p].state # "IDLE"
  PROVE  /\ audio_path_is_mixable(c, p) <=> audio_path_is_mixable(b, p)
         /\ Yielding(c, p) = Yielding(b, p)
<1>1. /\ InState(b, "RUNNING") = {q \in Paths : b.path[q].state = "RUNNING"}
      /\ InState(c, "RUNNING") = {q \in Paths : c.path[q].state = "RUNNING"}
  BY InStateFacts
<1>2. InState(c, "RUNNING") = InState(b, "RUNNING")
  BY <1>1 DEF SameAwake
<1>3. Cat(c, p) = Cat(b, p) /\ \A q \in InState(b, "RUNNING") : Cat(c, q) = Cat(b, q)
  BY <1>1 DEF Cat, SameAwake
<1>4. audio_path_is_mixable(c, p) <=> audio_path_is_mixable(b, p)
  BY <1>2, <1>3 DEF audio_path_is_mixable
<1>5. \A q \in InState(b, "RUNNING") :
        audio_path_schedule_priority(c, q, p) = audio_path_schedule_priority(b, q, p)
  BY <1>3 DEF audio_path_schedule_priority
<1>6. Yielding(c, p) = Yielding(b, p)
  BY <1>2, <1>3, <1>5 DEF Yielding
<1> QED BY <1>4, <1>6

\* A path is made READY: its codec and its DSP session are asked for.
LEMMA RisingFirst ==
  ASSUME NEW b \in State, NEW p \in Paths, NEW w, NEW e, NEW d,
         b.path[p].cat # "none", AtRest(b.path[p], w, e, d)
  PROVE  LET c == BroughtUp(b, p) IN
         /\ c \in State /\ SameQueues(b, c) /\ c.starting = TRUE
         /\ \A q \in Paths \ {p} : c.path[q] = b.path[q]
         /\ c.path[p] \in PathRecord /\ Rising(c.path[p], w, e, d)
         /\ c.path[p].state = "READY" /\ c.path[p].cat = b.path[p].cat
         /\ c.path[p].user = b.path[p].user
<1> DEFINE x == b.path[p]
           y == [x EXCEPT !.state = "READY", !.waitRunning = TRUE,
                          !.codec = IF HasCodec(x.cat) THEN "enabling" ELSE @,
                          !.dsp = IF HasDsp(x.cat) THEN DspEnabled(@) ELSE @]
<1>1. x \in PathRecord
  BY StateFields
<1>2. DspEnabled(x.dsp) = "loading"
  BY DEF AtRest, DspEnabled
<1> HIDE DEF x
<1>3. /\ y \in PathRecord /\ y.state = "READY" /\ y.waitRunning = TRUE /\ y.cat = x.cat
      /\ y.user = x.user /\ y.plugin = x.plugin /\ y.waitCodec = x.waitCodec
      /\ y.codec = IF HasCodec(x.cat) THEN "enabling" ELSE x.codec
      /\ y.dsp = IF HasDsp(x.cat) THEN "loading" ELSE x.dsp
  <2> DEFINE k == IF HasCodec(x.cat) THEN "enabling" ELSE x.codec
             t == IF HasDsp(x.cat) THEN "loading" ELSE x.dsp
             z == [x EXCEPT !.state = "READY", !.waitRunning = TRUE]
  <2>1. y = [z EXCEPT !.codec = k, !.dsp = t]
    BY <1>1, <1>2 DEF PathRecord
  <2>2. k \in {"off", "enabling", "on", "disabling"}
    BY <1>1 DEF PathRecord
  <2>3. t \in {"off", "loading", "prepared", "creating", "on", "disabling", "stuck"}
    BY <1>1 DEF PathRecord
  <2>4. z \in PathRecord
    BY <1>1 DEF PathRecord
  <2>5. /\ z.state = "READY" /\ z.waitRunning = TRUE /\ z.cat = x.cat
        /\ z.user = x.user /\ z.plugin = x.plugin /\ z.waitCodec = x.waitCodec
    BY <1>1 DEF PathRecord
  <2> HIDE DEF y, k, t, z
  <2>6. y \in PathRecord
    BY <2>1, <2>2, <2>3, <2>4 DEF PathRecord
  <2>7. /\ y.state = z.state /\ y.waitRunning = z.waitRunning /\ y.cat = z.cat
        /\ y.user = z.user /\ y.plugin = z.plugin /\ y.waitCodec = z.waitCodec
        /\ y.codec = k /\ y.dsp = t
    BY <2>1, <2>4 DEF PathRecord
  <2> QED BY <2>5, <2>6, <2>7 DEF k, t
<1>4. BroughtUp(b, p) = [b EXCEPT !.starting = TRUE, !.path[p] = y]
  BY DEF BroughtUp, HasCodec, HasDsp, x
<1> HIDE DEF y
<1>5. AtRest(x, w, e, d)
  BY DEF x
<1>6. Rising(y, w, e, d)
  BY <1>3, <1>5, DomainFacts DEF AtRest, Rising, CodecIn
<1> DEFINE c == [b EXCEPT !.starting = TRUE, !.path[p] = y]
<1>7. y \in PathRecord
  BY <1>3
<1>8. c \in State
  BY <1>7 DEF State
<1>9. c.path[p] = y /\ \A q \in Paths \ {p} : c.path[q] = b.path[q]
  BY DEF State
<1>10. SameQueues(b, c) /\ c.starting = TRUE
  BY DEF State, SameQueues
<1> QED BY <1>3, <1>4, <1>6, <1>8, <1>9, <1>10 DEF x

\* Nothing is brought up or taken down.
Stable(b) == \A q \in Paths : b.path[q].state \notin {"READY", "SUSPENDING", "STOPPING"}

\* A pending path is brought up while no other is on its way up or down.
LEMMA BroughtUpCore ==
  ASSUME NEW b, NEW o, Core(b, o), NEW p \in Paths, b.path[p].state = "PENDING", Stable(b),
         audio_path_is_mixable(b, p)
  PROVE  LET c == BroughtUp(b, p) IN
         /\ Core(c, o) /\ SameQueues(b, c) /\ c.starting = TRUE
         /\ \A q \in Paths \ {p} : c.path[q] = b.path[q]
         /\ c.path[p].state = "READY" /\ c.path[p].user = b.path[p].user
<1> DEFINE c == BroughtUp(b, p)
           e == b.ancEnabling = p
           d == b.ancDisabling = p
<1>1. b \in State /\ Exists(b.path[p])
  BY DEF Core, Fits
<1>2. PICK w \in Mails : Sent(b, o, p, w) /\ Phase(b.path[p], w, e, d)
  BY DEF Core, Fits
<1>3. AtRest(b.path[p], w, e, d) /\ b.path[p].cat # "none"
  <2>1. b.path[p].cat # "none"
    BY <1>1 DEF Exists, Absent
  <2> HIDE DEF e, d
  <2> QED BY <1>2, <2>1 DEF Phase
<1>4. /\ c \in State /\ SameQueues(b, c) /\ c.starting = TRUE
      /\ \A q \in Paths \ {p} : c.path[q] = b.path[q]
      /\ c.path[p] \in PathRecord /\ Rising(c.path[p], w, e, d)
      /\ c.path[p].state = "READY" /\ c.path[p].cat = b.path[p].cat
      /\ c.path[p].user = b.path[p].user
  <2> HIDE DEF e, d
  <2> QED BY <1>1, <1>3, RisingFirst
<1> HIDE DEF c
<1>5. \A q \in Paths \ {p} : c.path[q] = b.path[q] /\ Fits(c, o, q)
  <2> TAKE q \in Paths \ {p}
  <2>1. Fits(b, o, q)
    BY DEF Core
  <2> QED BY <1>4, <2>1, FitsSame DEF SameQueues
<1>6. Fits(c, o, p)
  <2>1. Exists(c.path[p])
    BY <1>1, <1>3, <1>4 DEF Exists
  <2>2. Phase(c.path[p], w, e, d)
    <3> HIDE DEF e, d
    <3> QED BY <1>4 DEF Phase
  <2>3. Sent(c, o, p, w)
    BY <1>2, <1>4 DEF Sent, SameQueues
  <2> QED BY <1>4, <2>1, <2>2, <2>3 DEF Fits, SameQueues
<1>7. Steady(c)
  BY <1>4, <1>5 DEF Steady, Stable
<1>8. Mixes(c)
  <2>1. ASSUME NEW q \in Paths, q # p, Busy(c.path[q])
        PROVE  c.path[p].cat \notin Excludes(c.path[q].cat)
    <3>1. b.path[q].state = "RUNNING"
      BY <1>5, <2>1 DEF Busy, Stable
    <3>2. q \in InState(b, "RUNNING")
      BY <3>1, InStateFacts
    <3>3. Cat(b, p) \notin Excludes(Cat(b, q))
      BY <3>2 DEF audio_path_is_mixable
    <3> QED BY <1>4, <1>5, <2>1, <3>3 DEF Cat
  <2>2. Mixes(b)
    BY DEF Core
  <2> QED BY <1>4, <1>5, <2>1, <2>2 DEF Mixes
<1>9. Core(c, o)
  BY <1>4, <1>5, <1>6, <1>7, <1>8, OnePath DEF SameQueues
<1> QED BY <1>4, <1>9 DEF c

\* A running path is suspended.
LEMMA SuspendedPath ==
  ASSUME NEW x \in PathRecord, NEW w, NEW e, NEW d, Risen(x, w, e, d)
  PROVE  LET y == Suspended(x) IN
         /\ y \in PathRecord /\ Falling(y, w, e, d)
         /\ y.state = "SUSPENDING" /\ y.cat = x.cat
         /\ y.user = x.user \/ (x.user = "started" /\ y.user = "paused")
<1> DEFINE z == [x EXCEPT !.state = "SUSPENDING",
                          !.dsp = IF "dsp" \in Domains(x.cat) THEN DspDisabled(@) ELSE @]
<1>1. x.dsp = IF HasDsp(x.cat) THEN "on" ELSE "off"
  BY DEF Risen
<1>2. /\ z \in PathRecord /\ z.state = "SUSPENDING" /\ z.cat = x.cat /\ z.user = x.user
      /\ z.dsp = (IF HasDsp(x.cat) THEN "disabling" ELSE "off")
      /\ z.codec = x.codec /\ z.plugin = x.plugin
      /\ z.waitCodec = x.waitCodec /\ z.waitRunning = x.waitRunning
  BY <1>1 DEF PathRecord, HasDsp, DspDisabled
<1>3. Suspended(x) = ToldSuspend(z)
  BY DEF Suspended
<1> HIDE DEF z
<1>4. Falling(z, w, e, d)
  BY <1>2, DomainFacts DEF Risen, Falling, CodecIn
<1> DEFINE y == [z EXCEPT !.user = "paused"]
<1>5. y \in PathRecord /\ y.state = z.state /\ y.cat = z.cat /\ y.user = "paused"
      /\ Drivers(y) = Drivers(z)
  BY <1>2 DEF PathRecord, Drivers
<1> HIDE DEF y
<1>6. Falling(y, w, e, d)
  BY <1>4, <1>5, PhaseSame
<1>7. ToldSuspend(z) = z \/ (z.user = "started" /\ ToldSuspend(z) = y)
  BY DEF ToldSuspend, y
<1> QED BY <1>2, <1>3, <1>4, <1>5, <1>6, <1>7

\* The active paths that do not mix with p are taken down, and their users are told.
LEMMA SuspendCore ==
  ASSUME NEW b, NEW o, Core(b, o), NEW p \in Paths, Stable(b)
  PROVE  LET c == audio_path_suspend(b, p) IN
         /\ Core(c, o) /\ SameQueues(b, c) /\ c.starting = b.starting
         /\ c.power = b.power /\ c.missed = b.missed
         /\ \A q \in Paths :
              \/ c.path[q] = b.path[q] /\ q \notin Yielding(b, p)
              \/ /\ b.path[q].state = "RUNNING" /\ c.path[q].state = "SUSPENDING"
                 /\ q \in Yielding(b, p)
                 /\ \/ c.path[q].user = b.path[q].user
                    \/ b.path[q].user = "started" /\ c.path[q].user = "paused"
<1> DEFINE c == audio_path_suspend(b, p)
           Y == Yielding(b, p)
<1>1. b \in State
  BY DEF Core
<1>2. \A q \in Y : q \in Paths /\ b.path[q].state = "RUNNING"
  BY InStateFacts DEF Yielding
<1>3. c = [b EXCEPT !.path = [q \in Paths |-> IF q \in Y THEN Suspended(b.path[q]) ELSE b.path[q]]]
  BY DEF audio_path_suspend
<1>4. \A q \in Paths : c.path[q] = IF q \in Y THEN Suspended(b.path[q]) ELSE b.path[q]
  BY <1>1, <1>3 DEF State
<1>5. ASSUME NEW q \in Y
      PROVE  /\ c.path[q] \in PathRecord /\ c.path[q].state = "SUSPENDING"
             /\ c.path[q].cat = b.path[q].cat
             /\ \/ c.path[q].user = b.path[q].user
                \/ b.path[q].user = "started" /\ c.path[q].user = "paused"
             /\ \A w, e, d : Risen(b.path[q], w, e, d) => Falling(c.path[q], w, e, d)
  <2>1. b.path[q] \in PathRecord /\ q \in Paths /\ c.path[q] = Suspended(b.path[q])
    BY <1>1, <1>2, <1>4, StateFields
  <2>2. PICK w \in Mails :
          Sent(b, o, q, w) /\ Phase(b.path[q], w, b.ancEnabling = q, b.ancDisabling = q)
    BY <2>1 DEF Core, Fits
  <2> DEFINE e == b.ancEnabling = q
             d == b.ancDisabling = q
  <2>3. Phase(b.path[q], w, e, d)
    BY <2>2
  <2> HIDE DEF e, d, c, Y
  <2>4. Risen(b.path[q], w, e, d)
    BY <1>2, <2>3 DEF Phase
  <2> QED BY <2>1, <2>4, SuspendedPath
<1>6. SameQueues(b, c) /\ c.starting = b.starting /\ c.power = b.power /\ c.missed = b.missed
  BY <1>1, <1>3 DEF State, SameQueues
<1>7. c \in State
  <2>1. \A q \in Paths : c.path[q] \in PathRecord
    BY <1>1, <1>4, <1>5, StateFields
  <2>2. c.path = [q \in Paths |-> c.path[q]]
    BY <1>1, <1>3 DEF State
  <2> DEFINE f == c.path
  <2>3. f \in [Paths -> PathRecord]
    BY <2>1, <2>2
  <2>4. c = [b EXCEPT !.path = f]
    BY <1>1, <1>3 DEF State
  <2> HIDE DEF f, c
  <2> QED BY <1>1, <2>3, <2>4 DEF State
<1> HIDE DEF c
<1>8. ASSUME NEW q \in Paths PROVE Fits(c, o, q)
  <2>1. Fits(b, o, q)
    BY DEF Core
  <2>2. CASE q \notin Y
    BY <1>4, <1>6, <2>1, <2>2, FitsSame DEF SameQueues
  <2>3. CASE q \in Y
    <3>1. PICK w \in Mails :
            Sent(b, o, q, w) /\ Phase(b.path[q], w, b.ancEnabling = q, b.ancDisabling = q)
      BY <2>1 DEF Fits
    <3> DEFINE e == b.ancEnabling = q
               d == b.ancDisabling = q
    <3>2. Phase(b.path[q], w, e, d)
      BY <3>1
    <3>3. Phase(c.path[q], w, e, d)
      <4> HIDE DEF e, d
      <4>1. Risen(b.path[q], w, e, d)
        BY <1>2, <2>3, <3>2 DEF Phase
      <4> QED BY <1>5, <2>3, <4>1 DEF Phase
    <3>4. Sent(c, o, q, w)
      BY <1>6, <3>1 DEF Sent, SameQueues
    <3>5. Exists(c.path[q])
      <4>1. b.path[q].cat # "none"
        BY <1>2, <2>1, <2>3 DEF Fits, Exists, Absent
      <4> QED BY <1>5, <2>1, <2>3, <4>1 DEF Fits, Exists
    <3> QED BY <1>6, <3>3, <3>4, <3>5 DEF Fits, SameQueues
  <2> QED BY <2>2, <2>3
<1>9. \A q \in Paths : c.path[q].cat = b.path[q].cat
  BY <1>4, <1>5
<1>10. Listed(c)
  BY <1>6, <1>9 DEF Core, Listed, SameQueues
<1>11. \A q \in Paths : c.path[q].state # "READY" /\ (Busy(c.path[q]) => Busy(b.path[q]))
  BY <1>2, <1>4, <1>5 DEF Stable, Busy
<1>12. Steady(c)
  BY <1>11 DEF Steady
<1>13. Mixes(c)
  BY <1>9, <1>11 DEF Mixes, Core
<1>14. Core(c, o)
  BY <1>7, <1>8, <1>10, <1>12, <1>13 DEF Core
<1>15. ASSUME NEW q \in Paths
       PROVE  \/ c.path[q] = b.path[q] /\ q \notin Y
              \/ /\ b.path[q].state = "RUNNING" /\ c.path[q].state = "SUSPENDING"
                 /\ q \in Y
                 /\ \/ c.path[q].user = b.path[q].user
                    \/ b.path[q].user = "started" /\ c.path[q].user = "paused"
  BY <1>2, <1>4, <1>5
<1> QED BY <1>6, <1>14, <1>15 DEF c

\* The power of the DSP and the history variable move no path.
LEMMA SamePaths ==
  ASSUME NEW b, NEW o, NEW Z, NEW R, Good(b, o, Z, R), NEW c \in State, SameQueues(b, c),
         \A p \in Paths : c.path[p] = b.path[p], c.starting = b.starting
  PROVE  Good(c, o, Z, R)
<1>1. \A q \in Paths : Fits(c, o, q)
  <2> TAKE q \in Paths
  <2>1. Fits(b, o, q)
    BY DEF Good, Core
  <2> QED BY <2>1, FitsSame DEF SameQueues
<1>2. Listed(c) /\ Steady(c) /\ Mixes(c)
  BY DEF Good, Core, Listed, Steady, Mixes, Busy, SameQueues
<1>3. Users(c, Z)
  BY DEF Good, Users
<1>4. Starting(c)
  BY DEF Good, Starting
<1>5. Stops(c, R)
  BY DEF Good, Stops, Waits, SameQueues
<1> QED BY <1>1, <1>2, <1>3, <1>4, <1>5 DEF Good, Core

\* There is a choice exactly when some path is pending.
LEMMA SwitchFacts ==
  ASSUME NEW b, NEW o, Core(b, o)
  PROVE  LET p == audio_path_schedule_switch(b)
         IN  \/ p = NoPath /\ InState(b, "PENDING") = {}
             \/ p \in Paths /\ b.path[p].state = "PENDING" /\ p # NoPath
<1> DEFINE p == audio_path_schedule_switch(b)
<1>1. b.list \in Seq(Paths)
  BY StateFields DEF Core
<1>2. IF p = NoPath THEN \A i \in DOMAIN b.list : ~Pending(b, b.list[i])
      ELSE p \in Paths /\ Pending(b, p)
  BY <1>1, SwitchPending
<1> HIDE DEF p
<1>3. CASE p = NoPath
  <2>1. ASSUME NEW q \in InState(b, "PENDING") PROVE FALSE
    <3>1. q \in Paths /\ b.path[q].cat # "none" /\ b.path[q].state = "PENDING"
      BY <2>1 DEF InState
    <3>2. PICK i \in DOMAIN b.list : b.list[i] = q
      BY <3>1 DEF Core, Listed
    <3> QED BY <1>2, <1>3, <3>1, <3>2 DEF Pending
  <2> QED BY <1>3, <2>1 DEF p
<1>4. CASE p # NoPath
  BY <1>2, <1>4 DEF Pending, p
<1> QED BY <1>3, <1>4

\* The two questions the scheduler asks, in terms of the states of the paths.
LEMMA StableFacts ==
  ASSUME NEW b, NEW o, Core(b, o)
  PROVE  /\ audio_path_is_stable(b) <=> Stable(b)
         /\ audio_path_starting_check(b) <=> \E p \in Paths : b.path[p].state = "READY"
         /\ NoStallOf(b) \/ (Stable(b) /\ InState(b, "PENDING") # {})
<1>1. \A s : s # "IDLE" => InState(b, s) = {p \in Paths : b.path[p].state = s}
  BY InStateFacts
<1>2. /\ InState(b, "READY") = {p \in Paths : b.path[p].state = "READY"}
      /\ InState(b, "STOPPING") = {p \in Paths : b.path[p].state = "STOPPING"}
      /\ InState(b, "SUSPENDING") = {p \in Paths : b.path[p].state = "SUSPENDING"}
  BY <1>1
<1>3. audio_path_is_stable(b) <=> Stable(b)
  BY <1>2 DEF audio_path_is_stable, Stable
<1>4. audio_path_starting_check(b) <=> \E p \in Paths : b.path[p].state = "READY"
  BY <1>2 DEF audio_path_starting_check
<1>5. (\A p \in Paths : ~Busy(b.path[p]) \/ b.path[p].state = "RUNNING") <=> Stable(b)
  BY DEF Busy, Stable
<1>6. NoStallOf(b) \/ (Stable(b) /\ InState(b, "PENDING") # {})
  BY <1>5 DEF NoStallOf
<1> QED BY <1>3, <1>4, <1>6

\* NoStall is about the pending and the active paths and the power of the
\* DSP.
LEMMA NoStallKept ==
  ASSUME NEW b, NEW o, Core(b, o), NEW c, NEW o2, Core(c, o2), SameAwake(b, c),
         audio_path_schedule_switch(c) = audio_path_schedule_switch(b),
         b.missed => c.missed,
         c.power = b.power \/ b.power = "on",
         NoStallOf(b)
  PROVE  NoStallOf(c)
<1> DEFINE p == audio_path_schedule_switch(b)
<1> SUFFICES ASSUME Stable(c), InState(c, "PENDING") # {}
             PROVE  \/ c.missed
                    \/ "dsp" \in Domains(Cat(c, p)) /\ c.power \in {"booting", "closing"}
                    \/ ~audio_path_is_mixable(c, p) /\ Yielding(c, p) = {}
  BY StableFacts DEF NoStallOf
<1>1. Stable(b)
  BY DEF Stable, SameAwake
<1>2. /\ InState(b, "PENDING") = {q \in Paths : b.path[q].state = "PENDING"}
      /\ InState(c, "PENDING") = {q \in Paths : c.path[q].state = "PENDING"}
  BY InStateFacts
<1>3. InState(b, "PENDING") # {}
  BY <1>2 DEF SameAwake
<1>4. p \in Paths /\ b.path[p].state = "PENDING"
  BY <1>3, SwitchFacts
<1>5. \A q \in Paths : ~Busy(b.path[q]) \/ b.path[q].state = "RUNNING"
  BY <1>1 DEF Stable, Busy
<1>6. \/ b.missed
      \/ "dsp" \in Domains(Cat(b, p)) /\ b.power \in {"booting", "closing"}
      \/ ~audio_path_is_mixable(b, p) /\ Yielding(b, p) = {}
  BY <1>3, <1>5 DEF NoStallOf
<1> HIDE DEF p
<1>7. Cat(c, p) = Cat(b, p)
  BY <1>4 DEF Cat, SameAwake
<1>8. /\ audio_path_is_mixable(c, p) <=> audio_path_is_mixable(b, p)
      /\ Yielding(c, p) = Yielding(b, p)
  BY <1>4, MixingKept
<1> QED BY <1>6, <1>7, <1>8

\* The scheduler keeps everything, and leaves no pending path without
\* something that will call it again.
LEMMA ScheduleGood ==
  ASSUME NEW b, NEW o, NEW Z, NEW R, Good(b, o, Z, R)
  PROVE  LET c == audio_path_schedule(b) IN Good(c, o, Z, R) /\ NoStallOf(c)
<1> DEFINE p == audio_path_schedule_switch(b)
           c == audio_path_schedule(b)
           m == [b EXCEPT !.missed = FALSE]
<1> SUFFICES Good(c, o, Z, R) /\ NoStallOf(c)
  OBVIOUS
<1>0. b \in State /\ Core(b, o)
  BY DEF Good, Core
<1>1. \/ p = NoPath /\ InState(b, "PENDING") = {}
      \/ p \in Paths /\ b.path[p].state = "PENDING" /\ p # NoPath
  BY <1>0, SwitchFacts
<1>2. /\ audio_path_is_stable(b) <=> Stable(b)
      /\ NoStallOf(b) \/ (Stable(b) /\ InState(b, "PENDING") # {})
  BY <1>0, StableFacts
<1>3. /\ m \in State /\ SameQueues(b, m) /\ m.path = b.path /\ m.starting = b.starting
      /\ m.power = b.power
  BY <1>0 DEF State, SameQueues
<1>4. Good(m, o, Z, R)
  BY <1>3, SamePaths
<1>5. CASE p = NoPath \/ ~Stable(b)
  <2>1. c = b
    BY <1>2, <1>5 DEF audio_path_schedule
  <2>2. NoStallOf(b)
    BY <1>1, <1>2, <1>5
  <2> QED BY <2>1, <2>2
<1>6. CASE p # NoPath /\ Stable(b) /\ "dsp" \in Domains(Cat(b, p)) /\ b.power # "on"
  <2> DEFINE pw == IF m.power = "off" THEN "booting" ELSE m.power
             n == [m EXCEPT !.power = pw]
  <2>1. c = n
    BY <1>2, <1>6 DEF audio_path_schedule
  <2>2. pw \in {"booting", "closing"}
    BY <1>3, <1>6, <1>0, StateFields
  <2> HIDE DEF pw
  <2>3. /\ n \in State /\ SameQueues(b, n) /\ n.path = b.path /\ n.starting = b.starting
        /\ n.power = pw
    <3> HIDE DEF m
    <3>1. /\ n \in State /\ SameQueues(m, n) /\ n.path = m.path /\ n.starting = m.starting
          /\ n.power = pw
      BY <1>3, <2>2 DEF State, SameQueues
    <3> QED BY <1>3, <3>1 DEF SameQueues
  <2> HIDE DEF n
  <2>4. Good(n, o, Z, R)
    BY <2>3, SamePaths
  <2>5. audio_path_schedule_switch(n) = p
    BY <1>0, <2>3, SwitchKept DEF SameQueues, SameAwake
  <2>6. Cat(n, p) = Cat(b, p)
    BY <2>3 DEF Cat
  <2>7. NoStallOf(n)
    BY <1>6, <2>2, <2>3, <2>5, <2>6 DEF NoStallOf
  <2> QED BY <2>1, <2>4, <2>7
<1> DEFINE Free == p # NoPath /\ Stable(b) /\ ~("dsp" \in Domains(Cat(b, p)) /\ b.power # "on")
<1>7. CASE Free /\ audio_path_is_mixable(b, p)
  <2>1. c = BroughtUp(m, p)
    BY <1>2, <1>7 DEF audio_path_schedule
  <2>2. audio_path_is_mixable(m, p)
    BY <1>0, <1>1, <1>3, <1>4, <1>7, MixingKept DEF SameAwake, Good
  <2>3. m.path[p].state = "PENDING" /\ Stable(m) /\ p \in Paths /\ Core(m, o)
    BY <1>1, <1>3, <1>4, <1>7 DEF Stable, Good
  <2> HIDE DEF m, p, c
  <2>4. /\ Core(c, o) /\ SameQueues(m, c) /\ c.starting = TRUE
        /\ \A q \in Paths \ {p} : c.path[q] = m.path[q]
        /\ c.path[p].state = "READY" /\ c.path[p].user = m.path[p].user
    BY <2>1, <2>2, <2>3, BroughtUpCore
  <2>5. Users(c, Z)
    BY <1>4, <2>3, <2>4 DEF Good, Users
  <2>6. Starting(c)
    BY <2>3, <2>4 DEF Starting
  <2>7. Stops(c, R)
    <3>1. ASSUME NEW q \in Paths
          PROVE  /\ Waits(c, q) <=> Waits(m, q)
                 /\ c.path[q].user = m.path[q].user
                 /\ c.path[q].state = m.path[q].state \/ c.path[q].state = "READY"
      BY <2>4 DEF Waits, SameQueues
    <3> QED BY <1>4, <2>4, <3>1 DEF Good, Stops, SameQueues
  <2>8. ~Stable(c)
    BY <2>3, <2>4 DEF Stable
  <2> QED BY <2>4, <2>5, <2>6, <2>7, <2>8, StableFacts DEF Good
<1>8. CASE Free /\ ~audio_path_is_mixable(b, p)
  <2>1. c = audio_path_suspend(m, p)
    BY <1>2, <1>8 DEF audio_path_schedule
  <2>2. ~audio_path_is_mixable(m, p)
    BY <1>0, <1>1, <1>3, <1>4, <1>8, MixingKept DEF SameAwake, Good
  <2>3. m.path[p].state = "PENDING" /\ Stable(m) /\ p \in Paths /\ Core(m, o)
    BY <1>1, <1>3, <1>4, <1>8 DEF Stable, Good
  <2>4. audio_path_schedule_switch(m) = p
    BY <1>0, <1>3, SwitchKept DEF SameQueues, SameAwake
  <2> HIDE DEF m, p, c
  <2>5. /\ Core(c, o) /\ SameQueues(m, c) /\ c.starting = m.starting
        /\ \A q \in Paths :
             \/ c.path[q] = m.path[q] /\ q \notin Yielding(m, p)
             \/ /\ m.path[q].state = "RUNNING" /\ c.path[q].state = "SUSPENDING"
                /\ q \in Yielding(m, p)
                /\ \/ c.path[q].user = m.path[q].user
                   \/ m.path[q].user = "started" /\ c.path[q].user = "paused"
    BY <2>1, <2>3, SuspendCore
  <2>6. Users(c, Z)
    BY <1>4, <2>5 DEF Good, Users
  <2>7. Starting(c)
    <3>1. \A q \in Paths : c.path[q].state = "READY" <=> m.path[q].state = "READY"
      BY <2>5
    <3> QED BY <1>4, <2>5, <3>1 DEF Good, Starting
  <2>8. Stops(c, R)
    <3>1. ASSUME NEW q \in Paths
          PROVE  /\ Waits(c, q) <=> Waits(m, q)
                 /\ m.path[q].user = "stopping" => c.path[q].user = "stopping"
                 /\ c.path[q].state = m.path[q].state \/ c.path[q].state = "SUSPENDING"
      BY <2>5 DEF Waits, SameQueues
    <3> QED BY <1>4, <2>5, <3>1 DEF Good, Stops, SameQueues
  <2>9. NoStallOf(c)
    <3>1. CASE Yielding(m, p) = {}
      <4>1. \A q \in Paths : c.path[q] = m.path[q]
        BY <2>5, <3>1
      <4>2. audio_path_schedule_switch(c) = p
        BY <2>3, <2>4, <2>5, <4>1, SwitchKept DEF SameQueues, Core, SameAwake
      <4>3. ~audio_path_is_mixable(c, p) /\ Yielding(c, p) = {}
        BY <2>2, <2>3, <2>5, <3>1, <4>1, MixingKept DEF SameAwake
      <4> QED BY <4>2, <4>3 DEF NoStallOf
    <3>2. CASE Yielding(m, p) # {}
      <4>1. PICK q : q \in Yielding(m, p)
        BY <3>2
      <4>2. q \in Paths
        BY <4>1 DEF Yielding, InState
      <4>3. ~Stable(c)
        BY <2>5, <4>1, <4>2 DEF Stable
      <4> QED BY <2>5, <4>3, StableFacts
    <3> QED BY <3>1, <3>2
  <2> QED BY <2>5, <2>6, <2>7, <2>8, <2>9 DEF Good
<1> HIDE DEF p, c, m
<1>9. Free \/ p = NoPath \/ ~Stable(b)
         \/ (p # NoPath /\ Stable(b) /\ "dsp" \in Domains(Cat(b, p)) /\ b.power # "on")
  OBVIOUS
<1> HIDE DEF p, c, m, Free
<1> QED BY <1>5, <1>6, <1>7, <1>8, <1>9

-----------------------------------------------------------------------------
(* audio_path_destroy, audio_path_start and the event IDLE.                *)

\* A path at rest leaves the list and the turns of the others.
LEMMA DestroyCore ==
  ASSUME NEW b, NEW o, Core(b, o), NEW p \in Paths,
         b.path[p].cat # "none", b.path[p].state = "IDLE"
  PROVE  LET c == audio_path_destroy(b, p) IN
         /\ Core(c, o) /\ c.stops = b.stops /\ c.starting = b.starting
         /\ c.power = b.power /\ c.missed = b.missed
         /\ c.path[p] = Absent /\ \A q \in Paths \ {p} : c.path[q] = b.path[q]
         /\ audio_path_schedule_switch(c) = audio_path_schedule_switch(b)
<1> DEFINE c == audio_path_destroy(b, p)
           i == CHOOSE k \in DOMAIN b.list : b.list[k] = p
           N == Len(b.list)
<1>1. b \in State /\ b.list \in Seq(Paths) /\ N \in Nat /\ DOMAIN b.list = 1..N
  BY StateFields, LenProperties DEF Core
<1>2. i \in 1..N /\ b.list[i] = p
  BY <1>1 DEF Core, Listed
<1>3. c = [b EXCEPT !.list = RemoveAt(b.list, i), !.path[p] = Absent]
  BY DEF audio_path_destroy
<1> HIDE DEF i
<1> DEFINE r == RemoveAt(b.list, i)
<1>4. /\ r \in Seq(Paths) /\ Len(r) = N - 1
      /\ \A k \in 1..(N - 1) : r[k] = IF k < i THEN b.list[k] ELSE b.list[k + 1]
  BY <1>1, <1>2, RemoveAtFacts
<1> HIDE DEF r
<1>5. Absent \in PathRecord
  BY DEF Absent, PathRecord
<1>6. /\ c \in State /\ c.list = r /\ c.path[p] = Absent
      /\ \A q \in Paths \ {p} : c.path[q] = b.path[q]
      /\ c.stops = b.stops /\ c.starting = b.starting /\ c.msgs = b.msgs
      /\ c.power = b.power /\ c.missed = b.missed
      /\ c.ancEnabling = b.ancEnabling /\ c.ancDisabling = b.ancDisabling
  <2>1. c = [b EXCEPT !.list = r, !.path[p] = Absent]
    BY <1>3 DEF r
  <2> HIDE DEF c
  <2>2. c \in State
    BY <1>1, <1>4, <1>5, <2>1 DEF State
  <2> QED BY <1>1, <2>1, <2>2 DEF State
<1> HIDE DEF c
<1>7. DOMAIN c.list = 1..(N - 1)
  BY <1>4, <1>6, LenProperties
<1>8. Listed(c)
  <2>1. ASSUME NEW j \in 1..(N - 1), NEW k \in 1..(N - 1), r[j] = r[k] PROVE j = k
    <3>1. \A x, y \in 1..N : b.list[x] = b.list[y] => x = y
      BY <1>1 DEF Core, Listed
    <3>2. j \in 1..N /\ k \in 1..N /\ j + 1 \in 1..N /\ k + 1 \in 1..N
      BY <1>1
    <3>3. CASE j < i /\ k < i
      BY <1>4, <2>1, <3>1, <3>2, <3>3
    <3>4. CASE ~(j < i) /\ ~(k < i)
      <4>1. j + 1 = k + 1
        BY <1>4, <2>1, <3>1, <3>2, <3>4
      <4> QED BY <1>1, <4>1
    <3>5. CASE j < i /\ ~(k < i)
      <4>1. j = k + 1
        BY <1>4, <2>1, <3>1, <3>2, <3>5
      <4> QED BY <1>1, <1>2, <3>5, <4>1
    <3>6. CASE ~(j < i) /\ k < i
      <4>1. j + 1 = k
        BY <1>4, <2>1, <3>1, <3>2, <3>6
      <4> QED BY <1>1, <1>2, <3>6, <4>1
    <3> QED BY <3>3, <3>4, <3>5, <3>6
  <2>2. ASSUME NEW q \in Paths, q # p
        PROVE  (\E k \in 1..(N - 1) : r[k] = q) <=> \E k \in 1..N : b.list[k] = q
    <3>1. ASSUME NEW k \in 1..(N - 1) PROVE \E j \in 1..N : r[k] = b.list[j]
      <4>1. k \in 1..N /\ k + 1 \in 1..N
        BY <1>1
      <4> QED BY <1>4, <4>1
    <3>2. ASSUME NEW k \in 1..N, b.list[k] = q PROVE \E j \in 1..(N - 1) : r[j] = q
      <4>1. k # i
        BY <1>2, <2>2, <3>2
      <4>2. CASE k < i
        <5>1. k \in 1..(N - 1)
          BY <1>1, <1>2, <4>2
        <5> QED BY <1>4, <3>2, <4>2, <5>1
      <4>3. CASE k > i
        <5>1. k - 1 \in 1..(N - 1) /\ ~(k - 1 < i) /\ (k - 1) + 1 = k
          BY <1>1, <1>2, <4>3
        <5> QED BY <1>4, <3>2, <5>1
      <4> QED BY <1>1, <1>2, <4>1, <4>2, <4>3
    <3> QED BY <3>1, <3>2
  <2>3. \A k \in 1..(N - 1) : r[k] # p
    <3> TAKE k \in 1..(N - 1)
    <3>1. \A x \in 1..N : b.list[x] = p => x = i
      BY <1>1, <1>2 DEF Core, Listed
    <3>2. k \in 1..N /\ k + 1 \in 1..N /\ (k < i => k # i) /\ (~(k < i) => k + 1 # i)
      BY <1>1, <1>2
    <3> QED BY <1>4, <3>1, <3>2
  <2>4. \A q \in Paths : (\E k \in 1..N : b.list[k] = q) <=> b.path[q].cat # "none"
    BY <1>1 DEF Core, Listed
  <2>5. c.path[p].cat = "none"
    BY <1>6 DEF Absent
  <2>6. \A q \in Paths : (\E k \in 1..(N - 1) : r[k] = q) <=> c.path[q].cat # "none"
    BY <1>6, <2>2, <2>3, <2>4, <2>5
  <2>7. c.list = r
    BY <1>6
  <2> HIDE DEF N
  <2> QED BY <1>7, <2>1, <2>6, <2>7 DEF Listed
<1>9. ASSUME NEW q \in Paths PROVE Fits(c, o, q)
  <2>1. CASE q # p
    <3>1. Fits(b, o, q)
      BY DEF Core
    <3> QED BY <1>6, <2>1, <3>1, FitsSame
  <2>2. CASE q = p
    <3>1. PICK w \in Mails :
            Sent(b, o, p, w) /\ Phase(b.path[p], w, b.ancEnabling = p, b.ancDisabling = p)
      BY DEF Core, Fits
    <3> DEFINE e == c.ancEnabling = p
               d == c.ancDisabling = p
    <3>2. Phase(b.path[p], w, e, d)
      BY <1>6, <3>1
    <3> HIDE DEF e, d
    <3>3. w = "none" /\ ~e /\ ~d
      BY <3>2 DEF Phase, AtRest
    <3>4. Phase(c.path[p], w, e, d)
      BY <1>6, <3>3 DEF Phase, AtRest, Absent
    <3>5. Sent(c, o, p, w)
      BY <1>6, <3>1 DEF Sent
    <3>6. Exists(c.path[p])
      BY <1>6 DEF Exists, Absent
    <3> QED BY <2>2, <3>4, <3>5, <3>6 DEF Fits, e, d
  <2> QED BY <2>1, <2>2
<1>10. Steady(c) /\ Mixes(c)
  <2>1. c.path[p].state = "IDLE" /\ ~Busy(c.path[p])
    BY <1>6 DEF Absent, Busy
  <2>2. Steady(c)
    BY <1>6, <2>1 DEF Core, Steady
  <2>3. Mixes(c)
    BY <1>6, <2>1 DEF Core, Mixes
  <2> QED BY <2>2, <2>3
<1>11. Core(c, o)
  BY <1>6, <1>8, <1>9, <1>10 DEF Core
<1>12. audio_path_schedule_switch(c) = audio_path_schedule_switch(b)
  <2> DEFINE g == [n \in 0..N |-> IF n < i THEN n ELSE n - 1]
  <2>1. g \in [0..N -> 0..Len(c.list)]
    BY <1>1, <1>2, <1>4, <1>6
  <2>2. g[0] = 0 /\ g[N] = Len(c.list)
    BY <1>1, <1>2, <1>4, <1>6
  <2>3. \A n \in 1..N : /\ n < i => g[n] = n /\ g[n - 1] = n - 1
                        /\ n = i => g[n] = n - 1 /\ g[n - 1] = n - 1
                        /\ n > i => g[n] = n - 1 /\ g[n - 1] = n - 2
    BY <1>1, <1>2
  <2> HIDE DEF g
  <2>4. \A q \in Paths : /\ Pending(b, q) <=> Pending(c, q)
                         /\ Pending(b, q) => c.path[q].cat = b.path[q].cat
    BY <1>6 DEF Pending, Absent
  <2>5. ASSUME NEW n \in 1..N
        PROVE  IF Pending(b, b.list[n])
               THEN g[n] = g[n - 1] + 1 /\ c.list[g[n]] = b.list[n]
               ELSE g[n] = g[n - 1] \/ (g[n] = g[n - 1] + 1 /\ ~Pending(c, c.list[g[n]]))
    <3>1. b.list[n] \in Paths
      BY <1>1, ElementOfSeq
    <3>2. CASE n < i
      <4>1. n \in 1..(N - 1) /\ g[n] = n /\ g[n] = g[n - 1] + 1
        BY <1>1, <1>2, <2>3, <3>2
      <4> QED BY <1>4, <1>6, <2>4, <3>1, <3>2, <4>1
    <3>3. CASE n = i
      <4>1. ~Pending(b, b.list[n])
        BY <1>2, <3>3 DEF Pending
      <4> QED BY <2>3, <3>3, <4>1
    <3>4. CASE n > i
      <4>1. n - 1 \in 1..(N - 1) /\ ~(n - 1 < i) /\ (n - 1) + 1 = n
        BY <1>1, <1>2, <3>4
      <4>2. g[n] = n - 1 /\ g[n] = g[n - 1] + 1
        BY <1>1, <2>3, <3>4
      <4>3. c.list[g[n]] = b.list[n]
        BY <1>4, <1>6, <4>1, <4>2
      <4> QED BY <2>4, <3>1, <4>2, <4>3
    <3> QED BY <1>1, <1>2, <3>2, <3>3, <3>4
  <2>6. c.list \in Seq(Paths)
    BY <1>4, <1>6
  <2> QED BY <1>1, <2>1, <2>2, <2>4, <2>5, <2>6, SwitchSame
<1> QED BY <1>6, <1>11, <1>12 DEF c

\* A path at rest is moved between IDLE and PENDING.
LEMMA RestCore ==
  ASSUME NEW b, NEW o, Core(b, o), NEW p \in Paths, b.path[p].cat # "none",
         b.path[p].state \in {"IDLE", "PENDING"}, NEW v \in {"IDLE", "PENDING"}
  PROVE  LET c == Set(b, p, "state", v) IN
         /\ Core(c, o) /\ SameButPath(b, c, p)
         /\ c.path[p].state = v /\ c.path[p].user = b.path[p].user
         /\ c.path[p].cat = b.path[p].cat
<1> DEFINE c == Set(b, p, "state", v)
<1>1. b \in State /\ b.path[p] \in PathRecord
  BY StateFields DEF Core
<1>2. /\ c \in State /\ SameButPath(b, c, p) /\ c.path[p] = [b.path[p] EXCEPT !.state = v]
      /\ c.path[p].state = v /\ c.path[p].user = b.path[p].user
      /\ c.path[p].cat = b.path[p].cat
  <2>1. v \in PathStates
    BY DEF PathStates
  <2> QED BY <1>1, <2>1, SetState
<1>3. Drivers(c.path[p]) = Drivers(b.path[p])
  BY <1>1, <1>2, UserOnly
<1> HIDE DEF c
<1>4. Exists(c.path[p])
  BY <1>2 DEF Core, Fits, Exists
<1>5. PICK w \in Mails :
        Sent(b, o, p, w) /\ Phase(b.path[p], w, b.ancEnabling = p, b.ancDisabling = p)
  BY DEF Core, Fits
<1>6. Fits(c, o, p)
  <2> DEFINE e == c.ancEnabling = p
             d == c.ancDisabling = p
  <2>1. Phase(b.path[p], w, e, d)
    BY <1>2, <1>5 DEF SameButPath, SameQueues
  <2> HIDE DEF e, d
  <2>2. AtRest(b.path[p], w, e, d)
    BY <2>1 DEF Phase
  <2>3. AtRest(c.path[p], w, e, d)
    BY <1>3, <2>2, PhaseSame
  <2>4. Phase(c.path[p], w, e, d)
    BY <1>2, <2>3 DEF Phase
  <2>5. Sent(c, o, p, w)
    BY <1>2, <1>5 DEF Sent, SameButPath, SameQueues
  <2> QED BY <1>4, <2>4, <2>5 DEF Fits, e, d
<1>7. \A q \in Paths \ {p} : c.path[q] = b.path[q] /\ Fits(c, o, q)
  <2> TAKE q \in Paths \ {p}
  <2>1. Fits(b, o, q)
    BY DEF Core
  <2> QED BY <1>2, <2>1, FitsSame DEF SameButPath, SameQueues
<1>8. Steady(c) /\ Mixes(c)
  <2>1. ~Busy(c.path[p]) /\ c.path[p].state \notin {"READY", "SUSPENDING", "STOPPING"}
    BY <1>2 DEF Busy
  <2>2. Steady(b) /\ Mixes(b)
    BY DEF Core
  <2>3. \A q \in Paths \ {p} : c.path[q] = b.path[q]
    BY <1>7
  <2>4. c.path[p].cat = b.path[p].cat
    BY <1>2
  <2> QED BY <2>1, <2>2, <2>3, <2>4, Lower
<1>9. Core(c, o)
  <2>1. c.list = b.list /\ c \in State /\ c.path[p].cat = b.path[p].cat
    BY <1>2 DEF SameButPath, SameQueues
  <2> QED BY <1>6, <1>7, <1>8, <2>1, OnePath
<1> QED BY <1>2, <1>9 DEF c

\* An idle path is started.
LEMMA StartGood ==
  ASSUME NEW b, NEW o, NEW Z, NEW R, NEW p \in Paths, Good(b, o, Z, R), Z \subseteq {p},
         b.path[p].cat # "none", b.path[p].state = "IDLE",
         b.path[p].user \notin {"none", "stopped"}
  PROVE  Good(audio_path_start(b, p), o, {}, R) /\ NoStallOf(audio_path_start(b, p))
<1> DEFINE c == Set(b, p, "state", "PENDING")
<1>1. audio_path_start(b, p) = audio_path_schedule(c)
  BY DEF audio_path_start
<1>2. /\ Core(c, o) /\ SameButPath(b, c, p)
      /\ c.path[p].state = "PENDING" /\ c.path[p].user = b.path[p].user
  BY RestCore DEF Good
<1> HIDE DEF c
<1>3. Users(c, {})
  BY <1>2 DEF Good, Users, SameButPath
<1>4. Starting(c)
  BY <1>2 DEF Good, Starting, SameButPath
<1>5. Stops(c, R)
  <2>1. \A q \in Paths : Waits(c, q) <=> Waits(b, q)
    BY <1>2 DEF Waits, SameButPath, SameQueues
  <2> QED BY <1>2, <2>1 DEF Good, Stops, SameButPath, SameQueues
<1> QED BY <1>1, <1>2, <1>3, <1>4, <1>5, ScheduleGood DEF Good

\* The user is told that its path is idle: it gives the path back, starts
\* it again or takes its session for stopped.
LEMMA ToldIdleGood ==
  ASSUME NEW b, NEW o, NEW R, NEW p \in Paths, Good(b, o, {p}, R),
         b.path[p].cat # "none", b.path[p].state = "IDLE"
  PROVE  LET c == ToldIdle(b, p) IN Good(c, o, {}, R) /\ (b.missed => NoStallOf(c))
<1> DEFINE c == ToldIdle(b, p)
<1> SUFFICES Good(c, o, {}, R) /\ (b.missed => NoStallOf(c))
  OBVIOUS
<1>0. b \in State /\ Core(b, o)
  BY DEF Good, Core
<1>1. CASE IsNotification(b.path[p].cat) \/ b.path[p].action = "release"
  <2>1. c = audio_path_destroy(b, p)
    BY <1>1 DEF ToldIdle
  <2> HIDE DEF c
  <2>2. /\ Core(c, o) /\ c.stops = b.stops /\ c.starting = b.starting
        /\ c.missed = b.missed
        /\ c.path[p] = Absent /\ \A q \in Paths \ {p} : c.path[q] = b.path[q]
    BY <1>0, <2>1, DestroyCore
  <2>3. c.path[p].state = "IDLE" /\ c.path[p].user = "none"
    BY <2>2 DEF Absent
  <2>4. Users(c, {})
    BY <2>2, <2>3 DEF Good, Users
  <2>5. Starting(c)
    BY <2>2, <2>3 DEF Good, Starting
  <2>6. \A q \in Paths : Waits(c, q) <=> Waits(b, q)
    BY <2>2 DEF Waits
  <2>7. Stops(c, R)
    BY <2>2, <2>3, <2>6 DEF Good, Stops
  <2>8. b.missed => NoStallOf(c)
    BY <2>2 DEF NoStallOf
  <2> QED BY <2>2, <2>4, <2>5, <2>7, <2>8 DEF Good
<1> DEFINE n == [b EXCEPT !.path[p] = [@ EXCEPT !.user = "starting", !.action = "none"]]
           s == Set(b, p, "user", "stopped")
<1>2. CASE ~(IsNotification(b.path[p].cat) \/ b.path[p].action = "release")
           /\ b.path[p].action = "start"
  <2>1. c = audio_path_start(n, p)
    BY <1>2 DEF ToldIdle
  <2> DEFINE x == b.path[p]
             y == [x EXCEPT !.user = "starting", !.action = "none"]
  <2>2. x \in PathRecord
    BY <1>0, StateFields
  <2>3. y \in PathRecord /\ y.state = x.state /\ Drivers(y) = Drivers(x) /\ y.user = "starting"
        /\ y.cat = x.cat
    <3> HIDE DEF x
    <3> DEFINE z == [x EXCEPT !.user = "starting"]
    <3>1. y = [z EXCEPT !.action = "none"]
      OBVIOUS
    <3>2. z \in PathRecord
      BY <2>2 DEF PathRecord
    <3>3. /\ z.cat = x.cat /\ z.state = x.state /\ z.user = "starting"
          /\ z.codec = x.codec /\ z.dsp = x.dsp /\ z.plugin = x.plugin
          /\ z.waitCodec = x.waitCodec /\ z.waitRunning = x.waitRunning
      BY <2>2 DEF PathRecord
    <3> HIDE DEF y, z
    <3>4. y \in PathRecord
      BY <3>1, <3>2 DEF PathRecord
    <3>5. /\ y.cat = z.cat /\ y.state = z.state /\ y.user = z.user
          /\ y.codec = z.codec /\ y.dsp = z.dsp /\ y.plugin = z.plugin
          /\ y.waitCodec = z.waitCodec /\ y.waitRunning = z.waitRunning
      BY <3>1, <3>2 DEF PathRecord
    <3> QED BY <3>3, <3>4, <3>5 DEF Drivers
  <2> HIDE DEF y
  <2>4. n = [b EXCEPT !.path[p] = y]
    BY <1>0 DEF State, y
  <2>5. n \in State /\ n.path[p] = y /\ SameButPath(b, n, p)
    BY <1>0, <2>3, <2>4 DEF State, SameButPath, SameQueues
  <2> HIDE DEF n, c
  <2>6. Core(n, o)
    BY <1>0, <2>3, <2>5, UserStep
  <2>7. \A q \in Paths : Waits(n, q) <=> Waits(b, q)
    BY <2>5 DEF Waits, SameButPath, SameQueues
  <2>8. Stops(n, R)
    BY <2>3, <2>5, <2>7 DEF Good, Stops, SameButPath, SameQueues
  <2>9. Users(n, {p}) /\ Starting(n)
    BY <2>3, <2>5 DEF Good, Users, Starting, SameButPath
  <2>10. Good(n, o, {p}, R)
    BY <2>6, <2>8, <2>9 DEF Good
  <2>11. n.path[p].cat # "none" /\ n.path[p].state = "IDLE" /\ n.path[p].user \notin {"none", "stopped"}
    BY <2>3, <2>5
  <2> QED BY <2>1, <2>10, <2>11, StartGood
<1>3. CASE ~(IsNotification(b.path[p].cat) \/ b.path[p].action = "release")
           /\ b.path[p].action # "start"
  <2>1. c = s
    BY <1>3 DEF ToldIdle
  <2>2. /\ s \in State /\ SameButPath(b, s, p)
        /\ s.path[p] = [b.path[p] EXCEPT !.user = "stopped"]
        /\ s.path[p].user = "stopped" /\ s.path[p].state = b.path[p].state
    <3>1. "stopped" \in UserStates
      BY DEF UserStates
    <3> QED BY <1>0, <3>1, SetUser
  <2>3. Drivers(s.path[p]) = Drivers(b.path[p])
    <3>1. b.path[p] \in PathRecord
      BY <1>0, StateFields
    <3> HIDE DEF s
    <3> QED BY <2>2, <3>1, UserOnly
  <2> HIDE DEF s, c
  <2>4. Core(s, o)
    BY <1>0, <2>2, <2>3, UserStep
  <2>5. \A q \in Paths : Waits(s, q) <=> Waits(b, q)
    BY <2>2 DEF Waits, SameButPath, SameQueues
  <2>6. Stops(s, R)
    BY <2>2, <2>5 DEF Good, Stops, SameButPath, SameQueues
  <2>7. Users(s, {}) /\ Starting(s)
    <3>1. \A q \in Paths : s.path[q].state = b.path[q].state
      BY <2>2 DEF SameButPath
    <3>2. Starting(s)
      BY <2>2, <3>1 DEF Good, Starting, SameButPath
    <3>3. Users(s, {})
      <4>1. \A q \in Paths \ {p} : s.path[q] = b.path[q]
        BY <2>2 DEF SameButPath
      <4>2. s.path[p].user = "stopped" /\ s.path[p].state = "IDLE"
        BY <2>2
      <4> QED BY <4>1, <4>2 DEF Good, Users
    <3> QED BY <3>2, <3>3
  <2>8. b.missed => NoStallOf(s)
    BY <2>2 DEF NoStallOf, SameButPath
  <2> QED BY <2>1, <2>4, <2>6, <2>7, <2>8 DEF Good
<1> QED BY <1>1, <1>2, <1>3

-----------------------------------------------------------------------------
(* What Set does to the drivers of a path.                                 *)

DspStates == {"off", "loading", "prepared", "creating", "on", "disabling", "stuck"}
CodecStates == {"off", "enabling", "on", "disabling"}

\* What changes when the session of p with the DSP makes a step.
LEMMA SetDsp ==
  ASSUME NEW b \in State, NEW p \in Paths, NEW v \in DspStates
  PROVE  LET c == Set(b, p, "dsp", v)
             x == b.path[p]
             y == c.path[p] IN
         /\ c \in State /\ SameButPath(b, c, p)
         /\ y.dsp = v /\ y.cat = x.cat /\ y.state = x.state /\ y.codec = x.codec
         /\ y.plugin = x.plugin /\ y.waitCodec = x.waitCodec
         /\ y.waitRunning = x.waitRunning /\ y.user = x.user /\ y.action = x.action
<1> DEFINE x == b.path[p]
           y == [x EXCEPT !.dsp = v]
<1>1. x \in PathRecord
  BY StateFields
<1>2. y = [b.path[p] EXCEPT !["dsp"] = v]
  OBVIOUS
<1> HIDE DEF x
<1>3. /\ y \in PathRecord
      /\ y.dsp = v /\ y.cat = x.cat /\ y.state = x.state /\ y.codec = x.codec
      /\ y.plugin = x.plugin /\ y.waitCodec = x.waitCodec /\ y.waitRunning = x.waitRunning
      /\ y.user = x.user /\ y.action = x.action
  BY <1>1 DEF PathRecord, DspStates
<1> HIDE DEF y
<1>4. Set(b, p, "dsp", v) \in State /\ Set(b, p, "dsp", v).path[p] = y
      /\ SameButPath(b, Set(b, p, "dsp", v), p)
  BY <1>2, <1>3, SetPath
<1> QED BY <1>3, <1>4 DEF x

\* What changes when the codec of p makes a step.
LEMMA SetCodec ==
  ASSUME NEW b \in State, NEW p \in Paths, NEW v \in CodecStates
  PROVE  LET c == Set(b, p, "codec", v)
             x == b.path[p]
             y == c.path[p] IN
         /\ c \in State /\ SameButPath(b, c, p)
         /\ y.codec = v /\ y.cat = x.cat /\ y.state = x.state /\ y.dsp = x.dsp
         /\ y.plugin = x.plugin /\ y.waitCodec = x.waitCodec
         /\ y.waitRunning = x.waitRunning /\ y.user = x.user /\ y.action = x.action
<1> DEFINE x == b.path[p]
           y == [x EXCEPT !.codec = v]
<1>1. x \in PathRecord
  BY StateFields
<1>2. y = [b.path[p] EXCEPT !["codec"] = v]
  OBVIOUS
<1> HIDE DEF x
<1>3. /\ y \in PathRecord
      /\ y.codec = v /\ y.cat = x.cat /\ y.state = x.state /\ y.dsp = x.dsp
      /\ y.plugin = x.plugin /\ y.waitCodec = x.waitCodec /\ y.waitRunning = x.waitRunning
      /\ y.user = x.user /\ y.action = x.action
  BY <1>1 DEF PathRecord, CodecStates
<1> HIDE DEF y
<1>4. Set(b, p, "codec", v) \in State /\ Set(b, p, "codec", v).path[p] = y
      /\ SameButPath(b, Set(b, p, "codec", v), p)
  BY <1>2, <1>3, SetPath
<1> QED BY <1>3, <1>4 DEF x

\* What changes when p's plugins are switched on or off.
LEMMA SetPlugin ==
  ASSUME NEW b \in State, NEW p \in Paths, NEW v \in BOOLEAN
  PROVE  LET c == Set(b, p, "plugin", v)
             x == b.path[p]
             y == c.path[p] IN
         /\ c \in State /\ SameButPath(b, c, p)
         /\ y.plugin = v /\ y.cat = x.cat /\ y.state = x.state /\ y.codec = x.codec
         /\ y.dsp = x.dsp /\ y.waitCodec = x.waitCodec /\ y.waitRunning = x.waitRunning
         /\ y.user = x.user /\ y.action = x.action
<1> DEFINE x == b.path[p]
           y == [x EXCEPT !.plugin = v]
<1>1. x \in PathRecord
  BY StateFields
<1>2. y = [b.path[p] EXCEPT !["plugin"] = v]
  OBVIOUS
<1> HIDE DEF x
<1>3. /\ y \in PathRecord
      /\ y.plugin = v /\ y.cat = x.cat /\ y.state = x.state /\ y.codec = x.codec
      /\ y.dsp = x.dsp /\ y.waitCodec = x.waitCodec /\ y.waitRunning = x.waitRunning
      /\ y.user = x.user /\ y.action = x.action
  BY <1>1 DEF PathRecord
<1> HIDE DEF y
<1>4. Set(b, p, "plugin", v) \in State /\ Set(b, p, "plugin", v).path[p] = y
      /\ SameButPath(b, Set(b, p, "plugin", v), p)
  BY <1>2, <1>3, SetPath
<1> QED BY <1>3, <1>4 DEF x

\* What changes when p begins or ends to wait for the codec.
LEMMA SetWaitCodec ==
  ASSUME NEW b \in State, NEW p \in Paths, NEW v \in BOOLEAN
  PROVE  LET c == Set(b, p, "waitCodec", v)
             x == b.path[p]
             y == c.path[p] IN
         /\ c \in State /\ SameButPath(b, c, p)
         /\ y.waitCodec = v /\ y.cat = x.cat /\ y.state = x.state /\ y.codec = x.codec
         /\ y.dsp = x.dsp /\ y.plugin = x.plugin /\ y.waitRunning = x.waitRunning
         /\ y.user = x.user /\ y.action = x.action
<1> DEFINE x == b.path[p]
           y == [x EXCEPT !.waitCodec = v]
<1>1. x \in PathRecord
  BY StateFields
<1>2. y = [b.path[p] EXCEPT !["waitCodec"] = v]
  OBVIOUS
<1> HIDE DEF x
<1>3. /\ y \in PathRecord
      /\ y.waitCodec = v /\ y.cat = x.cat /\ y.state = x.state /\ y.codec = x.codec
      /\ y.dsp = x.dsp /\ y.plugin = x.plugin /\ y.waitRunning = x.waitRunning
      /\ y.user = x.user /\ y.action = x.action
  BY <1>1 DEF PathRecord
<1> HIDE DEF y
<1>4. Set(b, p, "waitCodec", v) \in State /\ Set(b, p, "waitCodec", v).path[p] = y
      /\ SameButPath(b, Set(b, p, "waitCodec", v), p)
  BY <1>2, <1>3, SetPath
<1> QED BY <1>3, <1>4 DEF x

\* What changes when p begins or ends to wait for running.
LEMMA SetWaitRunning ==
  ASSUME NEW b \in State, NEW p \in Paths, NEW v \in BOOLEAN
  PROVE  LET c == Set(b, p, "waitRunning", v)
             x == b.path[p]
             y == c.path[p] IN
         /\ c \in State /\ SameButPath(b, c, p)
         /\ y.waitRunning = v /\ y.cat = x.cat /\ y.state = x.state /\ y.codec = x.codec
         /\ y.dsp = x.dsp /\ y.plugin = x.plugin /\ y.waitCodec = x.waitCodec
         /\ y.user = x.user /\ y.action = x.action
<1> DEFINE x == b.path[p]
           y == [x EXCEPT !.waitRunning = v]
<1>1. x \in PathRecord
  BY StateFields
<1>2. y = [b.path[p] EXCEPT !["waitRunning"] = v]
  OBVIOUS
<1> HIDE DEF x
<1>3. /\ y \in PathRecord
      /\ y.waitRunning = v /\ y.cat = x.cat /\ y.state = x.state /\ y.codec = x.codec
      /\ y.dsp = x.dsp /\ y.plugin = x.plugin /\ y.waitCodec = x.waitCodec
      /\ y.user = x.user /\ y.action = x.action
  BY <1>1 DEF PathRecord
<1> HIDE DEF y
<1>4. Set(b, p, "waitRunning", v) \in State /\ Set(b, p, "waitRunning", v).path[p] = y
      /\ SameButPath(b, Set(b, p, "waitRunning", v), p)
  BY <1>2, <1>3, SetPath
<1> QED BY <1>3, <1>4 DEF x

\* The path that waits for the ANC engine to stop, and a message to the task.
LEMMA SetDisabling ==
  ASSUME NEW b \in State, NEW p \in Paths \cup {NoPath}
  PROVE  LET c == [b EXCEPT !.ancDisabling = p] IN
         /\ c \in State /\ c.list = b.list /\ c.path = b.path /\ c.msgs = b.msgs
         /\ c.stops = b.stops /\ c.starting = b.starting /\ c.missed = b.missed
         /\ c.power = b.power /\ c.ancEnabling = b.ancEnabling /\ c.ancDisabling = p
BY DEF State

\* A message of p is queued.
LEMMA OccasionFacts ==
  ASSUME NEW b \in State, NEW p \in Paths, NEW w \in Occasions
  PROVE  LET c == Occasion(b, p, w) IN
         /\ c \in State /\ c.list = b.list /\ c.path = b.path
         /\ c.msgs = Append(b.msgs, [path |-> p, occasion |-> w])
         /\ c.stops = b.stops /\ c.starting = b.starting /\ c.missed = b.missed
         /\ c.power = b.power /\ c.ancEnabling = b.ancEnabling
         /\ c.ancDisabling = b.ancDisabling
         /\ \A q \in Paths, v \in Mails : q # p /\ Mail(b.msgs, q, v) => Mail(c.msgs, q, v)
         /\ NoMail(b.msgs, p) => Mail(c.msgs, p, w)
         /\ Mail(b.msgs, p, "DIGITAL_ON") /\ w = "DIGITAL_OFF" => Mail(c.msgs, p, "ON_OFF")
<1> DEFINE c == Occasion(b, p, w)
           e == [path |-> p, occasion |-> w]
           n == Append(b.msgs, e)
<1>1. e \in Messages /\ e.path = p
  BY DEF Messages
<1>2. b.msgs \in Seq(Messages)
  BY StateFields
<1>3. n \in Seq(Messages)
  BY <1>1, <1>2, AppendProperties
<1>4. c = [b EXCEPT !.msgs = n]
  BY DEF Occasion
<1>5. \A q \in Paths, v \in Mails : q # p /\ Mail(b.msgs, q, v) => Mail(n, q, v)
  BY <1>1, <1>2, MailOther
<1>6. /\ NoMail(b.msgs, p) => Mail(n, p, w)
      /\ Mail(b.msgs, p, "DIGITAL_ON") /\ w = "DIGITAL_OFF" => Mail(n, p, "ON_OFF")
  BY <1>2, MailOwn
<1> HIDE DEF n, c
<1>7. /\ c \in State /\ c.list = b.list /\ c.path = b.path /\ c.msgs = n
      /\ c.stops = b.stops /\ c.starting = b.starting /\ c.missed = b.missed
      /\ c.power = b.power /\ c.ancEnabling = b.ancEnabling
      /\ c.ancDisabling = b.ancDisabling
  BY <1>3, <1>4 DEF State
<1> QED BY <1>5, <1>6, <1>7 DEF c, n

-----------------------------------------------------------------------------
(* audio_path_stop.                                                        *)

\* What the stop of a path leaves of the rest of the scheduler.
OnlyTakesDown(b, c, p) ==
  /\ c.list = b.list /\ c.stops = b.stops /\ c.starting = b.starting
  /\ c.power = b.power /\ c.missed = b.missed
  /\ \A q \in Paths \ {p} : c.path[q] = b.path[q]
  /\ c.path[p].cat = b.path[p].cat /\ c.path[p].user = b.path[p].user
  /\ c.path[p].state = "STOPPING"

\* The steps of a running path that is stopped.
LEMMA FallingFirst ==
  ASSUME NEW x \in PathRecord, NEW y \in PathRecord, NEW w, NEW e, NEW d,
         Risen(x, w, e, d), y.cat = x.cat, y.codec = x.codec, y.plugin = x.plugin,
         y.waitCodec = x.waitCodec, y.waitRunning = x.waitRunning
  PROVE  /\ x.dsp = (IF HasDsp(x.cat) THEN "on" ELSE "off")
         /\ ~e /\ ~d
         /\ x.cat = "HWVAD" => w = "none"
         /\ IsAnc(x.cat) /\ y.dsp = x.dsp => Falling(y, w, e, FALSE) /\ Falling(y, w, e, TRUE)
         /\ x.cat = "HWVAD" /\ y.dsp = x.dsp => Falling(y, "DIGITAL_OFF", e, d)
         /\ HasDsp(x.cat) /\ y.dsp = "disabling" => Falling(y, w, e, d)
<1>1. x.dsp = (IF HasDsp(x.cat) THEN "on" ELSE "off") /\ ~e /\ ~d
  BY DEF Risen
<1>2. x.cat = "HWVAD" => w = "none"
  BY DEF Risen, PathRecord
<1>3. IsAnc(x.cat) /\ y.dsp = x.dsp => Falling(y, w, e, FALSE) /\ Falling(y, w, e, TRUE)
  BY DomainFacts DEF Risen, Falling, CodecIn
<1>4. x.cat = "HWVAD" /\ y.dsp = x.dsp => Falling(y, "DIGITAL_OFF", e, d)
  BY DomainFacts DEF Risen, Falling, CodecIn
<1>5. HasDsp(x.cat) /\ y.dsp = "disabling" => Falling(y, w, e, d)
  BY DomainFacts DEF Risen, Falling, CodecIn
<1> QED BY <1>1, <1>2, <1>3, <1>4, <1>5

\* What takes the drivers of a path of each category down.
LEMMA TakenDownCases ==
  ASSUME NEW m, NEW p, NEW z, Cat(m, p) = z
  PROVE  /\ IsAnc(z) /\ m.ancDisabling # NoPath => TakenDown(m, p) = m
         /\ IsAnc(z) /\ m.ancDisabling = NoPath =>
              TakenDown(m, p) = [m EXCEPT !.ancDisabling = p]
         /\ z = "HWVAD" => TakenDown(m, p) = Occasion(m, p, "DIGITAL_OFF")
         /\ ~IsAnc(z) /\ z # "HWVAD" /\ m.path[p].dsp = "on" =>
              TakenDown(m, p) = Set(m, p, "dsp", "disabling")
<1>1. IsAnc(z) => z # "HWVAD"
  BY DomainFacts
<1>2. /\ IsAnc(z) => TakenDown(m, p) = IF m.ancDisabling = NoPath
                                       THEN [m EXCEPT !.ancDisabling = p] ELSE m
      /\ z = "HWVAD" => TakenDown(m, p) = Occasion(m, p, "DIGITAL_OFF")
      /\ ~IsAnc(z) /\ z # "HWVAD" =>
           TakenDown(m, p) = Set(m, p, "dsp", DspDisabled(m.path[p].dsp))
  BY <1>1 DEF TakenDown
<1> QED BY <1>2 DEF DspDisabled

\* A running path is taken down.
LEMMA TakenDownCore ==
  ASSUME NEW b, NEW o, Core(b, o), NEW p \in Paths, b.path[p].state = "RUNNING",
         \A q \in Paths : b.path[q].state # "READY"
  PROVE  LET c == TakenDown(Set(b, p, "state", "STOPPING"), p)
         IN  Core(c, o) /\ OnlyTakesDown(b, c, p)
<1> DEFINE m == Set(b, p, "state", "STOPPING")
           c == TakenDown(m, p)
           x == b.path[p]
<1> SUFFICES Core(c, o) /\ OnlyTakesDown(b, c, p)
  OBVIOUS
<1>1. b \in State /\ x \in PathRecord /\ Exists(x)
  BY StateFields DEF Core, Fits
<1>2. /\ m \in State /\ SameButPath(b, m, p)
      /\ m.path[p] = [x EXCEPT !.state = "STOPPING"]
      /\ m.path[p].state = "STOPPING" /\ m.path[p].user = x.user /\ m.path[p].cat = x.cat
  <2>1. "STOPPING" \in PathStates
    BY DEF PathStates
  <2> QED BY <1>1, <2>1, SetState
<1> DEFINE y == m.path[p]
<1>3. Drivers(y) = Drivers(x)
  <2> HIDE DEF m, x
  <2> QED BY <1>1, <1>2, UserOnly
<1>4. /\ y.cat = x.cat /\ y.codec = x.codec /\ y.dsp = x.dsp /\ y.plugin = x.plugin
      /\ y.waitCodec = x.waitCodec /\ y.waitRunning = x.waitRunning
  BY <1>3, DriversFields
<1>5. PICK w \in Mails :
        Sent(b, o, p, w) /\ Phase(x, w, b.ancEnabling = p, b.ancDisabling = p)
  BY DEF Core, Fits
<1> DEFINE e == b.ancEnabling = p
           d == b.ancDisabling = p
<1>6. Risen(x, w, e, d)
  <2>1. Phase(x, w, e, d)
    BY <1>5
  <2> HIDE DEF e, d
  <2> QED BY <2>1 DEF Phase
\* What is left to show of each case: the messages and the step of p.
<1>7. ASSUME NEW k \in State, OnlyTakesDown(b, k, p), NEW v \in Mails,
             Sent(k, o, p, v), k.ancEnabling = b.ancEnabling,
             Falling(k.path[p], v, k.ancEnabling = p, k.ancDisabling = p),
             \A q \in Paths \ {p} : /\ k.ancDisabling = q <=> b.ancDisabling = q
                                    /\ \A u \in Mails : Mail(b.msgs, q, u) => Mail(k.msgs, q, u)
      PROVE  Core(k, o)
  <2>1. \A q \in Paths \ {p} : k.path[q] = b.path[q] /\ Fits(k, o, q)
    <3> TAKE q \in Paths \ {p}
    <3>1. Fits(b, o, q)
      BY DEF Core
    <3>2. k.path[q] = b.path[q]
      BY <1>7 DEF OnlyTakesDown
    <3> QED BY <1>7, <3>1, <3>2, FitsSame
  <2>2. Exists(k.path[p])
    <3>1. x.cat # "none"
      BY <1>1 DEF Exists, Absent
    <3> QED BY <1>1, <1>7, <3>1 DEF Exists, OnlyTakesDown
  <2>3. Phase(k.path[p], v, k.ancEnabling = p, k.ancDisabling = p)
    <3>1. k.path[p].state = "STOPPING"
      BY <1>7 DEF OnlyTakesDown
    <3> QED BY <1>7, <3>1 DEF Phase
  <2>4. Fits(k, o, p)
    BY <1>7, <2>2, <2>3 DEF Fits
  <2>5. Steady(k) /\ Mixes(k)
    <3>1. k.path[p].state = "STOPPING" /\ Busy(b.path[p]) /\ k.path[p].cat = b.path[p].cat
      BY <1>7 DEF Busy, OnlyTakesDown
    <3>2. Steady(b) /\ Mixes(b)
      BY DEF Core
    <3>3. \A q \in Paths \ {p} : k.path[q] = b.path[q]
      BY <2>1
    <3> QED BY <3>1, <3>2, <3>3, Lower
  <2>6. k.list = b.list /\ k.path[p].cat = b.path[p].cat
    BY <1>7 DEF OnlyTakesDown
  <2> QED BY <1>7, <2>1, <2>4, <2>5, <2>6, OnePath
<1>8. /\ x.dsp = (IF HasDsp(x.cat) THEN "on" ELSE "off") /\ ~e /\ ~d
      /\ x.cat = "HWVAD" => w = "none"
      /\ IsAnc(x.cat) /\ y.dsp = x.dsp => Falling(y, w, e, FALSE) /\ Falling(y, w, e, TRUE)
      /\ x.cat = "HWVAD" /\ y.dsp = x.dsp => Falling(y, "DIGITAL_OFF", e, d)
  <2>1. y \in PathRecord
    BY <1>2, StateFields
  <2> HIDE DEF e, d, x, y
  <2> QED BY <1>1, <1>4, <1>6, <2>1, FallingFirst
<1>9. /\ m.list = b.list /\ m.stops = b.stops /\ m.starting = b.starting
      /\ m.power = b.power /\ m.missed = b.missed /\ m.msgs = b.msgs
      /\ m.ancEnabling = b.ancEnabling /\ m.ancDisabling = b.ancDisabling
      /\ \A q \in Paths \ {p} : m.path[q] = b.path[q]
  BY <1>2 DEF SameButPath, SameQueues
<1>10. Cat(m, p) = x.cat
  BY <1>2 DEF Cat
<1> HIDE DEF m
<1>11. OnlyTakesDown(b, m, p)
  BY <1>2, <1>9 DEF OnlyTakesDown
<1>12. CASE IsAnc(x.cat) /\ m.ancDisabling # NoPath
  <2>1. c = m
    BY <1>10, <1>12, TakenDownCases
  <2>2. Falling(m.path[p], w, m.ancEnabling = p, m.ancDisabling = p)
    <3>1. (m.ancDisabling = p) = FALSE /\ (m.ancEnabling = p) = e
      BY <1>8, <1>9
    <3> QED BY <1>4, <1>8, <1>12, <3>1
  <2>3. Sent(m, o, p, w)
    BY <1>5, <1>9 DEF Sent
  <2>4. Core(m, o)
    BY <1>2, <1>7, <1>9, <1>11, <2>2, <2>3
  <2> QED BY <1>11, <2>1, <2>4
<1>13. CASE IsAnc(x.cat) /\ m.ancDisabling = NoPath
  <2> DEFINE k == [m EXCEPT !.ancDisabling = p]
  <2>1. c = k
    BY <1>10, <1>13, TakenDownCases
  <2>2. /\ k \in State /\ k.list = m.list /\ k.path = m.path /\ k.msgs = m.msgs
        /\ k.stops = m.stops /\ k.starting = m.starting /\ k.missed = m.missed
        /\ k.power = m.power /\ k.ancEnabling = m.ancEnabling /\ k.ancDisabling = p
    BY <1>2, SetDisabling
  <2> HIDE DEF k, c
  <2>3. OnlyTakesDown(b, k, p)
    BY <1>11, <2>2 DEF OnlyTakesDown
  <2>4. Falling(k.path[p], w, k.ancEnabling = p, k.ancDisabling = p)
    <3>1. (k.ancDisabling = p) = TRUE /\ (k.ancEnabling = p) = e
      BY <1>9, <2>2
    <3> QED BY <1>4, <1>8, <1>13, <2>2, <3>1
  <2>5. Sent(k, o, p, w)
    BY <1>5, <1>9, <2>2 DEF Sent
  <2>6. \A q \in Paths \ {p} : k.ancDisabling = q <=> b.ancDisabling = q
    BY <1>9, <1>13, <2>2, NoPathAssumption
  <2>7. Core(k, o)
    BY <1>7, <1>9, <2>2, <2>3, <2>4, <2>5, <2>6
  <2> QED BY <2>1, <2>3, <2>7
<1>14. CASE x.cat = "HWVAD"
  <2> DEFINE k == Occasion(m, p, "DIGITAL_OFF")
  <2>1. c = k
    BY <1>10, <1>14, TakenDownCases
  <2>2. "DIGITAL_OFF" \in Occasions /\ "DIGITAL_OFF" \in Mails
    BY DEF Occasions, Mails
  <2>3. /\ k \in State /\ k.list = m.list /\ k.path = m.path
        /\ k.stops = m.stops /\ k.starting = m.starting /\ k.missed = m.missed
        /\ k.power = m.power /\ k.ancEnabling = m.ancEnabling
        /\ k.ancDisabling = m.ancDisabling
        /\ \A q \in Paths, v \in Mails : q # p /\ Mail(m.msgs, q, v) => Mail(k.msgs, q, v)
        /\ NoMail(m.msgs, p) => Mail(k.msgs, p, "DIGITAL_OFF")
    <3>1. m \in State
      BY <1>2
    <3> QED BY <2>2, <3>1, OccasionFacts
  <2> HIDE DEF k, c
  <2>4. OnlyTakesDown(b, k, p)
    BY <1>11, <2>3 DEF OnlyTakesDown
  <2>5. Falling(k.path[p], "DIGITAL_OFF", k.ancEnabling = p, k.ancDisabling = p)
    <3>1. (k.ancDisabling = p) = d /\ (k.ancEnabling = p) = e
      BY <1>9, <2>3
    <3> QED BY <1>4, <1>8, <1>14, <2>3, <3>1
  <2>6. Sent(k, o, p, "DIGITAL_OFF")
    <3>1. p # o /\ NoMail(b.msgs, p)
      BY <1>5, <1>8, <1>14 DEF Sent, Mail, Occasions
    <3> QED BY <1>9, <2>3, <3>1 DEF Sent
  <2>7. \A q \in Paths \ {p} : /\ k.ancDisabling = q <=> b.ancDisabling = q
                               /\ \A u \in Mails : Mail(b.msgs, q, u) => Mail(k.msgs, q, u)
    BY <1>9, <2>3
  <2>8. k.ancEnabling = b.ancEnabling
    BY <1>9, <2>3
  <2>9. Core(k, o)
    BY <1>7, <2>2, <2>3, <2>4, <2>5, <2>6, <2>7, <2>8
  <2> QED BY <2>1, <2>4, <2>9
<1>15. CASE ~IsAnc(x.cat) /\ x.cat # "HWVAD"
  <2> DEFINE k == Set(m, p, "dsp", "disabling")
  <2>1. HasDsp(x.cat)
    BY <1>15, DomainFacts
  <2>2. c = k
    BY <1>4, <1>8, <1>10, <1>15, <2>1, TakenDownCases
  <2>3. /\ k \in State /\ SameButPath(m, k, p)
        /\ k.path[p].dsp = "disabling" /\ k.path[p].cat = y.cat /\ k.path[p].state = y.state
        /\ k.path[p].codec = y.codec /\ k.path[p].plugin = y.plugin
        /\ k.path[p].waitCodec = y.waitCodec /\ k.path[p].waitRunning = y.waitRunning
        /\ k.path[p].user = y.user
    <3>1. m \in State /\ "disabling" \in DspStates
      BY <1>2 DEF DspStates
    <3> QED BY <3>1, SetDsp
  <2> HIDE DEF k, c
  <2>4. OnlyTakesDown(b, k, p)
    BY <1>2, <1>11, <2>3 DEF OnlyTakesDown, SameButPath, SameQueues
  <2>5. Falling(k.path[p], w, e, d)
    <3> DEFINE z == k.path[p]
    <3>1. z \in PathRecord
      BY <2>3, StateFields
    <3>2. /\ z.dsp = "disabling" /\ z.cat = x.cat /\ z.codec = x.codec
          /\ z.plugin = x.plugin /\ z.waitCodec = x.waitCodec /\ z.waitRunning = x.waitRunning
      BY <1>4, <2>3
    <3> HIDE DEF e, d, x, z
    <3>3. Falling(z, w, e, d)
      BY <1>1, <1>6, <2>1, <3>1, <3>2, FallingFirst
    <3> QED BY <3>3 DEF z
  <2>6. (k.ancDisabling = p) = d /\ (k.ancEnabling = p) = e /\ k.msgs = b.msgs
        /\ k.ancEnabling = b.ancEnabling /\ k.ancDisabling = b.ancDisabling
    BY <1>9, <2>3 DEF SameButPath, SameQueues
  <2>7. Falling(k.path[p], w, k.ancEnabling = p, k.ancDisabling = p)
    BY <2>5, <2>6
  <2>8. Sent(k, o, p, w)
    BY <1>5, <2>6 DEF Sent
  <2>9. Core(k, o)
    BY <1>7, <2>3, <2>4, <2>6, <2>7, <2>8
  <2> QED BY <2>2, <2>4, <2>9
<1> QED BY <1>12, <1>13, <1>14, <1>15

\* The stop of a path that is not idle, and does not wait to be stopped yet.
LEMMA StopWaits ==
  ASSUME NEW b, NEW o, NEW R, NEW p \in Paths, Good(b, o, {}, R),
         b.path[p].user = "stopping", p \notin R, ~Waits(b, p),
         \E q \in Paths : b.path[q].state = "READY"
  PROVE  LET c == [b EXCEPT !.stops = Append(@, p)]
         IN  Good(c, o, {}, R) /\ NoStallOf(c)
<1> DEFINE n == Append(b.stops, p)
           c == [b EXCEPT !.stops = n]
<1> SUFFICES Good(c, o, {}, R) /\ NoStallOf(c)
  OBVIOUS
<1>1. b \in State /\ Core(b, o) /\ b.starting /\ Listed(b) /\ Steady(b) /\ Mixes(b)
      /\ \A q \in Paths : Fits(b, o, q)
  BY DEF Good, Core, Starting
<1>2. /\ b.stops \in Seq(Paths) /\ n \in Seq(Paths) /\ Len(b.stops) \in Nat
      /\ DOMAIN b.stops = 1..Len(b.stops) /\ DOMAIN n = 1..(Len(b.stops) + 1)
      /\ n[Len(b.stops) + 1] = p
      /\ \A i \in 1..Len(b.stops) : n[i] = b.stops[i]
  BY <1>1, StateFields, LenProperties, AppendProperties
<1> HIDE DEF n
<1>3. /\ c \in State /\ c.list = b.list /\ c.path = b.path /\ c.msgs = b.msgs
      /\ c.stops = n /\ c.starting = b.starting
      /\ c.ancEnabling = b.ancEnabling /\ c.ancDisabling = b.ancDisabling
  BY <1>1, <1>2 DEF State
<1> HIDE DEF c
<1>4. Core(c, o)
  <2>1. \A q \in Paths : Fits(c, o, q)
    BY <1>1, <1>3 DEF Fits, Sent
  <2> QED BY <1>1, <1>3, <2>1 DEF Core, Listed, Steady, Mixes
<1>5. Users(c, {}) /\ Starting(c)
  BY <1>3 DEF Good, Users, Starting
<1>6. b.path[p].state \notin {"IDLE", "STOPPING"}
  BY <1>1 DEF Good, Users, Steady
<1>7. \A q \in Paths : Waits(c, q) <=> Waits(b, q) \/ q = p
  BY <1>2, <1>3 DEF Waits
<1>8. Stops(c, R)
  <2>1. \A i, j \in DOMAIN c.stops : c.stops[i] = c.stops[j] => i = j
    <3>1. \A i, j \in 1..Len(b.stops) : b.stops[i] = b.stops[j] => i = j
      BY <1>2 DEF Good, Stops
    <3>2. \A i \in 1..Len(b.stops) : b.stops[i] # p
      BY <1>2 DEF Waits
    <3> QED BY <1>2, <1>3, <3>1, <3>2
  <2>2. \A q \in Paths :
          /\ Waits(c, q) \/ q \in R => /\ c.path[q].user = "stopping"
                                       /\ c.path[q].state \notin {"IDLE", "STOPPING"}
          /\ ~(Waits(c, q) /\ q \in R)
    BY <1>3, <1>6, <1>7 DEF Good, Stops
  <2> QED BY <1>1, <1>3, <2>1, <2>2 DEF Stops
<1>9. NoStallOf(c)
  BY <1>3, <1>4, StableFacts DEF Stable
<1> QED BY <1>4, <1>5, <1>8, <1>9 DEF Good

\* What a path that leaves for STOPPING leaves of Good.
LEMMA StoppingGood ==
  ASSUME NEW b, NEW o, NEW R, NEW p \in Paths, Good(b, o, {}, R),
         b.path[p].user = "stopping", p \notin R, ~Waits(b, p),
         b.path[p].state # "READY",
         NEW c, Core(c, o), OnlyTakesDown(b, c, p)
  PROVE  Good(c, o, {}, R) /\ NoStallOf(c)
<1>1. c.path[p].state = "STOPPING" /\ c.path[p].user = "stopping"
  BY DEF OnlyTakesDown
<1>2. \A q \in Paths \ {p} : c.path[q] = b.path[q]
  BY DEF OnlyTakesDown
<1>3. Users(c, {})
  BY <1>1, <1>2 DEF Good, Users
<1>4. Starting(c)
  BY <1>1, <1>2 DEF Good, Starting, OnlyTakesDown
<1>5. \A q \in Paths : Waits(c, q) <=> Waits(b, q)
  BY DEF Waits, OnlyTakesDown
<1>6. Stops(c, R)
  BY <1>1, <1>2, <1>5 DEF Good, Stops, OnlyTakesDown
<1>7. NoStallOf(c)
  BY <1>1, StableFacts DEF Stable
<1> QED BY <1>3, <1>4, <1>6, <1>7 DEF Good

\* audio_path_stop, called by the user who wants the path at rest.
LEMMA StopGood ==
  ASSUME NEW b, NEW o, NEW R, NEW p \in Paths, Good(b, o, {}, R),
         b.path[p].user = "stopping", p \notin R, ~Waits(b, p)
  PROVE  LET c == audio_path_stop(b, p)
         IN  Good(c, o, {}, R) /\ (NoStallOf(b) => NoStallOf(c))
<1> DEFINE c == audio_path_stop(b, p)
           x == b.path[p]
<1> SUFFICES Good(c, o, {}, R) /\ (NoStallOf(b) => NoStallOf(c))
  OBVIOUS
<1>1. b \in State /\ Core(b, o) /\ Users(b, {})
  BY DEF Good, Core
<1>2. x \in PathRecord /\ x.cat # "none" /\ x.state # "IDLE"
  <2>1. Fits(b, o, p)
    BY <1>1 DEF Core
  <2>2. x.cat # "none"
    BY <2>1 DEF Fits, Exists, Absent
  <2> QED BY <1>1, <2>2, StateFields DEF Users
<1>3. audio_path_starting_check(b) <=> \E q \in Paths : b.path[q].state = "READY"
  BY <1>1, StableFacts
<1>4. CASE audio_path_starting_check(b)
  <2>1. c = [b EXCEPT !.stops = Append(@, p)]
    BY <1>2, <1>4 DEF audio_path_stop
  <2> HIDE DEF c, x
  <2> QED BY <1>3, <1>4, <2>1, StopWaits DEF x
<1>5. CASE ~audio_path_starting_check(b) /\ x.state = "PENDING"
  <2> DEFINE m == Set(b, p, "state", "IDLE")
             n == [m EXCEPT !.missed = TRUE]
  <2>1. c = ToldIdle(n, p)
    BY <1>5 DEF audio_path_stop
  <2>2. /\ Core(m, o) /\ SameButPath(b, m, p) /\ m.path[p].state = "IDLE"
        /\ m.path[p].cat = x.cat
    BY <1>1, <1>2, <1>5, RestCore
  <2> HIDE DEF m, c
  <2>3. /\ m.stops = b.stops /\ m.starting = b.starting
        /\ \A q \in Paths \ {p} : m.path[q] = b.path[q]
    BY <2>2 DEF SameButPath, SameQueues
  <2>4. Good(m, o, {p}, R)
    <3>1. Users(m, {p})
      BY <2>3 DEF Good, Users
    <3>2. Starting(m)
      BY <1>5, <2>2, <2>3 DEF Good, Starting
    <3>3. \A q \in Paths : Waits(m, q) <=> Waits(b, q)
      BY <2>3 DEF Waits
    <3>4. Stops(m, R)
      BY <2>3, <3>3 DEF Good, Stops
    <3> QED BY <2>2, <3>1, <3>2, <3>4 DEF Good
  <2>5. /\ n \in State /\ SameQueues(m, n) /\ n.path = m.path /\ n.starting = m.starting
        /\ n.missed
    <3>1. m \in State
      BY <2>2 DEF Core
    <3> QED BY <3>1 DEF State, SameQueues
  <2> HIDE DEF n
  <2>6. Good(n, o, {p}, R)
    BY <2>4, <2>5, SamePaths
  <2> QED BY <1>2, <2>1, <2>2, <2>5, <2>6, ToldIdleGood
<1>6. CASE ~audio_path_starting_check(b) /\ x.state = "SUSPENDING"
  <2> DEFINE m == Set(b, p, "state", "STOPPING")
  <2>1. c = m
    BY <1>6 DEF audio_path_stop
  <2>2. /\ m \in State /\ SameButPath(b, m, p) /\ m.path[p] = [x EXCEPT !.state = "STOPPING"]
        /\ m.path[p].state = "STOPPING" /\ m.path[p].user = x.user /\ m.path[p].cat = x.cat
    <3>1. "STOPPING" \in PathStates
      BY DEF PathStates
    <3> QED BY <1>1, <3>1, SetState
  <2> HIDE DEF m, c
  <2>3. Drivers(m.path[p]) = Drivers(x)
    <3> HIDE DEF x
    <3> QED BY <1>2, <2>2, UserOnly
  <2>4. /\ m.list = b.list /\ m.msgs = b.msgs
        /\ m.ancEnabling = b.ancEnabling /\ m.ancDisabling = b.ancDisabling
        /\ \A q \in Paths \ {p} : m.path[q] = b.path[q]
    BY <2>2 DEF SameButPath, SameQueues
  <2>5. Fits(m, o, p)
    <3>1. PICK w \in Mails :
            Sent(b, o, p, w) /\ Phase(x, w, b.ancEnabling = p, b.ancDisabling = p)
      BY <1>1 DEF Core, Fits
    <3> DEFINE e == m.ancEnabling = p
               d == m.ancDisabling = p
    <3>2. Phase(x, w, e, d)
      BY <2>4, <3>1
    <3> HIDE DEF e, d
    <3>3. Falling(x, w, e, d)
      BY <1>6, <3>2 DEF Phase
    <3>4. Falling(m.path[p], w, e, d)
      BY <2>3, <3>3, PhaseSame
    <3>5. Phase(m.path[p], w, e, d)
      BY <2>2, <3>4 DEF Phase
    <3>6. Sent(m, o, p, w)
      BY <2>4, <3>1 DEF Sent
    <3>7. Exists(m.path[p])
      BY <1>2, <2>2 DEF Exists
    <3> QED BY <3>5, <3>6, <3>7 DEF Fits, e, d
  <2>6. \A q \in Paths \ {p} : m.path[q] = b.path[q] /\ Fits(m, o, q)
    <3> TAKE q \in Paths \ {p}
    <3>1. Fits(b, o, q)
      BY <1>1 DEF Core
    <3> QED BY <2>4, <3>1, FitsSame
  <2>7. Steady(m) /\ Mixes(m)
    <3>1. Busy(b.path[p]) /\ b.path[p].state \in {"SUSPENDING", "STOPPING"}
      BY <1>6 DEF Busy
    <3>2. Steady(b) /\ Mixes(b)
      BY <1>1 DEF Core
    <3>3. m.path[p].state # "READY" /\ m.path[p].cat = b.path[p].cat
      BY <2>2
    <3>4. \A q \in Paths \ {p} : m.path[q] = b.path[q]
      BY <2>4
    <3> QED BY <3>1, <3>2, <3>3, <3>4, Lower
  <2>8. Core(m, o)
    <3>1. m \in State /\ m.list = b.list /\ m.path[p].cat = b.path[p].cat
      BY <2>2, <2>4
    <3> QED BY <1>1, <2>5, <2>6, <2>7, <3>1, OnePath
  <2>9. OnlyTakesDown(b, m, p)
    BY <2>2 DEF OnlyTakesDown, SameButPath, SameQueues
  <2> QED BY <1>6, <2>1, <2>8, <2>9, StoppingGood
<1>7. CASE ~audio_path_starting_check(b) /\ x.state = "RUNNING"
  <2> DEFINE m == TakenDown(Set(b, p, "state", "STOPPING"), p)
  <2>1. c = m
    BY <1>7 DEF audio_path_stop
  <2>2. Core(m, o) /\ OnlyTakesDown(b, m, p)
    BY <1>1, <1>3, <1>7, TakenDownCore
  <2> HIDE DEF m, c
  <2> QED BY <1>7, <2>1, <2>2, StoppingGood
<1>8. CASE x.state \in {"READY", "STOPPING"} /\ ~audio_path_starting_check(b)
  <2>1. c = b
    BY <1>8 DEF audio_path_stop
  <2> QED BY <2>1
<1> QED BY <1>2, <1>4, <1>5, <1>6, <1>7, <1>8 DEF PathRecord

-----------------------------------------------------------------------------
(* What users note for themselves.                                         *)

\* What a step keeps that changes nothing but the user of a path or what it
\* was asked.
Kept(b, c, o, R, p) ==
  /\ Core(c, o) /\ Users(c, {}) /\ Stops(c, R)
  /\ Starting(b) => Starting(c)
  /\ NoStallOf(b) => NoStallOf(c)
  /\ c.stops = b.stops /\ c.starting = b.starting
  /\ \A q \in Paths : c.path[q].state = b.path[q].state
  /\ c.path[p].cat = b.path[p].cat

\* A step of the user of p that leaves the path alone keeps the invariant.
LEMMA UserKept ==
  ASSUME NEW b, NEW o, NEW R, Core(b, o), Users(b, {}), Stops(b, R), NEW p \in Paths,
         NEW c \in State, SameButPath(b, c, p), Drivers(c.path[p]) = Drivers(b.path[p]),
         c.path[p].state = b.path[p].state,
         b.path[p].user # "none", c.path[p].user # "none",
         b.path[p].user = "stopped" <=> c.path[p].user = "stopped",
         Waits(b, p) \/ p \in R => c.path[p].user = "stopping"
  PROVE  Kept(b, c, o, R, p)
<1>1. b.path[p].cat # "none"
  <2>1. Fits(b, o, p)
    BY DEF Core
  <2> QED BY <2>1 DEF Fits, Exists, Absent
<1>2. Core(c, o)
  BY <1>1, UserStep
<1>3. \A q \in Paths : c.path[q].state = b.path[q].state
  BY DEF SameButPath
<1>4. c.path[p].cat = b.path[p].cat
  BY DriversFields
<1>5. /\ c.stops = b.stops /\ c.starting = b.starting /\ c.list = b.list
      /\ c.power = b.power /\ c.missed = b.missed
      /\ \A q \in Paths \ {p} : c.path[q] = b.path[q]
  BY DEF SameButPath, SameQueues
<1>6. \A q \in Paths : Waits(c, q) <=> Waits(b, q)
  BY <1>5 DEF Waits
<1>7. Users(c, {})
  BY <1>3, <1>5 DEF Users
<1>8. Stops(c, R)
  BY <1>3, <1>5, <1>6 DEF Stops
<1>9. Starting(b) => Starting(c)
  BY <1>3, <1>5 DEF Starting
<1>10. NoStallOf(b) => NoStallOf(c)
  <2>1. SameAwake(b, c)
    BY <1>3, <1>4, <1>5 DEF SameAwake
  <2>2. audio_path_schedule_switch(c) = audio_path_schedule_switch(b)
    <3>1. b \in State
      BY DEF Core
    <3> QED BY <1>5, <2>1, <3>1, SwitchKept
  <2> QED BY <1>2, <1>5, <2>1, <2>2, NoStallKept
<1> QED BY <1>2, <1>3, <1>4, <1>5, <1>7, <1>8, <1>9, <1>10 DEF Kept

\* The user's record of p is set, and p is not at rest for its user.
LEMMA SetUserKept ==
  ASSUME NEW b, NEW o, NEW R, Core(b, o), Users(b, {}), Stops(b, R), NEW p \in Paths,
         NEW v \in UserStates, v # "none", v # "stopped",
         b.path[p].user \notin {"none", "stopped"},
         Waits(b, p) \/ p \in R => v = "stopping"
  PROVE  LET c == Set(b, p, "user", v)
         IN  Kept(b, c, o, R, p) /\ c.path[p].user = v
<1> DEFINE c == Set(b, p, "user", v)
<1>1. b \in State /\ b.path[p] \in PathRecord
  BY StateFields DEF Core
<1>2. /\ c \in State /\ SameButPath(b, c, p) /\ c.path[p] = [b.path[p] EXCEPT !.user = v]
      /\ c.path[p].user = v /\ c.path[p].state = b.path[p].state
  BY <1>1, SetUser
<1> HIDE DEF c
<1>3. Drivers(c.path[p]) = Drivers(b.path[p])
  BY <1>1, <1>2, UserOnly
<1>4. Kept(b, c, o, R, p)
  <2>1. b.path[p].user # "none" /\ c.path[p].user # "none"
        /\ (b.path[p].user = "stopped" <=> c.path[p].user = "stopped")
        /\ (Waits(b, p) \/ p \in R => c.path[p].user = "stopping")
        /\ c.path[p].state = b.path[p].state
    BY <1>2
  <2>2. c \in State /\ SameButPath(b, c, p)
    BY <1>2
  <2> QED BY <1>3, <2>1, <2>2, UserKept
<1> QED BY <1>2, <1>4 DEF c

\* The order that waits for the end of a step is set.
LEMMA SetActionKept ==
  ASSUME NEW b, NEW o, NEW R, Core(b, o), Users(b, {}), Stops(b, R), NEW p \in Paths,
         NEW v \in UserActions,
         b.path[p].user # "none"
  PROVE  LET c == Set(b, p, "action", v)
         IN  /\ Kept(b, c, o, R, p)
             /\ c.path[p].action = v /\ c.path[p].user = b.path[p].user
<1> DEFINE c == Set(b, p, "action", v)
<1>1. b \in State /\ b.path[p] \in PathRecord
  BY StateFields DEF Core
<1>2. /\ c \in State /\ SameButPath(b, c, p) /\ c.path[p] = [b.path[p] EXCEPT !.action = v]
      /\ c.path[p].action = v /\ c.path[p].state = b.path[p].state
      /\ c.path[p].user = b.path[p].user
  BY <1>1, SetAction
<1> HIDE DEF c
<1>3. Drivers(c.path[p]) = Drivers(b.path[p])
  BY <1>1, <1>2, UserOnly
<1>4. Kept(b, c, o, R, p)
  <2>1. c.path[p].user = b.path[p].user /\ c.path[p].state = b.path[p].state
        /\ c \in State /\ SameButPath(b, c, p)
    BY <1>2
  <2>2. Waits(b, p) \/ p \in R => c.path[p].user = "stopping"
    BY <2>1 DEF Stops
  <2> QED BY <1>3, <2>1, <2>2, UserKept
<1> QED BY <1>2, <1>4 DEF c

\* A user stops a path that it has started.
LEMMA UserStopsGood ==
  ASSUME NEW b, NEW o, NEW R, NEW p \in Paths, Good(b, o, {}, R),
         b.path[p].user \notin {"none", "stopped", "stopping"}
  PROVE  LET c == UserStops(b, p)
         IN  Good(c, o, {}, R) /\ (NoStallOf(b) => NoStallOf(c))
<1> DEFINE m == Set(b, p, "user", "stopping")
<1>1. ~Waits(b, p) /\ p \notin R
  BY DEF Good, Stops
<1>2. Kept(b, m, o, R, p) /\ m.path[p].user = "stopping"
  BY <1>1, SetUserKept DEF Good, UserStates
<1>3. UserStops(b, p) = audio_path_stop(m, p)
  BY DEF UserStops
<1> HIDE DEF m
<1>4. Good(m, o, {}, R) /\ (NoStallOf(b) => NoStallOf(m)) /\ ~Waits(m, p)
  BY <1>1, <1>2 DEF Kept, Good, Waits
<1> QED BY <1>1, <1>2, <1>3, <1>4, StopGood

-----------------------------------------------------------------------------
(* A path runs, tells its user so, and the stops that waited are made.     *)

\* The path that was being brought up runs.
LEMMA RunsCore ==
  ASSUME NEW b \in State, NEW o, NEW p \in Paths, Listed(b), Steady(b), Mixes(b),
         \A q \in Paths \ {p} : Fits(b, o, q),
         Exists(b.path[p]), b.path[p].cat # "none", b.path[p].state = "READY",
         NEW w \in Mails, Sent(b, o, p, w),
         Risen(b.path[p], w, b.ancEnabling = p, b.ancDisabling = p)
  PROVE  LET c == Set(b, p, "state", "RUNNING") IN
         /\ Core(c, o) /\ SameButPath(b, c, p)
         /\ c.path[p].state = "RUNNING" /\ c.path[p].user = b.path[p].user
         /\ c.path[p].cat = b.path[p].cat
         /\ \A q \in Paths : c.path[q].state # "READY"
<1> DEFINE c == Set(b, p, "state", "RUNNING")
<1>1. b.path[p] \in PathRecord
  BY StateFields
<1>2. /\ c \in State /\ SameButPath(b, c, p) /\ c.path[p] = [b.path[p] EXCEPT !.state = "RUNNING"]
      /\ c.path[p].state = "RUNNING" /\ c.path[p].user = b.path[p].user
      /\ c.path[p].cat = b.path[p].cat
  <2>1. "RUNNING" \in PathStates
    BY DEF PathStates
  <2> QED BY <2>1, SetState
<1> HIDE DEF c
<1>3. Drivers(c.path[p]) = Drivers(b.path[p])
  BY <1>1, <1>2, UserOnly
<1>4. /\ c.list = b.list /\ c.msgs = b.msgs
      /\ c.ancEnabling = b.ancEnabling /\ c.ancDisabling = b.ancDisabling
      /\ \A q \in Paths \ {p} : c.path[q] = b.path[q]
  BY <1>2 DEF SameButPath, SameQueues
<1>5. Fits(c, o, p)
  <2> DEFINE e == b.ancEnabling = p
             d == b.ancDisabling = p
  <2>1. Risen(b.path[p], w, e, d)
    OBVIOUS
  <2> HIDE DEF e, d
  <2>2. Risen(c.path[p], w, e, d)
    BY <1>3, <2>1, PhaseSame
  <2>3. Phase(c.path[p], w, e, d)
    BY <1>2, <2>2 DEF Phase
  <2>4. Sent(c, o, p, w)
    BY <1>4 DEF Sent
  <2>5. Exists(c.path[p])
    BY <1>2 DEF Exists
  <2> QED BY <1>4, <2>3, <2>4, <2>5 DEF Fits, e, d
<1>6. \A q \in Paths \ {p} : Fits(c, o, q)
  <2> TAKE q \in Paths \ {p}
  <2> QED BY <1>4, FitsSame
<1>7. \A q \in Paths : c.path[q].state # "READY"
  <2>1. \A q \in Paths \ {p} : b.path[q].state # "READY"
    BY DEF Steady
  <2>2. c.path[p].state # "READY"
    BY <1>2
  <2>3. \A q \in Paths \ {p} : c.path[q] = b.path[q]
    BY <1>4
  <2> QED BY <2>1, <2>2, <2>3
<1>8. Steady(c) /\ Mixes(c)
  <2>1. Steady(c)
    BY <1>7 DEF Steady
  <2>2. \A q \in Paths : c.path[q].cat = b.path[q].cat /\ (Busy(c.path[q]) => Busy(b.path[q]))
    BY <1>2, <1>4 DEF Busy
  <2> QED BY <2>1, <2>2 DEF Mixes
<1>9. Listed(c)
  <2>1. \A q \in Paths : c.path[q].cat = b.path[q].cat
    BY <1>2, <1>4
  <2> QED BY <1>4, <2>1 DEF Listed
<1>10. Core(c, o)
  BY <1>2, <1>5, <1>6, <1>8, <1>9 DEF Core
<1> QED BY <1>2, <1>7, <1>10 DEF c

\* What holds while the flag PATH_STARTING is set and no path is brought up.
Posting(b, o) ==
  /\ Core(b, o) /\ Users(b, {}) /\ Stops(b, {}) /\ b.starting
  /\ \A q \in Paths : b.path[q].state # "READY"

\* One path running is told so among the stops that are made again.
LEMMA ToldRunningPosting ==
  ASSUME NEW b, NEW o, Posting(b, o), NEW p \in Paths, b.path[p].state = "RUNNING"
  PROVE  Posting(ToldRunning(b, p), o)
<1> DEFINE x == b.path[p]
<1>1. Core(b, o) /\ Users(b, {}) /\ Stops(b, {})
  BY DEF Posting
\* The stop of a running path whose user has not asked for it yet.
<1>2. ASSUME NEW m, Posting(m, o), m.path[p].state = "RUNNING",
             m.path[p].user \notin {"none", "stopped", "stopping"}
      PROVE  Posting(UserStops(m, p), o)
  <2> DEFINE n == Set(m, p, "user", "stopping")
             t == TakenDown(Set(n, p, "state", "STOPPING"), p)
  <2>1. UserStops(m, p) = audio_path_stop(n, p)
    BY DEF UserStops
  <2>2. Core(m, o) /\ Users(m, {}) /\ Stops(m, {}) /\ m.starting
        /\ \A q \in Paths : m.path[q].state # "READY"
    BY <1>2 DEF Posting
  <2>3. Kept(m, n, o, {}, p) /\ n.path[p].user = "stopping"
    BY <1>2, <2>2, SetUserKept DEF UserStates
  <2> HIDE DEF n
  <2>4. /\ Core(n, o) /\ n.path[p].state = "RUNNING" /\ n.stops = m.stops /\ n.starting
        /\ \A q \in Paths : n.path[q].state # "READY"
        /\ Users(n, {}) /\ Stops(n, {})
    BY <1>2, <2>2, <2>3 DEF Kept
  <2>5. ~audio_path_starting_check(n)
    BY <2>4, StableFacts
  <2>6. audio_path_stop(n, p) = t
    BY <2>4, <2>5 DEF audio_path_stop
  <2>7. Core(t, o) /\ OnlyTakesDown(n, t, p)
    BY <2>4, TakenDownCore
  <2> HIDE DEF t
  <2>8. /\ t.stops = n.stops /\ t.starting = n.starting
        /\ \A q \in Paths \ {p} : t.path[q] = n.path[q]
        /\ t.path[p].user = "stopping" /\ t.path[p].state = "STOPPING"
    BY <2>3, <2>7 DEF OnlyTakesDown
  <2>9. Users(t, {})
    BY <2>4, <2>8 DEF Users
  <2>10. \A q \in Paths : Waits(t, q) => Waits(m, q)
    BY <2>4, <2>8 DEF Waits
  <2>11. ~Waits(m, p)
    BY <1>2, <2>2 DEF Stops
  <2>12. Stops(t, {})
    <3>1. \A q \in Paths : Waits(t, q) => Waits(n, q) /\ q # p
      BY <2>4, <2>10, <2>11 DEF Waits
    <3> QED BY <2>4, <2>8, <3>1 DEF Stops
  <2> QED BY <2>1, <2>4, <2>6, <2>7, <2>8, <2>9, <2>12 DEF Posting
<1>3. CASE x.user = "starting" /\ x.action = "stop"
  <2> DEFINE m == Set(b, p, "action", "none")
  <2>1. ToldRunning(b, p) = UserStops(m, p)
    BY <1>3 DEF ToldRunning
  <2>2. Kept(b, m, o, {}, p) /\ m.path[p].user = "starting"
    BY <1>1, <1>3, SetActionKept DEF UserActions
  <2> HIDE DEF m
  <2>3. Posting(m, o) /\ m.path[p].state = "RUNNING"
    BY <2>2 DEF Kept, Posting
  <2> QED BY <1>2, <2>1, <2>2, <2>3
<1>4. CASE x.user = "starting" /\ x.action = "release"
  <2>1. ToldRunning(b, p) = UserStops(b, p)
    BY <1>4 DEF ToldRunning
  <2> QED BY <1>2, <1>4, <2>1
<1>5. CASE x.user \in {"starting", "paused"} /\ x.action = "none"
  <2> DEFINE m == Set(b, p, "user", "started")
  <2>1. ToldRunning(b, p) = m
    BY <1>5 DEF ToldRunning
  <2>2. ~Waits(b, p)
    BY <1>1, <1>5 DEF Stops
  <2>3. Kept(b, m, o, {}, p)
    BY <1>1, <1>5, <2>2, SetUserKept DEF UserStates
  <2> HIDE DEF m
  <2> QED BY <2>1, <2>3 DEF Kept, Posting
<1>6. CASE /\ ~(x.user = "starting" /\ x.action \in {"stop", "release"})
           /\ ~(x.user \in {"starting", "paused"} /\ x.action = "none")
  <2>1. ToldRunning(b, p) = b
    BY <1>6 DEF ToldRunning
  <2> QED BY <2>1
<1> QED BY <1>3, <1>4, <1>5, <1>6

\* One stop is made again, or waits once more, and what is left after the
\* first n of them.
OneStop(c, p) == IF c.starting THEN [c EXCEPT !.stops = Append(@, p)] ELSE audio_path_stop(c, p)

StopAgain(b, after, n) ==
  IF n = 0 THEN [b EXCEPT !.starting = FALSE, !.stops = <<>>]
  ELSE OneStop(after[n - 1], b.stops[n])

StopsAgain(b, after) == after = [n \in 0..Len(b.stops) |-> StopAgain(b, after, n)]

\* The stops are made one after the other.
LEMMA StopsPostedExists ==
  ASSUME NEW b, Len(b.stops) \in Nat
  PROVE  \E after : StopsAgain(b, after) /\ StopsPosted(b) = after[Len(b.stops)]
<1> DEFINE N == Len(b.stops)
           Upto(m) == \E f : f = [n \in 0..m |-> StopAgain(b, f, n)]
           T == {m \in 0..N : ~Upto(m)}
<1>1. Upto(0)
  <2> DEFINE g == [n \in 0..0 |-> [b EXCEPT !.starting = FALSE, !.stops = <<>>]]
  <2>1. g = [n \in 0..0 |-> StopAgain(b, g, n)]
    BY DEF StopAgain
  <2> QED BY <2>1
<1>2. ASSUME NEW m \in 0..N, m # 0, Upto(m - 1) PROVE Upto(m)
  <2>1. PICK f : f = [n \in 0..(m - 1) |-> StopAgain(b, f, n)]
    BY <1>2
  <2> DEFINE g == [n \in 0..m |-> IF n = m THEN StopAgain(b, f, m) ELSE f[n]]
  <2>2. \A n \in 0..(m - 1) : f[n] = StopAgain(b, f, n)
    BY <2>1
  <2>3. \A n \in 0..m : g[n] = StopAgain(b, g, n)
    <3>1. TAKE n \in 0..m
    <3>2. n = 0 \/ g[n - 1] = f[n - 1]
      BY <1>2
    <3>3. StopAgain(b, g, n) = StopAgain(b, f, n)
      BY <3>2 DEF StopAgain
    <3>4. n # m => n \in 0..(m - 1)
      BY <1>2
    <3> QED BY <2>2, <3>3, <3>4
  <2>4. g = [n \in 0..m |-> StopAgain(b, g, n)]
    BY <2>3
  <2> QED BY <2>4
<1> HIDE DEF Upto
<1>3. T = {}
  <2> SUFFICES ASSUME T # {} PROVE FALSE
    OBVIOUS
  <2> T \subseteq Nat
    OBVIOUS
  <2> HIDE DEF T
  <2>1. PICK m \in T : \A k \in T : m <= k
    BY LeastNat
  <2> USE DEF T
  <2>2. m # 0 /\ m - 1 \in 0..N /\ ~(m <= m - 1)
    BY <1>1, <2>1
  <2>3. Upto(m - 1)
    BY <2>1, <2>2
  <2> QED BY <1>2, <2>1, <2>2, <2>3
<1>4. Upto(N)
  BY <1>3
<1> DEFINE s == CHOOSE f : f = [n \in 0..N |-> StopAgain(b, f, n)]
<1>5. s = [n \in 0..N |-> StopAgain(b, s, n)]
  BY <1>4 DEF Upto
<1>6. StopsPosted(b) = s[N]
  BY DEF StopsPosted, StopAgain, OneStop
<1> HIDE DEF s
<1> QED BY <1>5, <1>6 DEF StopsAgain

\* The stops that waited are made again: each of them is still one of a path
\* that can be stopped, and not a second one.
LEMMA StopsPostedGood ==
  ASSUME NEW b, NEW o, Posting(b, o)
  PROVE  Good(StopsPosted(b), o, {}, {})
<1> DEFINE N == Len(b.stops)
           Left(n) == {b.stops[j] : j \in (n + 1)..N}
<1>1. /\ b \in State /\ Core(b, o) /\ Users(b, {}) /\ Stops(b, {})
      /\ \A q \in Paths : b.path[q].state # "READY"
  BY DEF Posting, Core
<1>2. b.stops \in Seq(Paths) /\ N \in Nat /\ DOMAIN b.stops = 1..N
      /\ \A j \in 1..N : b.stops[j] \in Paths
  BY <1>1, StateFields, LenProperties, ElementOfSeq
<1>3. PICK f : StopsAgain(b, f) /\ StopsPosted(b) = f[N]
  BY <1>2, StopsPostedExists
<1>4. \A n \in 0..N : f[n] = StopAgain(b, f, n)
  BY <1>3 DEF StopsAgain
<1>5. \A i, j \in 1..N : b.stops[i] = b.stops[j] => i = j
  BY <1>1, <1>2 DEF Stops
<1> DEFINE Right(n) == Good(f[n], o, {}, Left(n))
           T == {n \in 0..N : ~Right(n)}
<1>6. Right(0)
  <2> DEFINE c == [b EXCEPT !.starting = FALSE, !.stops = <<>>]
  <2>1. f[0] = c
    BY <1>2, <1>4 DEF StopAgain
  <2>2. /\ c \in State /\ c.list = b.list /\ c.path = b.path /\ c.msgs = b.msgs
        /\ c.ancEnabling = b.ancEnabling /\ c.ancDisabling = b.ancDisabling
        /\ c.stops = <<>> /\ c.starting = FALSE
    <3>1. <<>> \in Seq(Paths)
      BY EmptySeq
    <3> QED BY <1>1, <3>1 DEF State
  <2> HIDE DEF c
  <2>3. Core(c, o)
    <3>1. \A q \in Paths : Fits(c, o, q)
      BY <1>1, <2>2 DEF Core, Fits, Sent
    <3>2. Listed(c) /\ Steady(c) /\ Mixes(c)
      BY <1>1, <2>2 DEF Core, Listed, Steady, Mixes
    <3> QED BY <2>2, <3>1, <3>2 DEF Core
  <2>4. Users(c, {}) /\ Starting(c)
    BY <1>1, <2>2 DEF Users, Starting
  <2>5. \A q \in Paths : ~Waits(c, q) /\ (q \in Left(0) => Waits(b, q))
    BY <1>2, <2>2 DEF Waits
  <2>6. Stops(c, Left(0))
    <3> HIDE DEF Left
    <3>1. \A i, j \in DOMAIN c.stops : c.stops[i] = c.stops[j] => i = j
      BY <2>2
    <3>2. \A q \in Paths : Waits(b, q) => /\ c.path[q].user = "stopping"
                                          /\ c.path[q].state \notin {"IDLE", "STOPPING"}
      BY <1>1, <2>2 DEF Stops
    <3> QED BY <2>2, <2>5, <3>1, <3>2 DEF Stops
  <2> HIDE DEF Left
  <2> QED BY <2>1, <2>3, <2>4, <2>6 DEF Good
<1>7. ASSUME NEW n \in 0..N, n # 0, Right(n - 1) PROVE Right(n)
  <2> DEFINE c == f[n - 1]
             p == b.stops[n]
             k == f[n]
  <2>1. p \in Paths /\ k = OneStop(c, p)
    BY <1>2, <1>4, <1>7 DEF StopAgain
  <2>2. p \in Left(n - 1) /\ p \notin Left(n) /\ Left(n) \subseteq Left(n - 1)
    BY <1>2, <1>5, <1>7
  <2>3. Good(c, o, {}, Left(n - 1))
    BY <1>7
  <2> DEFINE S == Left(n)
             L == Left(n - 1)
  <2> HIDE DEF Left, S, L, c, p, k
  <2>4. Good(c, o, {}, L) /\ p \in L /\ p \notin S /\ S \subseteq L
    BY <2>2, <2>3 DEF S, L
  <2>5. c.path[p].user = "stopping" /\ ~Waits(c, p)
    BY <2>1, <2>4 DEF Good, Stops
  <2>6. Stops(c, S)
    BY <2>4 DEF Good, Stops
  <2>7. Good(c, o, {}, S)
    BY <2>4, <2>6 DEF Good
  <2>8. Good(k, o, {}, S)
    <3>1. CASE c.starting
      <4>1. \E q \in Paths : c.path[q].state = "READY"
        BY <2>7, <3>1 DEF Good, Starting
      <4>2. k = [c EXCEPT !.stops = Append(@, p)]
        BY <2>1, <3>1 DEF OneStop
      <4> QED BY <2>1, <2>4, <2>5, <2>7, <4>1, <4>2, StopWaits
    <3>2. CASE ~c.starting
      <4>1. k = audio_path_stop(c, p)
        BY <2>1, <3>2 DEF OneStop
      <4> QED BY <2>1, <2>4, <2>5, <2>7, <4>1, StopGood
    <3> QED BY <3>1, <3>2
  <2> QED BY <2>8 DEF S, k
<1>8. T = {}
  <2> HIDE DEF Right
  <2> SUFFICES ASSUME T # {} PROVE FALSE
    OBVIOUS
  <2> T \subseteq Nat
    OBVIOUS
  <2> HIDE DEF T
  <2>1. PICK m \in T : \A k \in T : m <= k
    BY LeastNat
  <2> USE DEF T
  <2>2. m # 0 /\ m - 1 \in 0..N /\ ~(m <= m - 1)
    BY <1>6, <2>1
  <2>3. m - 1 \notin T
    BY <2>1, <2>2
  <2> QED BY <1>7, <2>1, <2>2, <2>3
<1>9. Right(N)
  <2> HIDE DEF Right
  <2> QED BY <1>2, <1>8
<1>10. Left(N) = {}
  BY <1>2
<1> QED BY <1>3, <1>9, <1>10

\* What becomes of the path that was being brought up, with the scheduling
\* that follows.
LEMMA RunningGood ==
  ASSUME NEW b \in State, NEW o, NEW p \in Paths, Listed(b), Steady(b), Mixes(b),
         \A q \in Paths \ {p} : Fits(b, o, q),
         Exists(b.path[p]), b.path[p].cat # "none", b.path[p].state = "READY",
         NEW w \in Mails, Sent(b, o, p, w),
         Risen(b.path[p], w, b.ancEnabling = p, b.ancDisabling = p),
         Users(b, {}), Starting(b), Stops(b, {})
  PROVE  LET c == audio_path_schedule(Running(b, p))
         IN  Good(c, o, {}, {}) /\ NoStallOf(c)
<1> DEFINE m == Set(b, p, "state", "RUNNING")
           n == ToldRunning(m, p)
<1>1. /\ Core(m, o) /\ SameButPath(b, m, p)
      /\ m.path[p].state = "RUNNING" /\ m.path[p].user = b.path[p].user
      /\ \A q \in Paths : m.path[q].state # "READY"
  BY RunsCore
<1> HIDE DEF m
<1>2. /\ m.stops = b.stops /\ m.starting = b.starting
      /\ \A q \in Paths \ {p} : m.path[q] = b.path[q]
  BY <1>1 DEF SameButPath, SameQueues
<1>3. Posting(m, o)
  <2>1. m.starting
    BY <1>2 DEF Starting
  <2>2. Users(m, {})
    BY <1>1, <1>2 DEF Users
  <2>3. \A q \in Paths : Waits(m, q) <=> Waits(b, q)
    BY <1>2 DEF Waits
  <2>4. Stops(m, {})
    BY <1>1, <1>2, <2>3 DEF Stops
  <2> QED BY <1>1, <2>1, <2>2, <2>4 DEF Posting
<1>4. Posting(n, o)
  BY <1>1, <1>3, ToldRunningPosting
<1>5. Running(b, p) = StopsPosted(n)
  <2> HIDE DEF n
  <2>1. ~audio_path_starting_check(n)
    BY <1>4, StableFacts DEF Posting
  <2> QED BY <2>1 DEF Running, n, m
<1> HIDE DEF n
<1>6. Good(Running(b, p), o, {}, {})
  BY <1>4, <1>5, StopsPostedGood
<1> QED BY <1>6, ScheduleGood

-----------------------------------------------------------------------------
(* Steps of the drivers of one path.                                       *)

\* What a step of the drivers of p, or of its messages, leaves alone.
Driven(b, c, p) ==
  /\ c \in State /\ c.list = b.list /\ c.stops = b.stops /\ c.starting = b.starting
  /\ c.power = b.power /\ c.missed = b.missed
  /\ \A q \in Paths \ {p} :
       /\ c.path[q] = b.path[q]
       /\ c.ancEnabling = q <=> b.ancEnabling = q
       /\ c.ancDisabling = q <=> b.ancDisabling = q
       /\ \A w \in Mails : Mail(b.msgs, q, w) => Mail(c.msgs, q, w)
  /\ c.path[p].cat = b.path[p].cat /\ c.path[p].state = b.path[p].state
  /\ c.path[p].user = b.path[p].user

\* Two steps of the drivers of p, one after the other.
LEMMA DrivenTrans ==
  ASSUME NEW b, NEW c, NEW d, NEW p, Driven(b, c, p), Driven(c, d, p)
  PROVE  Driven(b, d, p)
BY DEF Driven

\* A step of a driver that sends no message.
LEMMA DrivenSame ==
  ASSUME NEW b, NEW c \in State, NEW p, SameButPath(b, c, p),
         c.path[p].cat = b.path[p].cat, c.path[p].state = b.path[p].state,
         c.path[p].user = b.path[p].user
  PROVE  Driven(b, c, p) /\ c.msgs = b.msgs
         /\ c.ancEnabling = b.ancEnabling /\ c.ancDisabling = b.ancDisabling
BY DEF Driven, SameButPath, SameQueues

\* A driver that sends a message.
LEMMA DrivenOccasion ==
  ASSUME NEW b \in State, NEW p \in Paths, NEW w \in Occasions
  PROVE  Driven(b, Occasion(b, p, w), p)
<1> DEFINE c == Occasion(b, p, w)
<1>1. /\ c \in State /\ c.list = b.list /\ c.path = b.path
      /\ c.stops = b.stops /\ c.starting = b.starting /\ c.missed = b.missed
      /\ c.power = b.power /\ c.ancEnabling = b.ancEnabling
      /\ c.ancDisabling = b.ancDisabling
      /\ \A q \in Paths, v \in Mails : q # p /\ Mail(b.msgs, q, v) => Mail(c.msgs, q, v)
  BY OccasionFacts
<1> HIDE DEF c
<1>2. Driven(b, c, p)
  BY <1>1 DEF Driven
<1> QED BY <1>2 DEF c

\* The first message of the queue is received.
LEMMA DrivenReceived ==
  ASSUME NEW b \in State, NEW p \in Paths, NEW w \in Occasions, b.msgs # <<>>,
         Head(b.msgs) = [path |-> p, occasion |-> w]
  PROVE  LET c == [b EXCEPT !.msgs = Tail(@)] IN
         /\ Driven(b, c, p) /\ c.path = b.path
         /\ c.ancEnabling = b.ancEnabling /\ c.ancDisabling = b.ancDisabling
         /\ \A v \in Mails : Mail(b.msgs, p, v) =>
              \/ v = w /\ NoMail(c.msgs, p)
              \/ v = "ON_OFF" /\ w = "DIGITAL_ON" /\ Mail(c.msgs, p, "DIGITAL_OFF")
<1> DEFINE n == Tail(b.msgs)
           c == [b EXCEPT !.msgs = n]
<1>1. b.msgs \in Seq(Messages) /\ n \in Seq(Messages)
  BY StateFields, HeadTailProperties
<1>2. Head(b.msgs).path = p /\ Head(b.msgs).occasion = w
  OBVIOUS
<1>3. \A q \in Paths \ {p}, v \in Mails : Mail(b.msgs, q, v) => Mail(n, q, v)
  <2> TAKE q \in Paths \ {p}, v \in Mails
  <2> HIDE DEF n
  <2> QED BY <1>1, <1>2, MailTail DEF n
<1>4. \A v \in Mails : Mail(b.msgs, p, v) =>
        \/ v = w /\ NoMail(n, p)
        \/ v = "ON_OFF" /\ w = "DIGITAL_ON" /\ Mail(n, p, "DIGITAL_OFF")
  <2> TAKE v \in Mails
  <2> QED BY <1>1, <1>2, MailTail
<1> HIDE DEF n
<1>5. /\ c \in State /\ c.list = b.list /\ c.path = b.path /\ c.msgs = n
      /\ c.stops = b.stops /\ c.starting = b.starting /\ c.missed = b.missed
      /\ c.power = b.power /\ c.ancEnabling = b.ancEnabling
      /\ c.ancDisabling = b.ancDisabling
  BY <1>1 DEF State
<1> HIDE DEF c
<1>6. Driven(b, c, p)
  BY <1>3, <1>5 DEF Driven
<1> QED BY <1>4, <1>5, <1>6 DEF c, n

\* What such a step keeps of the other paths, and of what relates them.
LEMMA DrivenRest ==
  ASSUME NEW b, NEW o, NEW o2, Good(b, o, {}, {}), NEW p \in Paths, b.path[p].cat # "none",
         NEW c, Driven(b, c, p), \A q \in Paths \ {p} : q = o2 <=> q = o
  PROVE  /\ c \in State /\ Listed(c) /\ Steady(c) /\ Mixes(c)
         /\ \A q \in Paths \ {p} : Fits(c, o2, q)
         /\ Exists(c.path[p]) /\ c.path[p].cat # "none"
         /\ Users(c, {}) /\ Starting(c) /\ Stops(c, {})
<1>1. /\ c \in State /\ c.list = b.list /\ c.stops = b.stops /\ c.starting = b.starting
      /\ \A q \in Paths \ {p} : c.path[q] = b.path[q]
      /\ c.path[p].cat = b.path[p].cat /\ c.path[p].state = b.path[p].state
      /\ c.path[p].user = b.path[p].user
  BY DEF Driven
<1>2. \A q \in Paths : /\ c.path[q].cat = b.path[q].cat /\ c.path[q].state = b.path[q].state
                       /\ c.path[q].user = b.path[q].user
  BY <1>1
<1>3. Core(b, o) /\ Users(b, {}) /\ Starting(b) /\ Stops(b, {})
  BY DEF Good
<1>4. Listed(c)
  BY <1>1, <1>2, <1>3 DEF Core, Listed
<1>5. Steady(c)
  BY <1>2, <1>3 DEF Core, Steady
<1>6. Mixes(c)
  BY <1>2, <1>3 DEF Core, Mixes, Busy
<1>7. \A q \in Paths \ {p} : Fits(c, o2, q)
  <2> TAKE q \in Paths \ {p}
  <2>1. Fits(b, o, q)
    BY <1>3 DEF Core
  <2>2. /\ c.path[q] = b.path[q] /\ (q = o2 <=> q = o)
        /\ c.ancEnabling = q <=> b.ancEnabling = q
    BY DEF Driven
  <2>3. c.ancDisabling = q <=> b.ancDisabling = q
    BY DEF Driven
  <2>4. \A w \in Mails : Mail(b.msgs, q, w) => Mail(c.msgs, q, w)
    BY DEF Driven
  <2> QED BY <2>1, <2>2, <2>3, <2>4, FitsSame
<1>8. Exists(c.path[p]) /\ c.path[p].cat # "none"
  BY <1>1, <1>3 DEF Core, Fits, Exists
<1>9. Users(c, {})
  BY <1>2, <1>3 DEF Users
<1>10. Starting(c)
  BY <1>1, <1>2, <1>3 DEF Starting
<1>11. Stops(c, {})
  <2>1. \A q \in Paths : Waits(c, q) <=> Waits(b, q)
    BY <1>1 DEF Waits
  <2> QED BY <1>1, <1>2, <1>3, <2>1 DEF Stops
<1> QED BY <1>1, <1>4, <1>5, <1>6, <1>7, <1>8, <1>9, <1>10, <1>11

\* The drivers of p make a step: it is enough to say at which step of its life p is then.
LEMMA DrivenGood ==
  ASSUME NEW b, NEW o, NEW o2, Good(b, o, {}, {}), NEW p \in Paths, b.path[p].cat # "none",
         NEW c, Driven(b, c, p), \A q \in Paths \ {p} : q = o2 <=> q = o,
         NEW w \in Mails, Sent(c, o2, p, w),
         Phase(c.path[p], w, c.ancEnabling = p, c.ancDisabling = p)
  PROVE  Good(c, o2, {}, {}) /\ (NoStallOf(b) => NoStallOf(c))
<1>1. /\ c \in State /\ Listed(c) /\ Steady(c) /\ Mixes(c)
      /\ \A q \in Paths \ {p} : Fits(c, o2, q)
      /\ Exists(c.path[p])
      /\ Users(c, {}) /\ Starting(c) /\ Stops(c, {})
  BY DrivenRest
<1>2. Fits(c, o2, p)
  BY <1>1 DEF Fits
<1>3. Core(c, o2)
  BY <1>1, <1>2 DEF Core
<1>4. NoStallOf(b) => NoStallOf(c)
  <2>1. SameAwake(b, c)
    BY DEF Driven, SameAwake
  <2>2. audio_path_schedule_switch(c) = audio_path_schedule_switch(b)
    BY <1>1, <2>1, SwitchKept DEF Driven, Good, Core
  <2>3. c.power = b.power /\ c.missed = b.missed
    BY DEF Driven
  <2> QED BY <1>3, <2>1, <2>2, <2>3, NoStallKept DEF Good
<1> QED BY <1>1, <1>3, <1>4 DEF Good

\* The message that a path owes is sent.
LEMMA OwedSent ==
  ASSUME NEW b, NEW p \in Paths, Good(b, p, {}, {}), NoStallOf(b)
  PROVE  LET c == Occasion(b, p, "DIGITAL_ON")
         IN  Good(c, NoPath, {}, {}) /\ NoStallOf(c)
<1> DEFINE c == Occasion(b, p, "DIGITAL_ON")
<1>1. b \in State /\ Fits(b, p, p)
  BY DEF Good, Core
<1>2. "DIGITAL_ON" \in Occasions /\ "DIGITAL_ON" \in Mails
  BY DEF Occasions, Mails
<1>3. Driven(b, c, p)
  BY <1>1, <1>2, DrivenOccasion
<1>4. /\ c.path = b.path /\ c.ancEnabling = b.ancEnabling /\ c.ancDisabling = b.ancDisabling
      /\ NoMail(b.msgs, p) => Mail(c.msgs, p, "DIGITAL_ON")
  BY <1>1, <1>2, OccasionFacts
<1> HIDE DEF c
<1>5. /\ NoMail(b.msgs, p)
      /\ Phase(b.path[p], "DIGITAL_ON", b.ancEnabling = p, b.ancDisabling = p)
  BY <1>1 DEF Fits, Sent
<1>6. b.path[p].cat # "none"
  <2>1. Exists(b.path[p])
    BY <1>1 DEF Fits
  <2>2. b.path[p].state # "IDLE"
    BY <1>5 DEF Phase, AtRest
  <2> QED BY <2>1, <2>2 DEF Exists, Absent
<1>7. Sent(c, NoPath, p, "DIGITAL_ON")
  BY <1>4, <1>5, NoPathAssumption DEF Sent
<1>8. Phase(c.path[p], "DIGITAL_ON", c.ancEnabling = p, c.ancDisabling = p)
  BY <1>4, <1>5
<1>9. \A q \in Paths \ {p} : q = NoPath <=> q = p
  BY NoPathAssumption
<1>10. Good(c, NoPath, {}, {}) /\ (NoStallOf(b) => NoStallOf(c))
  BY <1>2, <1>3, <1>6, <1>7, <1>8, <1>9, DrivenGood
<1> QED BY <1>10 DEF c

-----------------------------------------------------------------------------
(* The handlers of the drivers and of their messages.                      *)

\* A path in the state between two handlers.
LEMMA PathFacts ==
  ASSUME Inv, NEW p \in Paths
  PROVE  /\ a \in State /\ a.path[p] \in PathRecord /\ Exists(a.path[p])
         /\ \E w \in Mails : /\ Mail(a.msgs, p, w)
                             /\ Phase(a.path[p], w, a.ancEnabling = p, a.ancDisabling = p)
<1>1. a \in State /\ Fits(a, NoPath, p)
  BY DEF Inv, Good, Core
<1>2. p # NoPath
  BY NoPathAssumption
<1> QED BY <1>1, <1>2, StateFields DEF Fits, Sent

\* The same, from one state between two handlers to the next.
LEMMA DrivenInv ==
  ASSUME Inv, NEW p \in Paths, a.path[p].cat # "none", NEW c, Driven(a, c, p),
         NEW w \in Mails, Mail(c.msgs, p, w),
         Phase(c.path[p], w, c.ancEnabling = p, c.ancDisabling = p)
  PROVE  Good(c, NoPath, {}, {}) /\ NoStallOf(c)
<1>1. Sent(c, NoPath, p, w)
  BY NoPathAssumption DEF Sent
<1>2. Good(a, NoPath, {}, {}) /\ NoStallOf(a)
  BY DEF Inv
<1> QED BY <1>1, <1>2, DrivenGood

\* A session is prepared.
LEMMA PreparedFirst ==
  ASSUME NEW x \in PathRecord, NEW y \in PathRecord, NEW w, NEW e, NEW d, Phase(x, w, e, d),
         x.dsp = "loading", y.dsp = "prepared", y.cat = x.cat, y.state = x.state,
         y.codec = x.codec, y.plugin = x.plugin, y.waitRunning = x.waitRunning
  PROVE  /\ w = "none" /\ x.state = "READY"
         /\ HasCodec(x.cat) /\ x.codec \notin {"on", "disabling"} /\ y.waitCodec
              => Phase(y, "none", e, d)
         /\ ~(HasCodec(x.cat) /\ x.codec \notin {"on", "disabling"})
              /\ y.waitCodec = x.waitCodec => Phase(y, "ANALOG_ON", e, d)
<1>1. x.state = "READY" /\ Rising(x, w, e, d)
  BY DEF Phase, PathRecord, AtRest, Risen, Falling
<1>2. /\ ~e /\ ~d /\ w = "none" /\ x.waitRunning /\ ~x.plugin /\ ~x.waitCodec
      /\ HasDsp(x.cat) /\ CodecIn(x, {"enabling", "on"})
  BY <1>1 DEF Rising
<1>3. HasCodec(x.cat) /\ x.codec \notin {"on", "disabling"} /\ y.waitCodec
        => Rising(y, "none", e, d)
  BY <1>2 DEF Rising, CodecIn
<1>4. ~(HasCodec(x.cat) /\ x.codec \notin {"on", "disabling"}) /\ y.waitCodec = x.waitCodec
        => Rising(y, "ANALOG_ON", e, d)
  BY <1>2 DEF Rising, CodecIn
<1> QED BY <1>1, <1>2, <1>3, <1>4 DEF Phase

\* The DSP is ready for the decoder or encoder of p.
LEMMA PrepareReadyInv ==
  ASSUME Inv, NEW p \in Paths, PrepareReady(p)
  PROVE  Inv'
<1> DEFINE x == a.path[p]
           m == Set(a, p, "dsp", "prepared")
           e == a.ancEnabling = p
           d == a.ancDisabling = p
<1>1. /\ a \in State /\ x \in PathRecord /\ Exists(x)
      /\ \E w \in Mails : Mail(a.msgs, p, w) /\ Phase(x, w, e, d)
  BY PathFacts
<1>2. PICK w \in Mails : Mail(a.msgs, p, w) /\ Phase(x, w, e, d)
  BY <1>1
<1>3. x.dsp = "loading" /\ x.cat # "none"
  BY <1>1 DEF PrepareReady, Exists, Absent
<1> DEFINE y == m.path[p]
<1>4. /\ m \in State /\ SameButPath(a, m, p)
      /\ y.dsp = "prepared" /\ y.cat = x.cat /\ y.state = x.state /\ y.codec = x.codec
      /\ y.plugin = x.plugin /\ y.waitCodec = x.waitCodec
      /\ y.waitRunning = x.waitRunning /\ y.user = x.user
  <2>1. "prepared" \in DspStates
    BY DEF DspStates
  <2> QED BY <1>1, <2>1, SetDsp
<1> DEFINE late == HasCodec(x.cat) /\ x.codec \notin {"on", "disabling"}
           n == Set(m, p, "waitCodec", TRUE)
           k == Occasion(m, p, "ANALOG_ON")
<1>5. a' = IF late THEN n ELSE k
  BY DEF PrepareReady, HasCodec, Up, Cat
<1> HIDE DEF m
<1>6. Driven(a, m, p) /\ m.msgs = a.msgs
      /\ m.ancEnabling = a.ancEnabling /\ m.ancDisabling = a.ancDisabling
  BY <1>4, DrivenSame
<1>7. y \in PathRecord
  BY <1>4, StateFields
<1>8. CASE late
  <2> DEFINE z == n.path[p]
  <2>1. /\ n \in State /\ SameButPath(m, n, p)
        /\ z.waitCodec = TRUE /\ z.cat = y.cat /\ z.state = y.state /\ z.codec = y.codec
        /\ z.dsp = y.dsp /\ z.plugin = y.plugin /\ z.waitRunning = y.waitRunning
        /\ z.user = y.user
    BY <1>4, SetWaitCodec
  <2> HIDE DEF n
  <2>2. /\ Driven(m, n, p) /\ n.msgs = m.msgs
        /\ n.ancEnabling = m.ancEnabling /\ n.ancDisabling = m.ancDisabling
    BY <2>1, DrivenSame
  <2>3. z \in PathRecord
    BY <2>1, StateFields
  <2>4. w = "none" /\ Phase(z, "none", e, d)
    <3>1. /\ z.dsp = "prepared" /\ z.cat = x.cat /\ z.state = x.state /\ z.codec = x.codec
          /\ z.plugin = x.plugin /\ z.waitRunning = x.waitRunning /\ z.waitCodec
      BY <1>4, <2>1
    <3> HIDE DEF x, z, e, d
    <3> QED BY <1>1, <1>2, <1>3, <1>8, <2>3, <3>1, PreparedFirst
  <2>5. Good(n, NoPath, {}, {}) /\ NoStallOf(n)
    <3>1. Driven(a, n, p)
      BY <1>6, <2>2, DrivenTrans
    <3>2. /\ Mail(n.msgs, p, "none") /\ "none" \in Mails
          /\ Phase(n.path[p], "none", n.ancEnabling = p, n.ancDisabling = p)
      BY <1>2, <1>6, <2>2, <2>4
    <3> QED BY <1>3, <3>1, <3>2, DrivenInv
  <2> QED BY <1>5, <1>8, <2>5 DEF Inv
<1>9. CASE ~late
  <2>1. "ANALOG_ON" \in Occasions /\ "ANALOG_ON" \in Mails
    BY DEF Occasions, Mails
  <2>2. w = "none" /\ Phase(y, "ANALOG_ON", e, d)
    <3> HIDE DEF x, y, e, d
    <3> QED BY <1>1, <1>2, <1>3, <1>4, <1>7, <1>9, PreparedFirst
  <2>3. Driven(m, k, p)
    BY <1>4, <2>1, DrivenOccasion
  <2>4. /\ k.path = m.path /\ k.ancEnabling = m.ancEnabling /\ k.ancDisabling = m.ancDisabling
        /\ NoMail(m.msgs, p) => Mail(k.msgs, p, "ANALOG_ON")
    BY <1>4, <2>1, OccasionFacts
  <2> HIDE DEF k
  <2>5. Mail(k.msgs, p, "ANALOG_ON")
    BY <1>2, <1>6, <2>2, <2>4 DEF Mail, Occasions
  <2>6. Phase(k.path[p], "ANALOG_ON", k.ancEnabling = p, k.ancDisabling = p)
    BY <1>6, <2>2, <2>4
  <2>7. Driven(a, k, p)
    BY <1>6, <2>3, DrivenTrans
  <2>8. Good(k, NoPath, {}, {}) /\ NoStallOf(k)
    BY <1>3, <2>1, <2>5, <2>6, <2>7, DrivenInv
  <2> QED BY <1>5, <1>9, <2>8 DEF Inv
<1> QED BY <1>8, <1>9

\* The steps that end with a message of a path that had none.
LEMMA SendInv ==
  ASSUME Inv, NEW p \in Paths, a.path[p].cat # "none", NEW m, Driven(a, m, p),
         NEW w \in Occasions, NoMail(m.msgs, p),
         Phase(m.path[p], w, m.ancEnabling = p, m.ancDisabling = p)
  PROVE  LET c == Occasion(m, p, w)
         IN  Good(c, NoPath, {}, {}) /\ NoStallOf(c)
<1> DEFINE c == Occasion(m, p, w)
<1>1. m \in State /\ w \in Mails
  BY DEF Driven, Mails
<1>2. Driven(m, c, p)
  BY <1>1, DrivenOccasion
<1>3. /\ c.path = m.path /\ c.ancEnabling = m.ancEnabling /\ c.ancDisabling = m.ancDisabling
      /\ NoMail(m.msgs, p) => Mail(c.msgs, p, w)
  BY <1>1, OccasionFacts
<1> HIDE DEF c
<1>4. Driven(a, c, p)
  BY <1>2, DrivenTrans
<1>5. Mail(c.msgs, p, w) /\ Phase(c.path[p], w, c.ancEnabling = p, c.ancDisabling = p)
  BY <1>3
<1>6. Good(c, NoPath, {}, {}) /\ NoStallOf(c)
  BY <1>1, <1>4, <1>5, DrivenInv
<1> QED BY <1>6 DEF c

\* A session is stopped; that of a pipe may have been too short for its
\* first message to be received.
LEMMA StoppedFirst ==
  ASSUME NEW x \in PathRecord, NEW y \in PathRecord, NEW w, NEW e, NEW d, Phase(x, w, e, d),
         x.dsp = "disabling", y.dsp = "off", y.cat = x.cat, y.state = x.state,
         y.codec = x.codec, y.plugin = x.plugin, y.waitCodec = x.waitCodec,
         y.waitRunning = x.waitRunning
  PROVE  \/ w = "none" /\ Phase(y, "DIGITAL_OFF", e, d)
         \/ w = "DIGITAL_ON" /\ Phase(y, "ON_OFF", e, d)
<1>1. x.state \in {"SUSPENDING", "STOPPING"} /\ Falling(x, w, e, d)
  BY DEF Phase, PathRecord, AtRest, Rising, Risen
<1>2. /\ ~e /\ ~d /\ ~x.waitCodec /\ ~x.waitRunning /\ CodecIn(x, {"on"})
      /\ x.plugin => w = "none"
      /\ ~x.plugin => x.cat = "PIPE" /\ w = "DIGITAL_ON"
  BY <1>1 DEF Falling
<1>3. x.plugin => Falling(y, "DIGITAL_OFF", e, d)
  BY <1>2 DEF Falling, CodecIn
<1>4. ~x.plugin => Falling(y, "ON_OFF", e, d)
  BY <1>2, DomainFacts DEF Falling, CodecIn
<1>5. y.state \in {"SUSPENDING", "STOPPING"}
  BY <1>1
<1> QED BY <1>2, <1>3, <1>4, <1>5 DEF Phase

\* The DSP has ended the session of p.
LEMMA SessionStoppedInv ==
  ASSUME Inv, NEW p \in Paths, SessionStopped(p)
  PROVE  Inv'
<1> DEFINE x == a.path[p]
           m == Set(a, p, "dsp", "off")
           y == m.path[p]
           e == a.ancEnabling = p
           d == a.ancDisabling = p
           k == Occasion(m, p, "DIGITAL_OFF")
<1>1. /\ a \in State /\ x \in PathRecord /\ Exists(x)
      /\ \E w \in Mails : Mail(a.msgs, p, w) /\ Phase(x, w, e, d)
  BY PathFacts
<1>2. PICK w \in Mails : Mail(a.msgs, p, w) /\ Phase(x, w, e, d)
  BY <1>1
<1>3. x.dsp = "disabling" /\ x.cat # "none"
  BY <1>1 DEF SessionStopped, Exists, Absent
<1>4. /\ m \in State /\ SameButPath(a, m, p)
      /\ y.dsp = "off" /\ y.cat = x.cat /\ y.state = x.state /\ y.codec = x.codec
      /\ y.plugin = x.plugin /\ y.waitCodec = x.waitCodec
      /\ y.waitRunning = x.waitRunning /\ y.user = x.user
  <2>1. "off" \in DspStates
    BY DEF DspStates
  <2> QED BY <1>1, <2>1, SetDsp
<1>5. a' = k
  BY DEF SessionStopped
<1> HIDE DEF m
<1>6. Driven(a, m, p) /\ m.msgs = a.msgs
      /\ m.ancEnabling = a.ancEnabling /\ m.ancDisabling = a.ancDisabling
  BY <1>4, DrivenSame
<1>7. \/ w = "none" /\ Phase(y, "DIGITAL_OFF", e, d)
      \/ w = "DIGITAL_ON" /\ Phase(y, "ON_OFF", e, d)
  <2>1. y \in PathRecord
    BY <1>4, StateFields
  <2> HIDE DEF x, y, e, d
  <2> QED BY <1>1, <1>2, <1>3, <1>4, <2>1, StoppedFirst
<1>8. "DIGITAL_OFF" \in Occasions /\ "ON_OFF" \in Mails
  BY DEF Occasions, Mails
<1>9. CASE w = "none"
  <2>1. NoMail(m.msgs, p)
    BY <1>2, <1>6, <1>9 DEF Mail, Occasions
  <2>2. Phase(m.path[p], "DIGITAL_OFF", m.ancEnabling = p, m.ancDisabling = p)
    BY <1>6, <1>7, <1>9
  <2>3. Good(k, NoPath, {}, {}) /\ NoStallOf(k)
    BY <1>3, <1>6, <1>8, <2>1, <2>2, SendInv
  <2> QED BY <1>5, <2>3 DEF Inv
<1>10. CASE w = "DIGITAL_ON"
  <2>1. Driven(m, k, p)
    BY <1>4, <1>8, DrivenOccasion
  <2>2. /\ k.path = m.path /\ k.ancEnabling = m.ancEnabling /\ k.ancDisabling = m.ancDisabling
        /\ Mail(m.msgs, p, "DIGITAL_ON") => Mail(k.msgs, p, "ON_OFF")
    BY <1>4, <1>8, OccasionFacts
  <2> HIDE DEF k
  <2>3. /\ Mail(k.msgs, p, "ON_OFF")
        /\ Phase(k.path[p], "ON_OFF", k.ancEnabling = p, k.ancDisabling = p)
    BY <1>2, <1>6, <1>7, <1>10, <2>2
  <2>4. Driven(a, k, p)
    BY <1>6, <2>1, DrivenTrans
  <2>5. Good(k, NoPath, {}, {}) /\ NoStallOf(k)
    BY <1>3, <1>8, <2>3, <2>4, DrivenInv
  <2> QED BY <1>5, <2>5 DEF Inv
<1> QED BY <1>7, <1>9, <1>10

\* The codec is enabled.
LEMMA EnabledFirst ==
  ASSUME NEW x \in PathRecord, NEW y \in PathRecord, NEW w, NEW e, NEW d, Phase(x, w, e, d),
         x.codec = "enabling", y.codec = "on", y.cat = x.cat, y.state = x.state,
         y.dsp = x.dsp, y.plugin = x.plugin, y.waitRunning = x.waitRunning
  PROVE  /\ w = "none"
         /\ x.waitCodec /\ ~y.waitCodec => Phase(y, "ANALOG_ON", e, d)
         /\ ~x.waitCodec /\ ~y.waitCodec /\ ~HasDsp(x.cat) => Phase(y, "ANALOG_ON", e, d)
         /\ ~x.waitCodec /\ ~y.waitCodec /\ HasDsp(x.cat) => Phase(y, "none", e, d)
<1>1. x.state = "READY" /\ Rising(x, w, e, d)
  BY DEF Phase, PathRecord, AtRest, Risen, Falling, CodecIn
<1>2. /\ ~e /\ ~d /\ w = "none" /\ x.waitRunning /\ ~x.plugin
      /\ x.waitCodec => HasCodec(x.cat) /\ HasDsp(x.cat) /\ x.dsp = "prepared"
      /\ ~x.waitCodec => IF HasDsp(x.cat) THEN HasCodec(x.cat) /\ x.dsp = "loading"
                         ELSE x.dsp = "off"
  BY <1>1 DEF Rising, CodecIn
<1>3. x.waitCodec /\ ~y.waitCodec => Rising(y, "ANALOG_ON", e, d)
  BY <1>2 DEF Rising, CodecIn
<1>4. ~x.waitCodec /\ ~y.waitCodec /\ ~HasDsp(x.cat) => Rising(y, "ANALOG_ON", e, d)
  BY <1>2 DEF Rising, CodecIn
<1>5. ~x.waitCodec /\ ~y.waitCodec /\ HasDsp(x.cat) => Rising(y, "none", e, d)
  BY <1>2 DEF Rising, CodecIn
<1> QED BY <1>1, <1>2, <1>3, <1>4, <1>5 DEF Phase

\* The codec of p is on.
LEMMA CodecEnabledInv ==
  ASSUME Inv, NEW p \in Paths, CodecEnabled(p)
  PROVE  Inv'
<1> DEFINE x == a.path[p]
           m == Set(a, p, "codec", "on")
           y == m.path[p]
           n == Set(m, p, "waitCodec", FALSE)
           z == n.path[p]
           e == a.ancEnabling = p
           d == a.ancDisabling = p
<1>1. /\ a \in State /\ x \in PathRecord /\ Exists(x)
      /\ \E w \in Mails : Mail(a.msgs, p, w) /\ Phase(x, w, e, d)
  BY PathFacts
<1>2. PICK w \in Mails : Mail(a.msgs, p, w) /\ Phase(x, w, e, d)
  BY <1>1
<1>3. x.codec = "enabling" /\ x.cat # "none"
  BY <1>1 DEF CodecEnabled, Exists, Absent
<1>4. /\ m \in State /\ SameButPath(a, m, p)
      /\ y.codec = "on" /\ y.cat = x.cat /\ y.state = x.state /\ y.dsp = x.dsp
      /\ y.plugin = x.plugin /\ y.waitCodec = x.waitCodec
      /\ y.waitRunning = x.waitRunning /\ y.user = x.user
  <2>1. "on" \in CodecStates
    BY DEF CodecStates
  <2> QED BY <1>1, <2>1, SetCodec
<1>5. a' = IF x.waitCodec THEN Occasion(n, p, "ANALOG_ON")
           ELSE IF ~HasDsp(x.cat) THEN Occasion(m, p, "ANALOG_ON") ELSE m
  BY DEF CodecEnabled, HasDsp, Cat
<1> HIDE DEF m
<1>6. Driven(a, m, p) /\ m.msgs = a.msgs
      /\ m.ancEnabling = a.ancEnabling /\ m.ancDisabling = a.ancDisabling
  BY <1>4, DrivenSame
<1>7. /\ n \in State /\ SameButPath(m, n, p)
      /\ z.waitCodec = FALSE /\ z.cat = y.cat /\ z.state = y.state /\ z.codec = y.codec
      /\ z.dsp = y.dsp /\ z.plugin = y.plugin /\ z.waitRunning = y.waitRunning
      /\ z.user = y.user
  BY <1>4, SetWaitCodec
<1> HIDE DEF n
<1>8. /\ Driven(a, n, p) /\ n.msgs = m.msgs
      /\ n.ancEnabling = m.ancEnabling /\ n.ancDisabling = m.ancDisabling
  BY <1>6, <1>7, DrivenSame, DrivenTrans
<1>9. y \in PathRecord /\ z \in PathRecord
  BY <1>4, <1>7, StateFields
<1>10. "ANALOG_ON" \in Occasions
  BY DEF Occasions
<1>11. CASE x.waitCodec
  <2>1. w = "none" /\ Phase(z, "ANALOG_ON", e, d)
    <3>1. /\ z.codec = "on" /\ z.cat = x.cat /\ z.state = x.state /\ z.dsp = x.dsp
          /\ z.plugin = x.plugin /\ z.waitRunning = x.waitRunning /\ ~z.waitCodec
      BY <1>4, <1>7
    <3> HIDE DEF x, z, e, d
    <3> QED BY <1>1, <1>2, <1>3, <1>9, <1>11, <3>1, EnabledFirst
  <2>2. /\ NoMail(n.msgs, p)
        /\ Phase(n.path[p], "ANALOG_ON", n.ancEnabling = p, n.ancDisabling = p)
    BY <1>2, <1>6, <1>8, <2>1 DEF Mail, Occasions
  <2>3. Good(a', NoPath, {}, {}) /\ NoStallOf(a')
    BY <1>3, <1>5, <1>8, <1>10, <1>11, <2>2, SendInv
  <2> QED BY <2>3 DEF Inv
<1>12. CASE ~x.waitCodec /\ ~HasDsp(x.cat)
  <2>1. w = "none" /\ Phase(y, "ANALOG_ON", e, d)
    <3> HIDE DEF x, y, e, d
    <3> QED BY <1>1, <1>2, <1>3, <1>4, <1>9, <1>12, EnabledFirst
  <2>2. /\ NoMail(m.msgs, p)
        /\ Phase(m.path[p], "ANALOG_ON", m.ancEnabling = p, m.ancDisabling = p)
    BY <1>2, <1>6, <2>1 DEF Mail, Occasions
  <2>3. Good(a', NoPath, {}, {}) /\ NoStallOf(a')
    BY <1>3, <1>5, <1>6, <1>10, <1>12, <2>2, SendInv
  <2> QED BY <2>3 DEF Inv
<1>13. CASE ~x.waitCodec /\ HasDsp(x.cat)
  <2>1. w = "none" /\ Phase(y, "none", e, d)
    <3> HIDE DEF x, y, e, d
    <3> QED BY <1>1, <1>2, <1>3, <1>4, <1>9, <1>13, EnabledFirst
  <2>2. /\ Mail(m.msgs, p, w)
        /\ Phase(m.path[p], w, m.ancEnabling = p, m.ancDisabling = p)
    BY <1>2, <1>6, <2>1
  <2>3. Good(m, NoPath, {}, {}) /\ NoStallOf(m)
    BY <1>3, <1>6, <2>2, DrivenInv
  <2> QED BY <1>5, <1>13, <2>3 DEF Inv
<1> QED BY <1>11, <1>12, <1>13

\* The codec is disabled.
LEMMA DisabledFirst ==
  ASSUME NEW x \in PathRecord, NEW y \in PathRecord, NEW w, NEW e, NEW d, Phase(x, w, e, d),
         x.codec = "disabling", y.codec = "off", y.cat = x.cat, y.state = x.state,
         y.dsp = x.dsp, y.plugin = x.plugin, y.waitCodec = x.waitCodec,
         y.waitRunning = x.waitRunning
  PROVE  w = "none" /\ Phase(y, "ANALOG_OFF", e, d)
<1>1. x.state \in {"SUSPENDING", "STOPPING"} /\ Falling(x, w, e, d)
  BY DEF Phase, PathRecord, AtRest, Rising, Risen, CodecIn
<1>2. /\ ~e /\ ~d /\ ~x.waitCodec /\ ~x.waitRunning /\ w = "none" /\ ~x.plugin
      /\ x.dsp = "off"
  BY <1>1 DEF Falling, CodecIn
<1>3. Falling(y, "ANALOG_OFF", e, d)
  BY <1>2 DEF Falling
<1>4. y.state \in {"SUSPENDING", "STOPPING"}
  BY <1>1
<1> QED BY <1>2, <1>3, <1>4 DEF Phase

\* The codec of p is off.
LEMMA CodecDisabledInv ==
  ASSUME Inv, NEW p \in Paths, CodecDisabled(p)
  PROVE  Inv'
<1> DEFINE x == a.path[p]
           m == Set(a, p, "codec", "off")
           y == m.path[p]
           e == a.ancEnabling = p
           d == a.ancDisabling = p
<1>1. /\ a \in State /\ x \in PathRecord /\ Exists(x)
      /\ \E w \in Mails : Mail(a.msgs, p, w) /\ Phase(x, w, e, d)
  BY PathFacts
<1>2. PICK w \in Mails : Mail(a.msgs, p, w) /\ Phase(x, w, e, d)
  BY <1>1
<1>3. x.codec = "disabling" /\ x.cat # "none"
  BY <1>1 DEF CodecDisabled, Exists, Absent
<1>4. /\ m \in State /\ SameButPath(a, m, p)
      /\ y.codec = "off" /\ y.cat = x.cat /\ y.state = x.state /\ y.dsp = x.dsp
      /\ y.plugin = x.plugin /\ y.waitCodec = x.waitCodec
      /\ y.waitRunning = x.waitRunning /\ y.user = x.user
  <2>1. "off" \in CodecStates
    BY DEF CodecStates
  <2> QED BY <1>1, <2>1, SetCodec
<1>5. a' = Occasion(m, p, "ANALOG_OFF")
  BY DEF CodecDisabled
<1> HIDE DEF m
<1>6. Driven(a, m, p) /\ m.msgs = a.msgs
      /\ m.ancEnabling = a.ancEnabling /\ m.ancDisabling = a.ancDisabling
  BY <1>4, DrivenSame
<1>7. w = "none" /\ Phase(y, "ANALOG_OFF", e, d)
  <2>1. y \in PathRecord
    BY <1>4, StateFields
  <2> HIDE DEF x, y, e, d
  <2> QED BY <1>1, <1>2, <1>3, <1>4, <2>1, DisabledFirst
<1>8. /\ NoMail(m.msgs, p)
      /\ Phase(m.path[p], "ANALOG_OFF", m.ancEnabling = p, m.ancDisabling = p)
  BY <1>2, <1>6, <1>7 DEF Mail, Occasions
<1>9. Good(a', NoPath, {}, {}) /\ NoStallOf(a')
  <2>1. "ANALOG_OFF" \in Occasions
    BY DEF Occasions
  <2> QED BY <1>3, <1>5, <1>6, <1>8, <2>1, SendInv
<1> QED BY <1>9 DEF Inv

\* The ANC engine is disabled.
LEMMA AncDisabledFirst ==
  ASSUME NEW x \in PathRecord, NEW w, NEW e, Phase(x, w, e, TRUE)
  PROVE  w = "none" /\ Phase(x, "DIGITAL_OFF", e, FALSE)
<1>1. x.state \in {"SUSPENDING", "STOPPING"} /\ Falling(x, w, e, TRUE)
  BY DEF Phase, PathRecord, AtRest, Rising, Risen
<1>2. /\ ~e /\ ~x.waitCodec /\ ~x.waitRunning /\ w = "none" /\ x.plugin
      /\ x.dsp = "off" /\ x.codec = "on" /\ HasCodec(x.cat)
  BY <1>1, DomainFacts DEF Falling
<1>3. Falling(x, "DIGITAL_OFF", e, FALSE)
  BY <1>2 DEF Falling, CodecIn
<1> QED BY <1>1, <1>2, <1>3 DEF Phase

\* The ANC engine is off.
LEMMA AncDisabledInv ==
  ASSUME Inv, NEW p \in Paths, AncDisabled(p)
  PROVE  Inv'
<1> DEFINE x == a.path[p]
           m == [a EXCEPT !.ancDisabling = NoPath]
           e == a.ancEnabling = p
<1>1. /\ a \in State /\ x \in PathRecord /\ Exists(x)
      /\ \E w \in Mails : Mail(a.msgs, p, w) /\ Phase(x, w, e, a.ancDisabling = p)
  BY PathFacts
<1>2. (a.ancDisabling = p) = TRUE /\ p # NoPath
  BY NoPathAssumption DEF AncDisabled
<1>3. PICK w \in Mails : Mail(a.msgs, p, w) /\ Phase(x, w, e, TRUE)
  BY <1>1, <1>2
<1>4. /\ m \in State /\ m.list = a.list /\ m.path = a.path /\ m.msgs = a.msgs
      /\ m.stops = a.stops /\ m.starting = a.starting /\ m.missed = a.missed
      /\ m.power = a.power /\ m.ancEnabling = a.ancEnabling /\ m.ancDisabling = NoPath
  BY <1>1, SetDisabling
<1>5. a' = Occasion(m, p, "DIGITAL_OFF")
  BY DEF AncDisabled
<1> HIDE DEF m
<1>6. Driven(a, m, p)
  BY <1>2, <1>4, NoPathAssumption DEF Driven
<1>7. w = "none" /\ Phase(x, "DIGITAL_OFF", e, FALSE)
  <2> HIDE DEF x, e
  <2> QED BY <1>1, <1>3, AncDisabledFirst
<1>8. x.cat # "none"
  <2>1. x.state # "IDLE"
    <3> HIDE DEF e, x
    <3> QED BY <1>3 DEF Phase, AtRest
  <2> QED BY <1>1, <2>1 DEF Exists, Absent
<1>9. /\ NoMail(m.msgs, p)
      /\ Phase(m.path[p], "DIGITAL_OFF", m.ancEnabling = p, m.ancDisabling = p)
  <2>1. (m.ancDisabling = p) = FALSE /\ (m.ancEnabling = p) = e
    BY <1>2, <1>4
  <2> QED BY <1>3, <1>4, <1>7, <2>1 DEF Mail, Occasions
<1>10. Good(a', NoPath, {}, {}) /\ NoStallOf(a')
  <2>1. "DIGITAL_OFF" \in Occasions
    BY DEF Occasions
  <2> QED BY <1>5, <1>6, <1>8, <1>9, <2>1, SendInv
<1> QED BY <1>10 DEF Inv

\* A path whose message is received exists.
LEMMA ReceivedFacts ==
  ASSUME Inv, NEW p \in Paths, NEW o \in Occasions, IsMsg(p, o)
  PROVE  /\ a \in State /\ a.path[p] \in PathRecord /\ a.path[p].cat # "none"
         /\ Driven(a, Received, p) /\ Received.path = a.path
         /\ Received.ancEnabling = a.ancEnabling /\ Received.ancDisabling = a.ancDisabling
         /\ \E w \in Mails :
              /\ Phase(a.path[p], w, a.ancEnabling = p, a.ancDisabling = p)
              /\ \/ w = o /\ NoMail(Received.msgs, p)
                 \/ w = "ON_OFF" /\ o = "DIGITAL_ON" /\ Mail(Received.msgs, p, "DIGITAL_OFF")
<1>1. /\ a \in State /\ a.path[p] \in PathRecord /\ Exists(a.path[p])
  BY PathFacts
<1>2. PICK w \in Mails : /\ Mail(a.msgs, p, w)
                         /\ Phase(a.path[p], w, a.ancEnabling = p, a.ancDisabling = p)
  BY PathFacts
<1>3. /\ Driven(a, Received, p) /\ Received.path = a.path
      /\ Received.ancEnabling = a.ancEnabling /\ Received.ancDisabling = a.ancDisabling
      /\ \A v \in Mails : Mail(a.msgs, p, v) =>
           \/ v = o /\ NoMail(Received.msgs, p)
           \/ v = "ON_OFF" /\ o = "DIGITAL_ON" /\ Mail(Received.msgs, p, "DIGITAL_OFF")
  <2>1. a.msgs # <<>> /\ Head(a.msgs) = [path |-> p, occasion |-> o]
    BY DEF IsMsg
  <2> QED BY <1>1, <2>1, DrivenReceived DEF Received
<1>4. \/ w = o /\ NoMail(Received.msgs, p)
      \/ w = "ON_OFF" /\ o = "DIGITAL_ON" /\ Mail(Received.msgs, p, "DIGITAL_OFF")
  BY <1>2, <1>3
<1>5. a.path[p].cat # "none"
  <2>1. w # "none"
    BY <1>4 DEF Occasions
  <2>2. a.path[p].state # "IDLE"
    BY <1>2, <2>1 DEF Phase, AtRest
  <2> QED BY <1>1, <2>2 DEF Exists, Absent
<1> QED BY <1>1, <1>2, <1>3, <1>4, <1>5

\* The bridge between codec and DSP is opened.
LEMMA AnalogFirst ==
  ASSUME NEW x \in PathRecord, NEW y \in PathRecord, NEW e, NEW d, Phase(x, "ANALOG_ON", e, d),
         y.cat = x.cat, y.state = x.state, y.codec = x.codec, y.plugin = x.plugin,
         y.waitCodec = x.waitCodec, y.waitRunning = x.waitRunning
  PROVE  /\ HasDsp(x.cat) => x.dsp = "prepared"
         /\ HasDsp(x.cat) /\ y.dsp = "creating" => Phase(y, "none", e, d)
         /\ ~HasDsp(x.cat) /\ y.dsp = x.dsp => Phase(y, "DIGITAL_ON", e, d)
<1>1. x.state = "READY" /\ Rising(x, "ANALOG_ON", e, d)
  BY DEF Phase, PathRecord, AtRest, Risen, Falling
<1>2. /\ ~e /\ ~d /\ x.waitRunning /\ ~x.plugin /\ ~x.waitCodec
      /\ HasDsp(x.cat) => x.dsp = "prepared" /\ CodecIn(x, {"on"})
      /\ ~HasDsp(x.cat) => x.dsp = "off" /\ x.codec = "on"
  BY <1>1 DEF Rising
<1>3. HasDsp(x.cat) /\ y.dsp = "creating" => Rising(y, "none", e, d)
  BY <1>2 DEF Rising, CodecIn
<1>4. ~HasDsp(x.cat) /\ y.dsp = x.dsp => Rising(y, "DIGITAL_ON", e, d)
  BY <1>2 DEF Rising
<1> QED BY <1>1, <1>2, <1>3, <1>4 DEF Phase

\* The message ANALOG_ON of p is handled.
LEMMA AnalogOnInv ==
  ASSUME Inv, NEW p \in Paths, AnalogOn(p)
  PROVE  Inv'
<1> DEFINE x == a.path[p]
           r == Received
           e == a.ancEnabling = p
           d == a.ancDisabling = p
<1>1. "ANALOG_ON" \in Occasions /\ "DIGITAL_ON" \in Occasions /\ "none" \in Mails
  BY DEF Occasions, Mails
<1>2. /\ a \in State /\ x \in PathRecord /\ x.cat # "none"
      /\ Driven(a, r, p) /\ r.path = a.path
      /\ r.ancEnabling = a.ancEnabling /\ r.ancDisabling = a.ancDisabling
      /\ Phase(x, "ANALOG_ON", e, d) /\ NoMail(r.msgs, p)
  BY <1>1, ReceivedFacts DEF AnalogOn
<1> HIDE DEF r
<1>3. r \in State
  BY <1>2 DEF Driven
<1>4. CASE HasDsp(x.cat)
  <2> DEFINE m == Set(r, p, "dsp", "creating")
             y == m.path[p]
  <2>1. x.dsp = "prepared"
    <3> HIDE DEF x, e, d
    <3> QED BY <1>2, <1>4, AnalogFirst
  <2>2. a' = m
    BY <1>4, <2>1 DEF AnalogOn, HasDsp, Cat, r
  <2>3. /\ m \in State /\ SameButPath(r, m, p)
        /\ y.dsp = "creating" /\ y.cat = x.cat /\ y.state = x.state /\ y.codec = x.codec
        /\ y.plugin = x.plugin /\ y.waitCodec = x.waitCodec
        /\ y.waitRunning = x.waitRunning /\ y.user = x.user
    <3>1. "creating" \in DspStates /\ r.path[p] = x
      BY <1>2 DEF DspStates
    <3> HIDE DEF x
    <3> QED BY <1>3, <3>1, SetDsp
  <2> HIDE DEF m
  <2>4. /\ Driven(a, m, p) /\ m.msgs = r.msgs
        /\ m.ancEnabling = r.ancEnabling /\ m.ancDisabling = r.ancDisabling
    <3>1. y.cat = r.path[p].cat /\ y.state = r.path[p].state /\ y.user = r.path[p].user
      BY <1>2, <2>3
    <3> QED BY <1>2, <2>3, <3>1, DrivenSame, DrivenTrans
  <2>5. Phase(y, "none", e, d)
    <3>1. y \in PathRecord
      BY <2>3, StateFields
    <3> HIDE DEF x, y, e, d
    <3> QED BY <1>2, <1>4, <2>3, <3>1, AnalogFirst
  <2>6. /\ Mail(m.msgs, p, "none")
        /\ Phase(m.path[p], "none", m.ancEnabling = p, m.ancDisabling = p)
    BY <1>2, <2>4, <2>5 DEF Mail
  <2>7. Good(m, NoPath, {}, {}) /\ NoStallOf(m)
    BY <1>1, <1>2, <2>4, <2>6, DrivenInv
  <2> QED BY <2>2, <2>7 DEF Inv
<1>5. CASE ~HasDsp(x.cat)
  <2>1. a' = Occasion(r, p, "DIGITAL_ON")
    BY <1>5 DEF AnalogOn, HasDsp, Cat, r
  <2>2. Phase(x, "DIGITAL_ON", e, d)
    <3> HIDE DEF x, e, d
    <3> QED BY <1>2, <1>5, AnalogFirst
  <2>3. Phase(r.path[p], "DIGITAL_ON", r.ancEnabling = p, r.ancDisabling = p)
    BY <1>2, <2>2
  <2>4. Good(a', NoPath, {}, {}) /\ NoStallOf(a')
    BY <1>1, <1>2, <2>1, <2>3, SendInv
  <2> QED BY <2>4 DEF Inv
<1> QED BY <1>4, <1>5

\* The plugin of a path that is taken down answers.
LEMMA DigitalOffFirst ==
  ASSUME NEW x \in PathRecord, NEW y \in PathRecord, NEW e, NEW d, Phase(x, "DIGITAL_OFF", e, d),
         ~y.plugin, y.cat = x.cat, y.state = x.state, y.dsp = x.dsp,
         y.waitCodec = x.waitCodec, y.waitRunning = x.waitRunning
  PROVE  /\ x.state \in {"SUSPENDING", "STOPPING"}
         /\ HasCodec(x.cat) /\ y.codec = "disabling" => Phase(y, "none", e, d)
         /\ ~HasCodec(x.cat) /\ y.codec = x.codec => Phase(y, "ANALOG_OFF", e, d)
<1>1. x.state \in {"SUSPENDING", "STOPPING"} /\ Falling(x, "DIGITAL_OFF", e, d)
  BY DEF Phase, PathRecord, AtRest, Rising, Risen
<1>2. /\ ~e /\ ~d /\ ~x.waitCodec /\ ~x.waitRunning /\ x.dsp = "off" /\ CodecIn(x, {"on"})
  BY <1>1 DEF Falling
<1>3. HasCodec(x.cat) /\ y.codec = "disabling" => Falling(y, "none", e, d)
  BY <1>2 DEF Falling
<1>4. ~HasCodec(x.cat) /\ y.codec = x.codec => Falling(y, "ANALOG_OFF", e, d)
  BY <1>2 DEF Falling, CodecIn
<1> QED BY <1>1, <1>2, <1>3, <1>4 DEF Phase

\* The message DIGITAL_OFF of p is handled.
LEMMA DigitalOffInv ==
  ASSUME Inv, NEW p \in Paths, DigitalOff(p)
  PROVE  Inv'
<1> DEFINE x == a.path[p]
           r == Received
           e == a.ancEnabling = p
           d == a.ancDisabling = p
           m == Set(r, p, "plugin", FALSE)
           y == m.path[p]
           n == Set(m, p, "codec", "disabling")
           z == n.path[p]
<1>1. "DIGITAL_OFF" \in Occasions /\ "ANALOG_OFF" \in Occasions /\ "none" \in Mails
      /\ "disabling" \in CodecStates
  BY DEF Occasions, Mails, CodecStates
<1>2. /\ a \in State /\ x \in PathRecord /\ x.cat # "none"
      /\ Driven(a, r, p) /\ r.path = a.path
      /\ r.ancEnabling = a.ancEnabling /\ r.ancDisabling = a.ancDisabling
      /\ Phase(x, "DIGITAL_OFF", e, d) /\ NoMail(r.msgs, p)
  BY <1>1, ReceivedFacts DEF DigitalOff
<1>3. a' = IF x.state \notin {"SUSPENDING", "STOPPING"} THEN m
           ELSE IF HasCodec(x.cat) THEN n ELSE Occasion(m, p, "ANALOG_OFF")
  BY DEF DigitalOff, HasCodec, Cat
<1> HIDE DEF r
<1>4. /\ m \in State /\ SameButPath(r, m, p)
      /\ y.plugin = FALSE /\ y.cat = x.cat /\ y.state = x.state /\ y.codec = x.codec
      /\ y.dsp = x.dsp /\ y.waitCodec = x.waitCodec
      /\ y.waitRunning = x.waitRunning /\ y.user = x.user
  <2>1. r \in State /\ r.path[p] = x
    BY <1>2 DEF Driven
  <2> HIDE DEF x
  <2> QED BY <2>1, SetPlugin
<1> HIDE DEF m
<1>5. /\ Driven(a, m, p) /\ m.msgs = r.msgs
      /\ m.ancEnabling = r.ancEnabling /\ m.ancDisabling = r.ancDisabling
  <2>1. y.cat = r.path[p].cat /\ y.state = r.path[p].state /\ y.user = r.path[p].user
    BY <1>2, <1>4
  <2> QED BY <1>2, <1>4, <2>1, DrivenSame, DrivenTrans
<1>6. y \in PathRecord
  BY <1>4, StateFields
<1>7. x.state \in {"SUSPENDING", "STOPPING"}
  <2> HIDE DEF x, y, e, d
  <2> QED BY <1>2, <1>4, <1>6, DigitalOffFirst
<1>8. CASE HasCodec(x.cat)
  <2>1. /\ n \in State /\ SameButPath(m, n, p)
        /\ z.codec = "disabling" /\ z.cat = y.cat /\ z.state = y.state /\ z.dsp = y.dsp
        /\ z.plugin = y.plugin /\ z.waitCodec = y.waitCodec
        /\ z.waitRunning = y.waitRunning /\ z.user = y.user
    BY <1>1, <1>4, SetCodec
  <2> HIDE DEF n
  <2>2. /\ Driven(a, n, p) /\ n.msgs = m.msgs
        /\ n.ancEnabling = m.ancEnabling /\ n.ancDisabling = m.ancDisabling
    BY <1>5, <2>1, DrivenSame, DrivenTrans
  <2>3. Phase(z, "none", e, d)
    <3>1. z \in PathRecord
      BY <2>1, StateFields
    <3>2. /\ z.codec = "disabling" /\ z.cat = x.cat /\ z.state = x.state /\ z.dsp = x.dsp
          /\ ~z.plugin /\ z.waitCodec = x.waitCodec /\ z.waitRunning = x.waitRunning
      BY <1>4, <2>1
    <3> HIDE DEF x, z, e, d
    <3> QED BY <1>2, <1>8, <3>1, <3>2, DigitalOffFirst
  <2>4. /\ Mail(n.msgs, p, "none")
        /\ Phase(n.path[p], "none", n.ancEnabling = p, n.ancDisabling = p)
    BY <1>2, <1>5, <2>2, <2>3 DEF Mail
  <2>5. Good(n, NoPath, {}, {}) /\ NoStallOf(n)
    BY <1>1, <1>2, <2>2, <2>4, DrivenInv
  <2> QED BY <1>3, <1>7, <1>8, <2>5 DEF Inv
<1>9. CASE ~HasCodec(x.cat)
  <2>1. Phase(y, "ANALOG_OFF", e, d)
    <3> HIDE DEF x, y, e, d
    <3> QED BY <1>2, <1>4, <1>6, <1>9, DigitalOffFirst
  <2>2. /\ NoMail(m.msgs, p)
        /\ Phase(m.path[p], "ANALOG_OFF", m.ancEnabling = p, m.ancDisabling = p)
    BY <1>2, <1>5, <2>1
  <2>3. Good(a', NoPath, {}, {}) /\ NoStallOf(a')
    BY <1>1, <1>2, <1>3, <1>5, <1>7, <1>9, <2>2, SendInv
  <2> QED BY <2>3 DEF Inv
<1> QED BY <1>8, <1>9

-----------------------------------------------------------------------------
(* The handlers that may be the last a path waits for.                     *)

\* A path that has risen is told to run, the stops that waited are made again, and the
\* scheduler is called.
LEMMA RunningInv ==
  ASSUME Inv, NEW p \in Paths, a.path[p].cat # "none", a.path[p].state = "READY",
         NEW n, Driven(a, n, p), NEW o \in {NoPath, p}, NEW w \in Mails, Sent(n, o, p, w),
         Risen(n.path[p], w, n.ancEnabling = p, n.ancDisabling = p)
  PROVE  LET c == audio_path_schedule(Running(n, p))
         IN  Good(c, o, {}, {}) /\ NoStallOf(c)
<1>1. Good(a, NoPath, {}, {}) /\ n.path[p].state = "READY"
  BY DEF Inv, Driven
<1>2. \A q \in Paths \ {p} : q = o <=> q = NoPath
  BY NoPathAssumption
<1>3. /\ n \in State /\ Listed(n) /\ Steady(n) /\ Mixes(n)
      /\ \A q \in Paths \ {p} : Fits(n, o, q)
      /\ Exists(n.path[p]) /\ n.path[p].cat # "none"
      /\ Users(n, {}) /\ Starting(n) /\ Stops(n, {})
  <2> DEFINE s == a
  <2>1. Good(s, NoPath, {}, {}) /\ s.path[p].cat # "none" /\ Driven(s, n, p)
    BY <1>1
  <2> HIDE DEF s
  <2> QED BY <1>2, <2>1, DrivenRest
<1> QED BY <1>1, <1>3, RunningGood

\* No other path waits for the ANC engine to be enabled while one is brought
\* up.
LEMMA EngineFree ==
  ASSUME Inv, NEW p \in Paths, a.path[p].state = "READY", a.ancEnabling # p
  PROVE  a.ancEnabling = NoPath
<1> SUFFICES ASSUME a.ancEnabling # NoPath PROVE FALSE
  OBVIOUS
<1> DEFINE q == a.ancEnabling
<1>1. q \in Paths
  BY StateFields DEF Inv, Good, Core
<1>2. PICK w \in Mails : Phase(a.path[q], w, a.ancEnabling = q, a.ancDisabling = q)
  BY <1>1, PathFacts
<1>3. a.path[q] \in PathRecord
  BY <1>1, PathFacts
<1>4. a.path[q].state = "READY"
  <2> DEFINE x == a.path[q]
             d == a.ancDisabling = q
  <2>1. Phase(x, w, TRUE, d) /\ x \in PathRecord
    BY <1>2, <1>3
  <2> HIDE DEF x, d, q
  <2>2. x.state = "READY"
    BY <2>1 DEF Phase, AtRest, Risen, Falling, PathRecord
  <2> QED BY <2>2 DEF x
<1>5. Steady(a)
  BY DEF Inv, Good, Core
<1> QED BY <1>1, <1>4, <1>5 DEF Steady

\* A path that waits for the ANC engine is all up but for the engine.
LEMMA AncEnabledFirst ==
  ASSUME NEW x \in PathRecord, NEW w, NEW d, Phase(x, w, TRUE, d)
  PROVE  w = "none" /\ x.state = "READY" /\ Risen(x, "none", FALSE, d)
<1>1. x.state = "READY" /\ Rising(x, w, TRUE, d)
  BY DEF Phase, PathRecord, AtRest, Risen, Falling
<1>2. /\ ~d /\ IsAnc(x.cat) /\ ~HasDsp(x.cat) /\ x.codec = "on" /\ x.dsp = "off" /\ x.plugin
      /\ ~x.waitCodec /\ ~x.waitRunning /\ w = "none" /\ HasCodec(x.cat)
  BY <1>1, DomainFacts DEF Rising
<1> QED BY <1>1, <1>2 DEF Risen, CodecIn

\* The ANC engine is on: its path runs.
LEMMA AncEnabledInv ==
  ASSUME Inv, NEW p \in Paths, AncEnabled(p)
  PROVE  Inv'
<1> DEFINE x == a.path[p]
           m == [a EXCEPT !.ancEnabling = NoPath]
           d == a.ancDisabling = p
<1>1. /\ a \in State /\ x \in PathRecord /\ Exists(x)
      /\ \E w \in Mails : Mail(a.msgs, p, w) /\ Phase(x, w, a.ancEnabling = p, d)
  BY PathFacts
<1>2. (a.ancEnabling = p) = TRUE /\ p # NoPath
  BY NoPathAssumption DEF AncEnabled
<1>3. PICK w \in Mails : Mail(a.msgs, p, w) /\ Phase(x, w, TRUE, d)
  BY <1>1, <1>2
<1>4. /\ m \in State /\ m.list = a.list /\ m.path = a.path /\ m.msgs = a.msgs
      /\ m.stops = a.stops /\ m.starting = a.starting /\ m.missed = a.missed
      /\ m.power = a.power /\ m.ancEnabling = NoPath /\ m.ancDisabling = a.ancDisabling
  BY <1>1 DEF State
<1>5. a' = audio_path_schedule(Running(m, p))
  BY DEF AncEnabled
<1> HIDE DEF m
<1>6. Driven(a, m, p)
  BY <1>2, <1>4, NoPathAssumption DEF Driven
<1>7. w = "none" /\ x.state = "READY" /\ Risen(x, "none", FALSE, d)
  <2> HIDE DEF x, d
  <2> QED BY <1>1, <1>3, AncEnabledFirst
<1>8. x.cat # "none"
  BY <1>1, <1>7 DEF Exists, Absent
<1>9. Risen(m.path[p], w, m.ancEnabling = p, m.ancDisabling = p)
  <2>1. (m.ancEnabling = p) = FALSE /\ (m.ancDisabling = p) = d
    BY <1>2, <1>4
  <2> QED BY <1>4, <1>7, <2>1
<1>10. Sent(m, NoPath, p, w)
  BY <1>2, <1>3, <1>4 DEF Sent
<1>11. Good(a', NoPath, {}, {}) /\ NoStallOf(a')
  <2>1. NoPath \in {NoPath, p} /\ x.state = "READY"
    BY <1>7
  <2> QED BY <1>5, <1>6, <1>8, <1>9, <1>10, <2>1, RunningInv
<1> QED BY <1>11 DEF Inv

\* The session of a path has started.
LEMMA StartedFirst ==
  ASSUME NEW x \in PathRecord, NEW y \in PathRecord, NEW w, NEW e, NEW d, Phase(x, w, e, d),
         x.dsp = "creating", y.dsp = "on", y.cat = x.cat, y.state = x.state,
         y.codec = x.codec, y.plugin = x.plugin, y.waitCodec = x.waitCodec
  PROVE  /\ w = "none" /\ x.state = "READY"
         /\ y.waitRunning = x.waitRunning => (MayRun(y) <=> x.cat = "PIPE")
         /\ x.cat # "PIPE" /\ y.waitRunning = x.waitRunning => Phase(y, "DIGITAL_ON", e, d)
         /\ x.cat = "PIPE" /\ ~y.waitRunning => Risen(y, "DIGITAL_ON", e, d)
<1>1. x.state = "READY" /\ Rising(x, w, e, d)
  BY DEF Phase, PathRecord, AtRest, Risen, Falling
<1>2. /\ ~e /\ ~d /\ ~x.waitCodec /\ x.waitRunning /\ w = "none" /\ ~x.plugin
      /\ HasDsp(x.cat) /\ CodecIn(x, {"on"})
  BY <1>1 DEF Rising
<1>3. y.waitRunning = x.waitRunning => (MayRun(y) <=> x.cat = "PIPE")
  BY <1>2, MayRunFacts, DomainFacts DEF CodecIn
<1>4. x.cat # "PIPE" /\ y.waitRunning = x.waitRunning => Rising(y, "DIGITAL_ON", e, d)
  BY <1>2 DEF Rising, CodecIn
<1>5. x.cat = "PIPE" /\ ~y.waitRunning => Risen(y, "DIGITAL_ON", e, d)
  BY <1>2 DEF Risen, CodecIn
<1> QED BY <1>1, <1>2, <1>3, <1>4, <1>5 DEF Phase

\* The DSP has started the session of p.
LEMMA SessionStartedInv ==
  ASSUME Inv, NEW p \in Paths, SessionStarted(p)
  PROVE  Inv'
<1> DEFINE x == a.path[p]
           m == Set(a, p, "dsp", "on")
           y == m.path[p]
           e == a.ancEnabling = p
           d == a.ancDisabling = p
           n == Set(m, p, "waitRunning", FALSE)
           z == n.path[p]
<1>1. /\ a \in State /\ x \in PathRecord /\ Exists(x)
      /\ \E w \in Mails : Mail(a.msgs, p, w) /\ Phase(x, w, e, d)
  BY PathFacts
<1>2. PICK w \in Mails : Mail(a.msgs, p, w) /\ Phase(x, w, e, d)
  BY <1>1
<1>3. x.dsp = "creating" /\ x.cat # "none"
  BY <1>1 DEF SessionStarted, Exists, Absent
<1>4. /\ m \in State /\ SameButPath(a, m, p)
      /\ y.dsp = "on" /\ y.cat = x.cat /\ y.state = x.state /\ y.codec = x.codec
      /\ y.plugin = x.plugin /\ y.waitCodec = x.waitCodec
      /\ y.waitRunning = x.waitRunning /\ y.user = x.user
  <2>1. "on" \in DspStates
    BY DEF DspStates
  <2> QED BY <1>1, <2>1, SetDsp
<1>5. a' = Occasion(FlagPosted(m, p), p, "DIGITAL_ON")
  BY DEF SessionStarted
<1> HIDE DEF m
<1>6. Driven(a, m, p) /\ m.msgs = a.msgs
      /\ m.ancEnabling = a.ancEnabling /\ m.ancDisabling = a.ancDisabling
  BY <1>4, DrivenSame
<1>7. y \in PathRecord /\ "DIGITAL_ON" \in Occasions /\ "DIGITAL_ON" \in Mails
  BY <1>4, StateFields DEF Occasions, Mails
<1>8. /\ w = "none" /\ x.state = "READY" /\ (MayRun(y) <=> x.cat = "PIPE")
      /\ x.cat # "PIPE" => Phase(y, "DIGITAL_ON", e, d)
  <2> HIDE DEF x, y, e, d
  <2> QED BY <1>1, <1>2, <1>3, <1>4, <1>7, StartedFirst
<1>9. NoMail(a.msgs, p)
  BY <1>2, <1>8 DEF Mail, Occasions
<1>10. CASE x.cat # "PIPE"
  <2>1. FlagPosted(m, p) = m
    BY <1>8, <1>10 DEF FlagPosted
  <2>2. /\ NoMail(m.msgs, p)
        /\ Phase(m.path[p], "DIGITAL_ON", m.ancEnabling = p, m.ancDisabling = p)
    BY <1>6, <1>8, <1>9, <1>10
  <2>3. Good(a', NoPath, {}, {}) /\ NoStallOf(a')
    BY <1>3, <1>5, <1>6, <1>7, <2>1, <2>2, SendInv
  <2> QED BY <2>3 DEF Inv
<1>11. CASE x.cat = "PIPE"
  <2> DEFINE c == audio_path_schedule(Running(n, p))
  <2>1. /\ n \in State /\ SameButPath(m, n, p)
        /\ z.waitRunning = FALSE /\ z.cat = y.cat /\ z.state = y.state /\ z.codec = y.codec
        /\ z.dsp = y.dsp /\ z.plugin = y.plugin /\ z.waitCodec = y.waitCodec
        /\ z.user = y.user
    BY <1>4, SetWaitRunning
  <2>2. FlagPosted(m, p) = audio_path_wait_running_handler(n, p)
    BY <1>8, <1>11 DEF FlagPosted
  <2> HIDE DEF n
  <2>3. FlagPosted(m, p) = c
    <3>1. ~IsAnc(Cat(n, p))
      BY <1>4, <1>11, <2>1 DEF IsAnc, Cat
    <3> QED BY <2>2, <3>1 DEF audio_path_wait_running_handler
  <2>4. /\ Driven(a, n, p) /\ n.msgs = m.msgs
        /\ n.ancEnabling = m.ancEnabling /\ n.ancDisabling = m.ancDisabling
    BY <1>6, <2>1, DrivenSame, DrivenTrans
  <2>5. Risen(z, "DIGITAL_ON", e, d)
    <3>1. z \in PathRecord
      BY <2>1, StateFields
    <3>2. /\ z.dsp = "on" /\ z.cat = x.cat /\ z.state = x.state /\ z.codec = x.codec
          /\ z.plugin = x.plugin /\ z.waitCodec = x.waitCodec /\ ~z.waitRunning
      BY <1>4, <2>1
    <3> HIDE DEF x, z, e, d
    <3> QED BY <1>1, <1>2, <1>3, <1>11, <3>1, <3>2, StartedFirst
  <2>6. /\ Sent(n, p, p, "DIGITAL_ON")
        /\ Risen(n.path[p], "DIGITAL_ON", n.ancEnabling = p, n.ancDisabling = p)
    BY <1>6, <1>9, <2>4, <2>5 DEF Sent
  <2>7. Good(c, p, {}, {}) /\ NoStallOf(c)
    <3>1. p \in {NoPath, p}
      OBVIOUS
    <3> QED BY <1>3, <1>7, <1>8, <2>4, <2>6, <3>1, RunningInv
  <2> HIDE DEF c
  <2>8. Good(a', NoPath, {}, {}) /\ NoStallOf(a')
    BY <1>5, <2>3, <2>7, OwedSent
  <2> QED BY <2>8 DEF Inv
<1> QED BY <1>10, <1>11

\* The plugin of a path answers, before or after the path is told to go.
LEMMA PluggedFirst ==
  ASSUME NEW x \in PathRecord, NEW y \in PathRecord, NEW w, NEW e, NEW d, Phase(x, w, e, d),
         w \in {"DIGITAL_ON", "ON_OFF"}, y.plugin, y.cat = x.cat,
         y.codec = x.codec, y.dsp = x.dsp, y.waitCodec = x.waitCodec
  PROVE  /\ y.state = x.state /\ y.waitRunning = x.waitRunning =>
              /\ MayRun(y) => x.state = "READY" /\ w = "DIGITAL_ON" /\ ~e
              /\ ~MayRun(y) /\ w = "DIGITAL_ON" => Phase(y, "none", e, d)
              /\ ~MayRun(y) /\ w = "ON_OFF" => Phase(y, "DIGITAL_OFF", e, d)
         /\ y.state = x.state /\ ~y.waitRunning /\ x.state = "READY" =>
              /\ IsAnc(x.cat) => Phase(y, "none", TRUE, d)
              /\ ~IsAnc(x.cat) => Risen(y, "none", e, d)
<1>1. x.state \in {"READY", "RUNNING", "SUSPENDING", "STOPPING"}
  BY DEF Phase, PathRecord, AtRest
<1>2. CASE x.state = "READY"
  <2>1. Rising(x, w, e, d)
    BY <1>2 DEF Phase
  <2>2. /\ ~e /\ ~d /\ ~x.waitCodec /\ x.waitRunning /\ w = "DIGITAL_ON" /\ CodecIn(x, {"on"})
        /\ HasDsp(x.cat) => x.dsp = "on" /\ x.cat # "PIPE"
        /\ ~HasDsp(x.cat) => x.dsp = "off" /\ x.codec = "on" /\ HasCodec(x.cat)
    BY <2>1, DomainFacts DEF Rising, CodecIn
  <2>3. y.waitRunning = x.waitRunning => MayRun(y)
    BY <2>2, MayRunFacts, DomainFacts DEF CodecIn
  <2>4. ~y.waitRunning /\ IsAnc(x.cat) => Rising(y, "none", TRUE, d)
    BY <2>2, DomainFacts DEF Rising
  <2>5. ~y.waitRunning /\ ~IsAnc(x.cat) => Risen(y, "none", e, d)
    BY <2>2 DEF Risen, CodecIn
  <2> QED BY <1>2, <2>2, <2>3, <2>4, <2>5 DEF Phase
<1>3. CASE x.state = "RUNNING"
  <2>1. Risen(x, w, e, d)
    BY <1>3 DEF Phase
  <2>2. w = "DIGITAL_ON" /\ ~x.waitRunning
    BY <2>1 DEF Risen
  <2>3. y.waitRunning = x.waitRunning => Risen(y, "none", e, d)
    BY <2>1 DEF Risen, CodecIn
  <2> QED BY <1>3, <2>2, <2>3, MayRunFacts DEF Phase
<1>4. CASE x.state \in {"SUSPENDING", "STOPPING"}
  <2>1. Falling(x, w, e, d)
    BY <1>4 DEF Phase
  <2>2. ~x.waitRunning /\ ~x.waitCodec /\ ~e /\ ~d /\ ~x.plugin /\ x.cat = "PIPE"
        /\ (w = "DIGITAL_ON" => HasDsp(x.cat) /\ x.dsp = "disabling" /\ CodecIn(x, {"on"}))
        /\ (w = "ON_OFF" => x.dsp = "off" /\ x.codec = "off")
    BY <2>1, DomainFacts DEF Falling
  <2>3. w = "DIGITAL_ON" /\ y.waitRunning = x.waitRunning => Falling(y, "none", e, d)
    BY <2>2 DEF Falling, CodecIn
  <2>4. w = "ON_OFF" /\ y.waitRunning = x.waitRunning => Falling(y, "DIGITAL_OFF", e, d)
    BY <2>2, DomainFacts DEF Falling, CodecIn
  <2> QED BY <1>4, <2>2, <2>3, <2>4, MayRunFacts DEF Phase
<1> QED BY <1>1, <1>2, <1>3, <1>4

\* The message DIGITAL_ON of p is handled.
LEMMA DigitalOnInv ==
  ASSUME Inv, NEW p \in Paths, DigitalOn(p)
  PROVE  Inv'
<1> DEFINE x == a.path[p]
           r == Received
           e == a.ancEnabling = p
           d == a.ancDisabling = p
           m == Set(r, p, "plugin", TRUE)
           y == m.path[p]
           n == Set(m, p, "waitRunning", FALSE)
           z == n.path[p]
<1>1. "DIGITAL_ON" \in Occasions /\ {"none", "DIGITAL_ON", "DIGITAL_OFF"} \subseteq Mails
  BY DEF Occasions, Mails
<1>2. /\ a \in State /\ x \in PathRecord /\ x.cat # "none"
      /\ Driven(a, r, p) /\ r.path = a.path
      /\ r.ancEnabling = a.ancEnabling /\ r.ancDisabling = a.ancDisabling
      /\ \/ Phase(x, "DIGITAL_ON", e, d) /\ NoMail(r.msgs, p)
         \/ Phase(x, "ON_OFF", e, d) /\ Mail(r.msgs, p, "DIGITAL_OFF")
  BY <1>1, ReceivedFacts DEF DigitalOn
<1>3. PICK w \in {"DIGITAL_ON", "ON_OFF"} :
        /\ Phase(x, w, e, d)
        /\ w = "DIGITAL_ON" => Mail(r.msgs, p, "none")
        /\ w = "ON_OFF" => Mail(r.msgs, p, "DIGITAL_OFF")
  BY <1>2 DEF Mail
<1>4. a' = IF MayRun(y) THEN audio_path_wait_running_handler(n, p) ELSE m
  BY DEF DigitalOn, FlagPosted
<1> HIDE DEF r
<1>5. /\ m \in State /\ SameButPath(r, m, p)
      /\ y.plugin = TRUE /\ y.cat = x.cat /\ y.state = x.state /\ y.codec = x.codec
      /\ y.dsp = x.dsp /\ y.waitCodec = x.waitCodec
      /\ y.waitRunning = x.waitRunning /\ y.user = x.user
  <2>1. r \in State /\ r.path[p] = x
    BY <1>2 DEF Driven
  <2> HIDE DEF x
  <2> QED BY <2>1, SetPlugin
<1> HIDE DEF m
<1>6. /\ Driven(a, m, p) /\ m.msgs = r.msgs
      /\ m.ancEnabling = r.ancEnabling /\ m.ancDisabling = r.ancDisabling
  <2>1. y.cat = r.path[p].cat /\ y.state = r.path[p].state /\ y.user = r.path[p].user
    BY <1>2, <1>5
  <2> QED BY <1>2, <1>5, <2>1, DrivenSame, DrivenTrans
<1>7. /\ n \in State /\ SameButPath(m, n, p)
      /\ z.waitRunning = FALSE /\ z.cat = y.cat /\ z.state = y.state /\ z.codec = y.codec
      /\ z.dsp = y.dsp /\ z.plugin = y.plugin /\ z.waitCodec = y.waitCodec
      /\ z.user = y.user
  BY <1>5, SetWaitRunning
<1> HIDE DEF n
<1>8. /\ Driven(a, n, p) /\ n.msgs = m.msgs
      /\ n.ancEnabling = m.ancEnabling /\ n.ancDisabling = m.ancDisabling
  BY <1>6, <1>7, DrivenSame, DrivenTrans
<1>9. y \in PathRecord /\ z \in PathRecord
  BY <1>5, <1>7, StateFields
<1>10. /\ MayRun(y) => x.state = "READY" /\ w = "DIGITAL_ON" /\ ~e
       /\ ~MayRun(y) /\ w = "DIGITAL_ON" => Phase(y, "none", e, d)
       /\ ~MayRun(y) /\ w = "ON_OFF" => Phase(y, "DIGITAL_OFF", e, d)
  <2> HIDE DEF x, y, e, d
  <2> QED BY <1>2, <1>3, <1>5, <1>9, PluggedFirst
<1>11. x.state = "READY" => /\ IsAnc(x.cat) => Phase(z, "none", TRUE, d)
                            /\ ~IsAnc(x.cat) => Risen(z, "none", e, d)
  <2>1. /\ z.plugin /\ z.cat = x.cat /\ z.state = x.state /\ z.codec = x.codec
        /\ z.dsp = x.dsp /\ z.waitCodec = x.waitCodec /\ ~z.waitRunning
    BY <1>5, <1>7
  <2> HIDE DEF x, z, e, d
  <2> QED BY <1>2, <1>3, <1>9, <2>1, PluggedFirst
<1>12. CASE ~MayRun(y)
  <2>1. PICK v \in {"none", "DIGITAL_OFF"} : Mail(m.msgs, p, v) /\ Phase(y, v, e, d)
    BY <1>3, <1>6, <1>10, <1>12
  <2>2. Mail(m.msgs, p, v) /\ Phase(m.path[p], v, m.ancEnabling = p, m.ancDisabling = p)
    BY <1>2, <1>6, <2>1
  <2>3. Good(m, NoPath, {}, {}) /\ NoStallOf(m)
    BY <1>1, <1>2, <1>6, <2>2, DrivenInv
  <2> QED BY <1>4, <1>12, <2>3 DEF Inv
<1>13. CASE MayRun(y) /\ ~IsAnc(x.cat)
  <2>1. Cat(n, p) = x.cat
    BY <1>5, <1>7 DEF Cat
  <2>2. a' = audio_path_schedule(Running(n, p))
    BY <1>4, <1>13, <2>1 DEF audio_path_wait_running_handler
  <2>3. /\ Sent(n, NoPath, p, "none")
        /\ Risen(n.path[p], "none", n.ancEnabling = p, n.ancDisabling = p)
    BY <1>2, <1>3, <1>6, <1>8, <1>10, <1>11, <1>13, NoPathAssumption DEF Sent
  <2>4. Good(a', NoPath, {}, {}) /\ NoStallOf(a')
    <3>1. NoPath \in {NoPath, p} /\ a.path[p].state = "READY" /\ "none" \in Mails
      BY <1>1, <1>10, <1>13
    <3> QED BY <1>2, <1>8, <2>2, <2>3, <3>1, RunningInv
  <2> QED BY <2>4 DEF Inv
<1>14. CASE MayRun(y) /\ IsAnc(x.cat)
  <2> DEFINE k == [n EXCEPT !.ancEnabling = p]
  <2>1. Cat(n, p) = x.cat
    BY <1>5, <1>7 DEF Cat
  <2>2. n.ancEnabling = NoPath
    <3>1. a.path[p].state = "READY" /\ a.ancEnabling # p
      BY <1>10, <1>14
    <3>2. a.ancEnabling = NoPath
      BY <3>1, EngineFree
    <3> QED BY <1>2, <1>6, <1>8, <3>2
  <2>3. a' = k
    BY <1>4, <1>14, <2>1, <2>2 DEF audio_path_wait_running_handler
  <2>4. /\ k \in State /\ k.list = n.list /\ k.path = n.path /\ k.msgs = n.msgs
        /\ k.stops = n.stops /\ k.starting = n.starting /\ k.missed = n.missed
        /\ k.power = n.power /\ k.ancEnabling = p /\ k.ancDisabling = n.ancDisabling
    BY <1>7 DEF State
  <2> HIDE DEF k
  <2>5. Driven(n, k, p)
    BY <2>2, <2>4, NoPathAssumption DEF Driven
  <2>6. Driven(a, k, p)
    BY <1>8, <2>5, DrivenTrans
  <2>7. Mail(k.msgs, p, "none")
    BY <1>3, <1>6, <1>8, <1>10, <1>14, <2>4
  <2>8. Phase(k.path[p], "none", k.ancEnabling = p, k.ancDisabling = p)
    <3>1. (k.ancEnabling = p) = TRUE /\ (k.ancDisabling = p) = d
      BY <1>2, <1>6, <1>8, <2>4
    <3> QED BY <1>10, <1>11, <1>14, <2>4, <3>1
  <2>9. Good(k, NoPath, {}, {}) /\ NoStallOf(k)
    BY <1>1, <1>2, <2>6, <2>7, <2>8, DrivenInv
  <2> QED BY <2>3, <2>9 DEF Inv
<1> QED BY <1>12, <1>13, <1>14

\* A path that has been taken down is at rest.
LEMMA RestsCore ==
  ASSUME NEW b \in State, NEW o, NEW p \in Paths, Listed(b), Steady(b), Mixes(b),
         \A q \in Paths \ {p} : Fits(b, o, q),
         Exists(b.path[p]), b.path[p].cat # "none", NEW v \in {"IDLE", "PENDING"},
         Sent(b, o, p, "none"),
         AtRest(b.path[p], "none", b.ancEnabling = p, b.ancDisabling = p)
  PROVE  LET c == Set(b, p, "state", v) IN
         /\ Core(c, o) /\ SameButPath(b, c, p)
         /\ c.path[p].state = v /\ c.path[p].user = b.path[p].user
         /\ c.path[p].cat = b.path[p].cat
<1> DEFINE c == Set(b, p, "state", v)
<1>1. b.path[p] \in PathRecord
  BY StateFields
<1>2. /\ c \in State /\ SameButPath(b, c, p) /\ c.path[p] = [b.path[p] EXCEPT !.state = v]
      /\ c.path[p].state = v /\ c.path[p].user = b.path[p].user
      /\ c.path[p].cat = b.path[p].cat
  <2>1. v \in PathStates
    BY DEF PathStates
  <2> QED BY <2>1, SetState
<1> HIDE DEF c
<1>3. Drivers(c.path[p]) = Drivers(b.path[p])
  BY <1>1, <1>2, UserOnly
<1>4. /\ c.list = b.list /\ c.msgs = b.msgs
      /\ c.ancEnabling = b.ancEnabling /\ c.ancDisabling = b.ancDisabling
      /\ \A q \in Paths \ {p} : c.path[q] = b.path[q]
  BY <1>2 DEF SameButPath, SameQueues
<1>5. Fits(c, o, p)
  <2> DEFINE e == b.ancEnabling = p
             d == b.ancDisabling = p
  <2>1. AtRest(b.path[p], "none", e, d)
    OBVIOUS
  <2> HIDE DEF e, d
  <2>2. AtRest(c.path[p], "none", e, d)
    BY <1>3, <2>1, PhaseSame
  <2>3. Phase(c.path[p], "none", e, d)
    BY <1>2, <2>2 DEF Phase
  <2>4. Sent(c, o, p, "none") /\ "none" \in Mails
    BY <1>4 DEF Sent, Mails
  <2>5. Exists(c.path[p])
    BY <1>2 DEF Exists
  <2> QED BY <1>4, <2>3, <2>4, <2>5 DEF Fits, e, d
<1>6. \A q \in Paths \ {p} : Fits(c, o, q)
  <2> TAKE q \in Paths \ {p}
  <2> QED BY <1>4, FitsSame
<1>7. Steady(c) /\ Mixes(c)
  <2>1. ~Busy(c.path[p]) /\ c.path[p].state \notin {"READY", "SUSPENDING", "STOPPING"}
        /\ c.path[p].cat = b.path[p].cat
    BY <1>2 DEF Busy
  <2>2. \A q \in Paths \ {p} : c.path[q] = b.path[q]
    BY <1>4
  <2> QED BY <2>1, <2>2, Lower
<1>8. Listed(c)
  <2>1. \A q \in Paths : c.path[q].cat = b.path[q].cat
    BY <1>2, <1>4
  <2> QED BY <1>4, <2>1 DEF Listed
<1>9. Core(c, o)
  BY <1>2, <1>5, <1>6, <1>7, <1>8 DEF Core
<1> QED BY <1>2, <1>9 DEF c

\* A path that is sent ANALOG_OFF holds nothing any more.
LEMMA RestedFirst ==
  ASSUME NEW x \in PathRecord, NEW e, NEW d, Phase(x, "ANALOG_OFF", e, d)
  PROVE  x.state \in {"SUSPENDING", "STOPPING"} /\ AtRest(x, "none", e, d)
<1>1. x.state \in {"SUSPENDING", "STOPPING"} /\ Falling(x, "ANALOG_OFF", e, d)
  BY DEF Phase, PathRecord, AtRest, Rising, Risen
<1> QED BY <1>1 DEF Falling, AtRest

\* The message ANALOG_OFF of p is handled: p is at rest, and the scheduler is called.
LEMMA AnalogOffInv ==
  ASSUME Inv, NEW p \in Paths, AnalogOff(p)
  PROVE  Inv'
<1> DEFINE x == a.path[p]
           r == Received
           e == a.ancEnabling = p
           d == a.ancDisabling = p
           m == Set(r, p, "state", "IDLE")
           n == Set(r, p, "state", "PENDING")
<1>1. "ANALOG_OFF" \in Occasions
  BY DEF Occasions
<1>2. /\ x \in PathRecord /\ x.cat # "none"
      /\ Driven(a, r, p) /\ r.path = a.path
      /\ r.ancEnabling = a.ancEnabling /\ r.ancDisabling = a.ancDisabling
      /\ Phase(x, "ANALOG_OFF", e, d) /\ NoMail(r.msgs, p)
  BY <1>1, ReceivedFacts DEF AnalogOff
<1>3. x.state \in {"SUSPENDING", "STOPPING"} /\ AtRest(x, "none", e, d)
  <2> HIDE DEF x, e, d
  <2> QED BY <1>2, RestedFirst
<1>4. a' = audio_path_schedule(IF x.state = "STOPPING" THEN ToldIdle(m, p) ELSE n)
  BY <1>3 DEF AnalogOff
<1> HIDE DEF r
<1>5. /\ r \in State /\ Listed(r) /\ Steady(r) /\ Mixes(r)
      /\ \A q \in Paths \ {p} : Fits(r, NoPath, q)
      /\ Exists(r.path[p]) /\ r.path[p].cat # "none"
      /\ Users(r, {}) /\ Starting(r) /\ Stops(r, {})
  <2>1. Good(a, NoPath, {}, {})
    BY DEF Inv
  <2> QED BY <1>2, <2>1, DrivenRest
<1>6. /\ Sent(r, NoPath, p, "none")
      /\ AtRest(r.path[p], "none", r.ancEnabling = p, r.ancDisabling = p)
  BY <1>2, <1>3, NoPathAssumption DEF Sent, Mail
<1>7. r.path[p].state = x.state
  BY <1>2
\* What is left to show of the path at rest, whichever state it goes to.
<1>8. ASSUME NEW k, SameButPath(r, k, p), k.path[p].state \in {"IDLE", "PENDING"}
      PROVE  /\ Starting(k) /\ k.stops = r.stops /\ k.starting = r.starting
             /\ \A q \in Paths \ {p} : k.path[q] = r.path[q]
             /\ \A q \in Paths : Waits(k, q) <=> Waits(r, q)
  <2>1. /\ k.stops = r.stops /\ k.starting = r.starting
        /\ \A q \in Paths \ {p} : k.path[q] = r.path[q]
    BY <1>8 DEF SameButPath, SameQueues
  <2>2. \A q \in Paths : Waits(k, q) <=> Waits(r, q)
    BY <2>1 DEF Waits
  <2>3. Starting(k)
    BY <1>3, <1>5, <1>7, <1>8, <2>1 DEF Starting
  <2> QED BY <2>1, <2>2, <2>3
<1>9. CASE x.state = "STOPPING"
  <2>1. /\ Core(m, NoPath) /\ SameButPath(r, m, p) /\ m.path[p].state = "IDLE"
        /\ m.path[p].cat # "none"
    BY <1>5, <1>6, RestsCore
  <2> HIDE DEF m
  <2>2. /\ Starting(m) /\ m.stops = r.stops /\ m.starting = r.starting
        /\ \A q \in Paths \ {p} : m.path[q] = r.path[q]
        /\ \A q \in Paths : Waits(m, q) <=> Waits(r, q)
    BY <1>8, <2>1
  <2>3. Users(m, {p})
    BY <1>5, <2>2 DEF Users
  <2>4. Stops(m, {})
    <3>1. ~Waits(r, p)
      BY <1>5, <1>7, <1>9 DEF Stops
    <3> QED BY <1>5, <2>2, <3>1 DEF Stops
  <2>5. Good(ToldIdle(m, p), NoPath, {}, {})
    <3>1. Good(m, NoPath, {p}, {})
      BY <2>1, <2>2, <2>3, <2>4 DEF Good
    <3> QED BY <2>1, <3>1, ToldIdleGood
  <2>6. Good(a', NoPath, {}, {}) /\ NoStallOf(a')
    BY <1>4, <1>9, <2>5, ScheduleGood
  <2> QED BY <2>6 DEF Inv
<1>10. CASE x.state = "SUSPENDING"
  <2>1. /\ Core(n, NoPath) /\ SameButPath(r, n, p) /\ n.path[p].state = "PENDING"
        /\ n.path[p].user = r.path[p].user
    BY <1>5, <1>6, RestsCore
  <2> HIDE DEF n
  <2>2. /\ Starting(n) /\ n.stops = r.stops /\ n.starting = r.starting
        /\ \A q \in Paths \ {p} : n.path[q] = r.path[q]
        /\ \A q \in Paths : Waits(n, q) <=> Waits(r, q)
    BY <1>8, <2>1
  <2>3. Users(n, {})
    BY <1>5, <1>7, <1>10, <2>1, <2>2 DEF Users
  <2>4. Stops(n, {})
    BY <1>5, <2>1, <2>2 DEF Stops
  <2>5. Good(n, NoPath, {}, {})
    BY <2>1, <2>2, <2>3, <2>4 DEF Good
  <2>6. Good(a', NoPath, {}, {}) /\ NoStallOf(a')
    BY <1>4, <1>10, <2>5, ScheduleGood
  <2> QED BY <2>6 DEF Inv
<1> QED BY <1>3, <1>9, <1>10

-----------------------------------------------------------------------------
(* What users do.                                                          *)

\* A user exists for a path that exists, and the other way round.
LEMMA UserFacts ==
  ASSUME Inv, NEW p \in Paths
  PROVE  /\ a.path[p].cat = "none" <=> a.path[p].user = "none"
         /\ a.path[p].user = "stopped" => a.path[p].state = "IDLE"
         /\ a.path[p].user \in {"starting", "started", "paused", "stopping"}
              => a.path[p].state # "IDLE"
<1>1. Exists(a.path[p])
  BY PathFacts
<1>2. Users(a, {})
  BY DEF Inv, Good
<1> QED BY <1>1, <1>2 DEF Exists, Absent, Users

\* What a user notes for later.
LEMMA ActionInv ==
  ASSUME Inv, NEW p \in Paths, a.path[p].user # "none", NEW v \in UserActions
  PROVE  LET c == Set(a, p, "action", v)
         IN  /\ Good(c, NoPath, {}, {}) /\ NoStallOf(c)
             /\ c.path[p].user = a.path[p].user
<1> DEFINE c == Set(a, p, "action", v)
<1>1. Core(a, NoPath) /\ Users(a, {}) /\ Stops(a, {}) /\ Starting(a) /\ NoStallOf(a)
  BY DEF Inv, Good
<1>2. Kept(a, c, NoPath, {}, p) /\ c.path[p].user = a.path[p].user
  BY <1>1, SetActionKept
<1> HIDE DEF c
<1>3. Good(c, NoPath, {}, {}) /\ NoStallOf(c)
  BY <1>1, <1>2 DEF Kept, Good
<1> QED BY <1>2, <1>3 DEF c

\* A path is created.
LEMMA CreateInv ==
  ASSUME Inv, NEW p \in Paths, Create(p)
  PROVE  Inv'
<1>1. PICK z \in Categories :
        /\ Cat(a, p) = "none"
        /\ a' = [a EXCEPT !.list = Append(@, p),
                          !.path[p] = [Absent EXCEPT !.cat = z, !.user = "stopped"]]
  BY DEF Create
<1> DEFINE x == a.path[p]
           y == [Absent EXCEPT !.cat = z, !.user = "stopped"]
           n == Append(a.list, p)
           N == Len(a.list)
           c == [a EXCEPT !.list = n, !.path[p] = y]
<1>2. /\ a \in State /\ Core(a, NoPath) /\ Listed(a) /\ Steady(a) /\ Mixes(a)
      /\ \A q \in Paths : Fits(a, NoPath, q)
      /\ Users(a, {}) /\ Starting(a) /\ Stops(a, {}) /\ NoStallOf(a)
  BY DEF Inv, Good, Core
<1>3. x = Absent /\ x.state = "IDLE" /\ x.user = "none"
  <2>1. x.cat = "none"
    BY <1>1 DEF Cat
  <2>2. x = Absent
    BY <1>2, <2>1 DEF Fits, Exists
  <2> QED BY <2>2 DEF Absent
<1>4. /\ y \in PathRecord /\ y.cat = z /\ z # "none" /\ y.state = "IDLE" /\ y.user = "stopped"
      /\ y.codec = "off" /\ y.dsp = "off" /\ ~y.plugin /\ ~y.waitCodec /\ ~y.waitRunning
  <2>1. z # "none"
    BY CategoriesAssumption DEF AllCategories
  <2> QED BY <2>1 DEF Absent, PathRecord
<1> HIDE DEF y
<1>5. /\ a.list \in Seq(Paths) /\ n \in Seq(Paths) /\ N \in Nat
      /\ DOMAIN a.list = 1..N /\ DOMAIN n = 1..(N + 1) /\ Len(n) = N + 1
      /\ n[N + 1] = p /\ \A i \in 1..N : n[i] = a.list[i]
  BY <1>2, StateFields, LenProperties, AppendProperties
<1> HIDE DEF n
<1>6. /\ c \in State /\ c.list = n /\ c.stops = a.stops /\ c.starting = a.starting
      /\ c.msgs = a.msgs /\ c.power = a.power /\ c.missed = a.missed
      /\ c.ancEnabling = a.ancEnabling /\ c.ancDisabling = a.ancDisabling
      /\ c.path[p] = y /\ \A q \in Paths \ {p} : c.path[q] = a.path[q]
  BY <1>2, <1>4, <1>5 DEF State
<1>7. a' = c
  BY <1>1 DEF y, n
<1> HIDE DEF c
<1>8. Listed(c)
  <2>1. \A i \in 1..N : a.list[i] # p
    BY <1>1, <1>2, <1>5 DEF Listed, Cat
  <2>2. \A i, j \in DOMAIN c.list : c.list[i] = c.list[j] => i = j
    <3>1. \A i, j \in 1..N : a.list[i] = a.list[j] => i = j
      BY <1>2, <1>5 DEF Listed
    <3>2. ASSUME NEW i \in 1..(N + 1), NEW j \in 1..(N + 1), n[i] = n[j] PROVE i = j
      <4>1. \A k \in 1..(N + 1) : k = N + 1 \/ (k \in 1..N /\ n[k] # p)
        <5> SUFFICES ASSUME NEW k \in 1..N PROVE n[k] # p
          BY <1>5
        <5> QED BY <1>5, <2>1
      <4>2. CASE i = N + 1 \/ j = N + 1
        BY <1>5, <3>2, <4>1, <4>2
      <4>3. CASE i \in 1..N /\ j \in 1..N
        BY <1>5, <3>1, <3>2, <4>3
      <4> QED BY <4>1, <4>2, <4>3
    <3> QED BY <1>5, <1>6, <3>2
  <2>3. ASSUME NEW q \in Paths
        PROVE  (\E i \in DOMAIN c.list : c.list[i] = q) <=> c.path[q].cat # "none"
    <3>1. CASE q = p
      <4>1. N + 1 \in DOMAIN c.list /\ c.list[N + 1] = q
        BY <1>5, <1>6, <3>1
      <4> QED BY <1>4, <1>6, <3>1, <4>1
    <3>2. CASE q # p
      <4>1. (\E i \in DOMAIN a.list : a.list[i] = q) <=> a.path[q].cat # "none"
        BY <1>2 DEF Listed
      <4>2. (\E i \in DOMAIN c.list : c.list[i] = q) <=> \E i \in DOMAIN a.list : a.list[i] = q
        BY <1>5, <1>6, <3>2
      <4> QED BY <1>6, <3>2, <4>1, <4>2
    <3> QED BY <3>1, <3>2
  <2> QED BY <2>2, <2>3 DEF Listed
<1>9. \A q \in Paths \ {p} : Fits(c, NoPath, q)
  <2> TAKE q \in Paths \ {p}
  <2>1. Fits(a, NoPath, q)
    BY <1>2
  <2> QED BY <1>6, <2>1, FitsSame
<1>10. Fits(c, NoPath, p)
  <2>1. PICK w \in Mails : Mail(a.msgs, p, w)
                           /\ Phase(x, w, a.ancEnabling = p, a.ancDisabling = p)
    BY PathFacts
  <2>2. w = "none" /\ a.ancEnabling # p /\ a.ancDisabling # p
    BY <1>3, <2>1 DEF Phase, AtRest
  <2>3. Phase(y, w, c.ancEnabling = p, c.ancDisabling = p)
    <3>1. AtRest(y, w, c.ancEnabling = p, c.ancDisabling = p)
      BY <1>4, <1>6, <2>2 DEF AtRest
    <3> QED BY <1>4, <3>1 DEF Phase
  <2>4. Sent(c, NoPath, p, w)
    BY <1>6, <2>1, NoPathAssumption DEF Sent
  <2>5. Exists(c.path[p])
    BY <1>4, <1>6 DEF Exists
  <2> QED BY <1>6, <2>3, <2>4, <2>5 DEF Fits
<1>11. Steady(c) /\ Mixes(c)
  <2>1. ~Busy(c.path[p]) /\ c.path[p].state = "IDLE"
    BY <1>4, <1>6 DEF Busy
  <2>2. Steady(c)
    BY <1>2, <1>6, <2>1 DEF Steady
  <2>3. Mixes(c)
    BY <1>2, <1>6, <2>1 DEF Mixes
  <2> QED BY <2>2, <2>3
<1>12. Core(c, NoPath)
  BY <1>6, <1>8, <1>9, <1>10, <1>11 DEF Core
<1>13. Users(c, {})
  BY <1>2, <1>4, <1>6 DEF Users
<1>14. Starting(c)
  BY <1>2, <1>3, <1>4, <1>6 DEF Starting
<1>15. Stops(c, {})
  <2>1. \A q \in Paths : Waits(c, q) <=> Waits(a, q)
    BY <1>6 DEF Waits
  <2>2. ~Waits(a, p)
    BY <1>2, <1>3 DEF Stops
  <2> QED BY <1>2, <1>6, <2>1, <2>2 DEF Stops
<1>16. audio_path_schedule_switch(c) = audio_path_schedule_switch(a)
  <2> DEFINE g == [k \in 0..(N + 1) |-> IF k = N + 1 THEN N ELSE k]
  <2>1. g \in [0..Len(c.list) -> 0..Len(a.list)] /\ g[0] = 0 /\ g[Len(c.list)] = Len(a.list)
    BY <1>5, <1>6
  <2>2. \A k \in 1..Len(c.list) :
          IF Pending(c, c.list[k])
          THEN g[k] = g[k - 1] + 1 /\ a.list[g[k]] = c.list[k]
          ELSE g[k] = g[k - 1] \/ (g[k] = g[k - 1] + 1 /\ ~Pending(a, a.list[g[k]]))
    <3> TAKE k \in 1..Len(c.list)
    <3>1. CASE k = N + 1
      <4>1. c.list[k] = p /\ ~Pending(c, p) /\ g[k] = N /\ g[k - 1] = N
        BY <1>4, <1>5, <1>6, <3>1 DEF Pending
      <4> QED BY <4>1
    <3>2. CASE k # N + 1
      <4>1. k \in 1..N /\ g[k] = k /\ g[k - 1] = k - 1 /\ c.list[k] = a.list[k]
            /\ a.list[k] \in Paths
        BY <1>5, <1>6, <3>2, ElementOfSeq
      <4>2. Pending(a, a.list[k]) => Pending(c, a.list[k])
        BY <1>3, <1>6, <4>1 DEF Pending
      <4> HIDE DEF g
      <4> QED BY <4>1, <4>2
    <3> QED BY <3>1, <3>2
  <2>3. \A q \in Paths : Pending(c, q) => Pending(a, q) /\ a.path[q].cat = c.path[q].cat
    BY <1>4, <1>6 DEF Pending
  <2>4. c.list \in Seq(Paths) /\ a.list \in Seq(Paths)
    BY <1>5, <1>6
  <2> HIDE DEF g
  <2> QED BY <2>1, <2>2, <2>3, <2>4, SwitchSame
<1>17. NoStallOf(c)
  <2>1. SameAwake(a, c)
    BY <1>3, <1>4, <1>6 DEF SameAwake
  <2> QED BY <1>2, <1>6, <1>12, <1>16, <2>1, NoStallKept
<1> QED BY <1>7, <1>12, <1>13, <1>14, <1>15, <1>17 DEF Inv, Good

\* A user starts its path.
LEMMA StartInv ==
  ASSUME Inv, NEW p \in Paths, Start(p)
  PROVE  Inv'
<1> DEFINE x == a.path[p]
<1>1. /\ Core(a, NoPath) /\ a \in State /\ x \in PathRecord
      /\ Users(a, {}) /\ Stops(a, {}) /\ Starting(a) /\ NoStallOf(a)
  BY StateFields DEF Inv, Good, Core
<1>2. CASE /\ x.user \in {"stopped", "paused"}
           /\ a' = audio_path_start(Set(a, p, "user", "starting"), p)
  <2> DEFINE m == Set(a, p, "user", "starting")
  <2>1. x.cat # "none" /\ x.user # "none"
    BY <1>2, UserFacts
  <2>2. CASE x.user = "stopped"
    <3>1. x.state = "IDLE"
      BY <2>2, UserFacts
    <3>2. /\ m \in State /\ SameButPath(a, m, p) /\ m.path[p] = [x EXCEPT !.user = "starting"]
          /\ m.path[p].user = "starting" /\ m.path[p].state = x.state
          /\ m.path[p].cat = x.cat
      <4>1. "starting" \in UserStates /\ a \in State
        BY <1>1 DEF UserStates
      <4> QED BY <4>1, SetUser
    <3>3. Drivers(m.path[p]) = Drivers(x)
      <4> HIDE DEF x, m
      <4> QED BY <1>1, <3>2, UserOnly
    <3> HIDE DEF m
    <3>4. Core(m, NoPath)
      <4>1. m \in State /\ SameButPath(a, m, p) /\ m.path[p].state = a.path[p].state
            /\ m.path[p].user # "none"
        BY <3>2
      <4> QED BY <1>1, <2>1, <3>3, <4>1, UserStep
    <3>5. /\ m.stops = a.stops /\ m.starting = a.starting
          /\ \A q \in Paths \ {p} : m.path[q] = a.path[q]
      BY <3>2 DEF SameButPath, SameQueues
    <3>6. Users(m, {p})
      BY <1>1, <3>5 DEF Users
    <3>7. Starting(m)
      BY <1>1, <3>2, <3>5 DEF Starting
    <3>8. Stops(m, {})
      <4>1. \A q \in Paths : Waits(m, q) <=> Waits(a, q)
        BY <3>5 DEF Waits
      <4>2. ~Waits(a, p)
        BY <1>1, <2>2 DEF Stops
      <4> QED BY <1>1, <3>5, <4>1, <4>2 DEF Stops
    <3>9. Good(a', NoPath, {}, {}) /\ NoStallOf(a')
      <4>1. Good(m, NoPath, {p}, {})
        BY <3>4, <3>6, <3>7, <3>8 DEF Good
      <4>2. m.path[p].cat # "none" /\ m.path[p].state = "IDLE"
            /\ m.path[p].user \notin {"none", "stopped"}
        BY <2>1, <3>1, <3>2
      <4>3. a' = audio_path_start(m, p)
        BY <1>2 DEF m
      <4> QED BY <4>1, <4>2, <4>3, StartGood
    <3> QED BY <3>9 DEF Inv
  <2>3. CASE x.user = "paused"
    <3>1. x.state # "IDLE"
      BY <2>3, UserFacts
    <3>2. ~Waits(a, p)
      BY <1>1, <2>3 DEF Stops
    <3>3. Kept(a, m, NoPath, {}, p)
      BY <1>1, <2>3, <3>2, SetUserKept DEF UserStates
    <3> HIDE DEF m
    <3>4. a' = m
      BY <1>2, <3>1, <3>3 DEF audio_path_start, Kept, m
    <3> QED BY <1>1, <3>3, <3>4 DEF Inv, Good, Kept
  <2> QED BY <1>2, <2>2, <2>3
<1>3. CASE x.user \in {"stopping", "starting"} /\ \E v \in UserActions : a' = Set(a, p, "action", v)
  BY <1>3, ActionInv DEF Inv
<1>4. \/ x.user \in {"stopped", "paused"} /\ a' = audio_path_start(Set(a, p, "user", "starting"), p)
      \/ x.user \in {"stopping", "starting"} /\ \E v \in UserActions : a' = Set(a, p, "action", v)
  BY DEF Start, UserActions
<1> QED BY <1>2, <1>3, <1>4

\* A user stops its path.
LEMMA StopInv ==
  ASSUME Inv, NEW p \in Paths, Stop(p)
  PROVE  Inv'
<1> DEFINE x == a.path[p]
<1>1. CASE x.user \in {"started", "paused", "starting"} /\ a' = UserStops(a, p)
  <2>1. Good(a', NoPath, {}, {}) /\ NoStallOf(a')
    BY <1>1, UserStopsGood DEF Inv
  <2> QED BY <2>1 DEF Inv
<1>2. CASE x.user \in {"stopping", "starting"} /\ \E v \in UserActions : a' = Set(a, p, "action", v)
  BY <1>2, ActionInv DEF Inv
<1>3. \/ x.user \in {"started", "paused", "starting"} /\ a' = UserStops(a, p)
      \/ x.user \in {"stopping", "starting"} /\ \E v \in UserActions : a' = Set(a, p, "action", v)
  BY DEF Stop, UserActions
<1> QED BY <1>1, <1>2, <1>3

\* A user releases its path.
LEMMA ReleaseInv ==
  ASSUME Inv, NEW p \in Paths, Release(p)
  PROVE  Inv'
<1> DEFINE x == a.path[p]
<1>1. /\ Core(a, NoPath) /\ Users(a, {}) /\ Stops(a, {}) /\ Starting(a) /\ NoStallOf(a)
  BY DEF Inv, Good
<1>2. CASE x.cat # "none" /\ x.user = "stopped" /\ a' = audio_path_destroy(a, p)
  <2> DEFINE c == audio_path_destroy(a, p)
  <2>1. x.state = "IDLE"
    BY <1>2, UserFacts
  <2>2. /\ Core(c, NoPath) /\ c.stops = a.stops /\ c.starting = a.starting
        /\ c.power = a.power /\ c.missed = a.missed
        /\ c.path[p] = Absent /\ \A q \in Paths \ {p} : c.path[q] = a.path[q]
        /\ audio_path_schedule_switch(c) = audio_path_schedule_switch(a)
    BY <1>1, <1>2, <2>1, DestroyCore
  <2> HIDE DEF c
  <2>3. c.path[p].state = "IDLE" /\ c.path[p].user = "none"
    BY <2>2 DEF Absent
  <2>4. Users(c, {})
    BY <1>1, <2>2, <2>3 DEF Users
  <2>5. Starting(c)
    BY <1>1, <2>1, <2>2, <2>3 DEF Starting
  <2>6. Stops(c, {})
    <3>1. \A q \in Paths : Waits(c, q) <=> Waits(a, q)
      BY <2>2 DEF Waits
    <3>2. ~Waits(a, p)
      BY <1>1, <1>2 DEF Stops
    <3> QED BY <1>1, <2>2, <3>1, <3>2 DEF Stops
  <2>7. NoStallOf(c)
    <3>1. SameAwake(a, c)
      BY <2>1, <2>2, <2>3 DEF SameAwake
    <3> QED BY <1>1, <2>2, <3>1, NoStallKept
  <2> QED BY <1>2, <2>2, <2>4, <2>5, <2>6, <2>7 DEF Inv, Good, c
<1>3. CASE /\ x.user \in {"started", "paused"}
           /\ a' = UserStops(Set(a, p, "action", "release"), p)
  <2> DEFINE m == Set(a, p, "action", "release")
  <2>1. Good(m, NoPath, {}, {}) /\ NoStallOf(m) /\ m.path[p].user = x.user
    BY <1>3, ActionInv DEF UserActions
  <2> HIDE DEF m
  <2>2. Good(a', NoPath, {}, {}) /\ NoStallOf(a')
    <3>1. m.path[p].user \notin {"none", "stopped", "stopping"} /\ a' = UserStops(m, p)
      BY <1>3, <2>1 DEF m
    <3> QED BY <2>1, <3>1, UserStopsGood
  <2> QED BY <2>2 DEF Inv
<1>4. CASE x.user \in {"stopping", "starting"} /\ \E v \in UserActions : a' = Set(a, p, "action", v)
  BY <1>4, ActionInv DEF Inv
<1>5. \/ x.cat # "none" /\ x.user = "stopped" /\ a' = audio_path_destroy(a, p)
      \/ x.user \in {"started", "paused"} /\ a' = UserStops(Set(a, p, "action", "release"), p)
      \/ x.user \in {"stopping", "starting"} /\ \E v \in UserActions : a' = Set(a, p, "action", v)
  BY DEF Release, UserActions
<1> QED BY <1>2, <1>3, <1>4, <1>5

\* The DSP is powered on or off.
LEMMA PowerInv ==
  ASSUME Inv, DspPoweredOn \/ DspPowersDown \/ DspPoweredOff
  PROVE  Inv'
<1>1. a \in State /\ Good(a, NoPath, {}, {}) /\ NoStallOf(a)
  BY DEF Inv, Good, Core
<1>2. ASSUME NEW v \in {"off", "booting", "on", "closing"}
      PROVE  LET m == [a EXCEPT !.power = v]
             IN  Good(m, NoPath, {}, {}) /\ (a.power = "on" => NoStallOf(m))
  <2> DEFINE m == [a EXCEPT !.power = v]
  <2>1. /\ m \in State /\ SameQueues(a, m) /\ m.path = a.path /\ m.starting = a.starting
        /\ m.missed = a.missed
    BY <1>1 DEF State, SameQueues
  <2> HIDE DEF m
  <2>2. Good(m, NoPath, {}, {})
    BY <1>1, <2>1, SamePaths
  <2>3. a.power = "on" => NoStallOf(m)
    <3>1. SameAwake(a, m) /\ m.list = a.list
      BY <2>1 DEF SameAwake, SameQueues
    <3>2. audio_path_schedule_switch(m) = audio_path_schedule_switch(a)
      BY <1>1, <2>1, <3>1, SwitchKept
    <3> QED BY <1>1, <2>1, <2>2, <3>1, <3>2, NoStallKept DEF Good
  <2> QED BY <2>2, <2>3 DEF m
<1>3. CASE DspPoweredOn
  <2>1. Good([a EXCEPT !.power = "on"], NoPath, {}, {})
    BY <1>2
  <2>2. a' = audio_path_schedule([a EXCEPT !.power = "on"])
    BY <1>3 DEF DspPoweredOn
  <2>3. Good(a', NoPath, {}, {}) /\ NoStallOf(a')
    BY <2>1, <2>2, ScheduleGood
  <2> QED BY <2>3 DEF Inv
<1>4. CASE DspPoweredOff
  <2>1. Good([a EXCEPT !.power = "off"], NoPath, {}, {})
    BY <1>2
  <2>2. a' = audio_path_schedule([a EXCEPT !.power = "off"])
    BY <1>4 DEF DspPoweredOff
  <2>3. Good(a', NoPath, {}, {}) /\ NoStallOf(a')
    BY <2>1, <2>2, ScheduleGood
  <2> QED BY <2>3 DEF Inv
<1>5. CASE DspPowersDown
  <2>1. Good([a EXCEPT !.power = "closing"], NoPath, {}, {})
        /\ NoStallOf([a EXCEPT !.power = "closing"])
    BY <1>2, <1>5 DEF DspPowersDown
  <2>2. a' = [a EXCEPT !.power = "closing"]
    BY <1>5 DEF DspPowersDown
  <2> QED BY <2>1, <2>2 DEF Inv
<1> QED BY <1>3, <1>4, <1>5

-----------------------------------------------------------------------------
(* The inductive invariant, and what follows from it.                      *)

\* At the beginning there is no path.
LEMMA InitInv ==
  ASSUME Init
  PROVE  Inv
<1>1. Absent \in PathRecord
  BY DEF Absent, PathRecord
<1>2. a \in State
  <2>1. <<>> \in Seq(Paths) /\ <<>> \in Seq(Messages)
    BY EmptySeq
  <2> QED BY <1>1, <2>1 DEF Init, State
<1>3. /\ a.list = <<>> /\ a.stops = <<>> /\ a.msgs = <<>> /\ a.starting = FALSE
      /\ a.ancEnabling = NoPath /\ a.ancDisabling = NoPath
      /\ \A p \in Paths : a.path[p] = Absent
  BY DEF Init
<1>4. /\ Absent.state = "IDLE" /\ Absent.cat = "none" /\ Absent.user = "none"
      /\ AtRest(Absent, "none", FALSE, FALSE)
  BY DEF Absent, AtRest
<1>5. Listed(a)
  BY <1>3, <1>4 DEF Listed
<1>6. \A p \in Paths : Fits(a, NoPath, p)
  <2> TAKE p \in Paths
  <2>1. (a.ancEnabling = p) = FALSE /\ (a.ancDisabling = p) = FALSE /\ p # NoPath
    BY <1>3, NoPathAssumption
  <2>2. Sent(a, NoPath, p, "none") /\ "none" \in Mails
    BY <1>3, <2>1 DEF Sent, Mail, NoMail, Mails
  <2>3. Phase(Absent, "none", FALSE, FALSE)
    BY <1>4 DEF Phase
  <2>4. Exists(a.path[p])
    <3>1. Exists(Absent)
      BY <1>4 DEF Exists
    <3> QED BY <1>3, <3>1
  <2> QED BY <1>3, <2>1, <2>2, <2>3, <2>4 DEF Fits
<1>7. Steady(a) /\ Mixes(a)
  BY <1>3, <1>4 DEF Steady, Mixes, Busy
<1>8. Users(a, {}) /\ Starting(a) /\ Stops(a, {})
  BY <1>3, <1>4 DEF Users, Starting, Stops, Waits
<1>9. NoStallOf(a)
  BY <1>3, <1>4 DEF NoStallOf, InState
<1> QED BY <1>2, <1>5, <1>6, <1>7, <1>8, <1>9 DEF Inv, Good, Core

\* Every handler keeps the invariant.
LEMMA NextInv ==
  ASSUME Inv, [Next]_vars
  PROVE  Inv'
<1>1. ASSUME NEW p \in Paths, Create(p) PROVE Inv'
  BY <1>1, CreateInv
<1>2. ASSUME NEW p \in Paths, Start(p) PROVE Inv'
  BY <1>2, StartInv
<1>3. ASSUME NEW p \in Paths, Stop(p) PROVE Inv'
  BY <1>3, StopInv
<1>4. ASSUME NEW p \in Paths, Release(p) PROVE Inv'
  BY <1>4, ReleaseInv
<1>5. ASSUME NEW p \in Paths, Driver(p) PROVE Inv'
  BY <1>5, PrepareReadyInv, SessionStartedInv, SessionStoppedInv, CodecEnabledInv,
     CodecDisabledInv, AncEnabledInv, AncDisabledInv DEF Driver
<1>6. ASSUME audio_path_msg_handler PROVE Inv'
  BY <1>6, AnalogOnInv, DigitalOnInv, DigitalOffInv, AnalogOffInv DEF audio_path_msg_handler
<1>7. ASSUME DspPoweredOn \/ DspPowersDown \/ DspPoweredOff PROVE Inv'
  BY <1>7, PowerInv
<1>8. ASSUME UNCHANGED vars PROVE Inv'
  BY <1>8 DEF vars, Inv
<1> QED BY <1>1, <1>2, <1>3, <1>4, <1>5, <1>6, <1>7, <1>8 DEF Next

\* The scheduler's inductive invariant holds between any two handlers.
THEOREM Invariance == Spec => []Inv
<1>1. Init => Inv
  BY InitInv
<1>2. Inv /\ [Next]_vars => Inv'
  BY NextInv
<1> QED BY <1>1, <1>2, PTL DEF Spec

\* The state stays well formed, and the list of audio_path_db holds exactly
\* the paths that audio_path_create has returned and audio_path_destroy has
\* not freed, once each.
THEOREM Typed == Spec => []TypeOK
<1>1. Inv => TypeOK
  <2> SUFFICES ASSUME Inv PROVE TypeOK
    OBVIOUS
  <2>1. a \in State /\ Listed(a)
    BY DEF Inv, Good, Core
  <2>2. IsInjective(a.list)
    BY <2>1 DEF Listed, IsInjective
  <2>3. ToSet(a.list) = {p \in Paths : a.path[p].cat # "none"}
    <3>1. a.list \in Seq(Paths) /\ \A i \in DOMAIN a.list : a.list[i] \in Paths
      BY <2>1, StateFields, ElementOfSeq, LenProperties
    <3> QED BY <2>1, <3>1 DEF ToSet, Listed
  <2>4. a.msgs \in Seq([path : Paths, occasion : {"ANALOG_ON", "ANALOG_OFF",
                                                 "DIGITAL_ON", "DIGITAL_OFF"}])
    BY <2>1, StateFields DEF Messages, Occasions
  <2> QED BY <2>1, <2>2, <2>3, <2>4, StateFields DEF TypeOK
<1> QED BY <1>1, Invariance, PTL

\* audio_path_is_mixable and the suspensions of audio_path_suspend are enough:
\* no two paths that hold drivers exclude each other both ways.
THEOREM ClashFree == Spec => []NoClash
<1>1. Inv => NoClash
  BY DEF Inv, Good, Core, Mixes, Busy, NoClash, Active, Cat
<1> QED BY <1>1, Invariance, PTL

\* audio_path_schedule brings up one path at a time, and none while another
\* is taken down.
THEOREM OneAtATime == Spec => []OneTransition
<1>1. Inv => OneTransition
  <2> SUFFICES ASSUME Inv PROVE OneTransition
    OBVIOUS
  <2>1. Core(a, NoPath) /\ Steady(a)
    BY DEF Inv, Good, Core
  <2>2. InState(a, "READY") = {p \in Paths : a.path[p].state = "READY"}
    BY <2>1, InStateFacts
  <2>3. Cardinality(InState(a, "READY")) <= 1
    <3>1. CASE InState(a, "READY") = {}
      BY <3>1, FS_EmptySet
    <3>2. CASE InState(a, "READY") # {}
      <4>1. PICK p \in InState(a, "READY") : TRUE
        BY <3>2
      <4>2. InState(a, "READY") = {p}
        BY <2>1, <2>2, <4>1 DEF Steady
      <4> QED BY <4>2, FS_Singleton
    <3> QED BY <3>1, <3>2
  <2>4. audio_path_starting_check(a) =>
          InState(a, "STOPPING") \cup InState(a, "SUSPENDING") = {}
    <3>1. InState(a, "STOPPING") = {p \in Paths : a.path[p].state = "STOPPING"}
      BY <2>1, InStateFacts
    <3>2. InState(a, "SUSPENDING") = {p \in Paths : a.path[p].state = "SUSPENDING"}
      BY <2>1, InStateFacts
    <3> QED BY <2>1, <2>2, <3>1, <3>2 DEF audio_path_starting_check, Steady
  <2> QED BY <2>3, <2>4 DEF OneTransition
<1> QED BY <1>1, Invariance, PTL

\* The flag PATH_STARTING tells the truth, and the stops that wait for it
\* are of paths whose user still wants them stopped.
THEOREM StopsKept == Spec => []StopsWaitForStart
<1>1. Inv => StopsWaitForStart
  <2> SUFFICES ASSUME Inv PROVE StopsWaitForStart
    OBVIOUS
  <2>1. a \in State /\ Core(a, NoPath) /\ Starting(a) /\ Stops(a, {})
    BY DEF Inv, Good, Core
  <2>2. a.starting <=> audio_path_starting_check(a)
    <3>1. a.starting \in BOOLEAN
      BY <2>1, StateFields
    <3> QED BY <2>1, <3>1, StableFacts DEF Starting
  <2>3. \A i \in DOMAIN a.stops : a.path[a.stops[i]].user = "stopping"
    <3>1. \A i \in DOMAIN a.stops : a.stops[i] \in Paths
      BY <2>1, StateFields, ElementOfSeq, LenProperties
    <3> QED BY <2>1, <3>1 DEF Stops, Waits
  <2> QED BY <2>1, <2>2, <2>3 DEF StopsWaitForStart, Stops
<1> QED BY <1>1, Invariance, PTL

\* A path that may be started or destroyed holds no driver and no flag, and
\* no message of it is under way in the task's queue.
THEOREM RestHoldsNothing == Spec => []AtRestHoldsNothing
<1>1. Inv => AtRestHoldsNothing
  <2> SUFFICES ASSUME Inv, NEW p \in Paths, a.path[p].state \in {"IDLE", "PENDING"}
               PROVE  /\ a.path[p].codec = "off" /\ a.path[p].dsp = "off"
                      /\ ~a.path[p].plugin /\ ~a.path[p].waitCodec /\ ~a.path[p].waitRunning
                      /\ p \notin {a.ancEnabling, a.ancDisabling}
                      /\ \A i \in DOMAIN a.msgs : a.msgs[i].path # p
    BY DEF AtRestHoldsNothing
  <2>1. PICK w \in Mails : /\ Mail(a.msgs, p, w)
                           /\ Phase(a.path[p], w, a.ancEnabling = p, a.ancDisabling = p)
    BY PathFacts
  <2>2. AtRest(a.path[p], w, a.ancEnabling = p, a.ancDisabling = p)
    BY <2>1 DEF Phase
  <2>3. NoMail(a.msgs, p)
    BY <2>1, <2>2 DEF AtRest, Mail, Occasions
  <2> QED BY <2>2, <2>3 DEF AtRest, NoMail
<1> QED BY <1>1, Invariance, PTL

\* Each request to dsp_mgr finds its session in the state it is made for.
THEOREM DspMoves == Spec => []DspNeverStuck
<1>1. Inv => DspNeverStuck
  <2> SUFFICES ASSUME Inv, NEW p \in Paths PROVE a.path[p].dsp # "stuck"
    BY DEF DspNeverStuck
  <2> DEFINE x == a.path[p]
             e == a.ancEnabling = p
             d == a.ancDisabling = p
  <2>1. x \in PathRecord
    BY PathFacts
  <2>2. PICK w \in Mails : Phase(x, w, e, d)
    BY PathFacts
  <2> HIDE DEF x, e, d
  <2>3. \/ AtRest(x, w, e, d) \/ Rising(x, w, e, d)
        \/ Risen(x, w, e, d) \/ Falling(x, w, e, d)
    BY <2>1, <2>2 DEF Phase, PathRecord
  <2>4. x.dsp # "stuck"
    BY <2>3 DEF AtRest, Rising, Risen, Falling
  <2> QED BY <2>4 DEF x
<1> QED BY <1>1, Invariance, PTL

\* A pending path waits for something that calls audio_path_schedule, or it
\* was made first in turn by the stop of another pending path.
THEOREM StallFree == Spec => []NoStall
<1>1. Inv => NoStall
  <2> SUFFICES ASSUME Inv, InState(a, "PENDING") # {}, Active = InState(a, "RUNNING")
               PROVE  LET p == audio_path_schedule_switch(a)
                      IN \/ a.missed
                         \/ "dsp" \in Domains(Cat(a, p)) /\ a.power \in {"booting", "closing"}
                         \/ ~audio_path_is_mixable(a, p) /\ Yielding(a, p) = {}
    BY DEF NoStall
  <2>1. \A p \in Paths : ~Busy(a.path[p]) \/ a.path[p].state = "RUNNING"
    BY DEF Active, Busy, InState
  <2> QED BY <2>1 DEF Inv, NoStallOf
<1> QED BY <1>1, Invariance, PTL

=============================================================================
