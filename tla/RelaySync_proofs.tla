-------------------------- MODULE RelaySync_proofs --------------------------
(***************************************************************************)
(* Proofs about the appointment of a synchronous message.  The first part  *)
(* is arithmetic of a clock that wraps around.  The second is about one    *)
(* message: what a new appointment is (Stamped), and what the receiver     *)
(* makes of it at any later time (Judge).  The third puts the steps        *)
(* together.                                                               *)
(***************************************************************************)
EXTENDS RelaySync, TLAPS, SequenceTheorems

-----------------------------------------------------------------------------
(* A clock that wraps around.                                              *)

\* The remainder of a division, and the turns of the clock it leaves out.
LEMMA Quotient == ASSUME NEW a \in Int, NEW c \in Nat, c > 0
  PROVE  (\E q \in Int : a = q * c + (a % c)) /\ a % c \in 0..(c - 1)
OBVIOUS
\* Whole turns do not show.
TurnsHide(a, k, c) == (a + k * c) % c = a % c

LEMMA Turns ==
  ASSUME NEW a \in Int, NEW c \in Nat, c > 0, NEW k \in Int
  PROVE  TurnsHide(a, k, c)
<1> DEFINE b == a + k * c
<1>0. b \in Int
  OBVIOUS
<1>1. PICK q \in Int : a = q * c + (a % c)
  BY Quotient
<1>2. PICK p \in Int : b = p * c + (b % c)
  BY <1>0, Quotient
<1>3. a % c \in 0..(c-1) /\ b % c \in 0..(c-1)
  BY <1>0, Quotient
<1> DEFINE r == a % c
           s == b % c
<1>4. r \in 0..(c-1) /\ s \in 0..(c-1) /\ a = q * c + r /\ b = p * c + s
  BY <1>1, <1>2, <1>3
<1>5. b = a + k * c
  OBVIOUS
<1> HIDE DEF r, s, b
<1>6. (q + k - p) * c = s - r
  BY <1>4, <1>5
<1> DEFINE d == q + k - p
<1>7. d \in Int /\ d * c = s - r
  BY <1>6
<1> HIDE DEF d
<1>8. ~(d >= 1)
  <2> SUFFICES ASSUME d >= 1 PROVE FALSE
    OBVIOUS
  <2>1. d * c >= c
    BY <1>7
  <2> QED BY <1>4, <1>7, <2>1
<1>9. ~(d <= -1)
  <2> SUFFICES ASSUME d <= -1 PROVE FALSE
    OBVIOUS
  <2>1. d * c <= -c
    BY <1>7
  <2> QED BY <1>4, <1>7, <2>1
<1>10. d = 0
  BY <1>7, <1>8, <1>9
<1>11. r = s
  BY <1>4, <1>7, <1>10
<1> QED BY <1>11 DEF r, s, b, TurnsHide

\* How far two readings are apart does not depend on the turns in them.
LEMMA Apart ==
  ASSUME NEW s \in Int, NEW x \in Int, NEW y \in Int, NEW c \in Nat, c > 0, s % c = x % c
  PROVE  (s - (y % c)) % c = (x - y) % c
<1>1. PICK p \in Int : s = p * c + (s % c)
  BY Quotient
<1>2. PICK q \in Int : x = q * c + (x % c)
  BY Quotient
<1>3. PICK r \in Int : y = r * c + (y % c)
  BY Quotient
<1> DEFINE m == x % c
           n == y % c
<1>4. m \in Int /\ n \in Int
  BY Quotient
<1>5. s = p * c + m /\ x = q * c + m /\ y = r * c + n
  BY <1>1, <1>2, <1>3
<1> HIDE DEF m, n
<1>6. s - n = (x - y) + (p + r - q) * c
  BY <1>4, <1>5
<1>7. ((x - y) + (p + r - q) * c) % c = (x - y) % c
  <2>1. x - y \in Int /\ p + r - q \in Int
    OBVIOUS
  <2>2. TurnsHide(x - y, p + r - q, c)
    BY <2>1, Turns
  <2> QED BY <2>2 DEF TurnsHide
<1> QED BY <1>6, <1>7 DEF n

-----------------------------------------------------------------------------
(* The assumptions.                                                        *)

\* What a message may be given for its duration: its period, as far as it fits
\* the field, or MinLead.
Durations == {p % DurMod : p \in Periods} \cup {MinLead}

\* How far the clock of the second piconet is ahead of the clock of the first.
Gap(of, by) == (Shift(by) - Shift(of)) % ClkMod

\* The clocks a receiver can mistake for each other: a phone's, and that of the
\* other phone or of the buds, which may be read in its place.
Mistakable == {c \in Phones \X Piconets : c[1] # c[2]}

\* Durations are less than half a turn of the clock and than what the clocks are
\* apart, and no message lives long enough to meet another clock.
ClocksApart ==
    /\ MinLead < DurMod
    /\ \A d \in Durations : d < Half
    /\ \A c \in Mistakable : /\ \A d \in Durations : d < Gap(c[1], c[2])
                            /\ Horizon + Gap(c[1], c[2]) < ClkMod

\* Besides, the periods fit the field, and half a turn is longer than a message
\* lives.
PeriodsFit ==
    /\ \A p \in Periods : p < DurMod
    /\ 2 * Horizon <= ClkMod

-----------------------------------------------------------------------------
(* The inductive invariant.                                                *)

\* A duration a message may come to: stamping never makes it longer.
Lead == {d \in Nat : d < DurMod /\ d < Half /\ \A c \in Mistakable : d < Gap(c[1], c[2])}

Base(of) == start + Shift(of)

\* What a read of a clock can return.
Answers == {Found("SNIFFING", p) : p \in Phones} \cup {Found("CTRL", "buds"), Failed}

Messages ==
    [id : Ids, ref : Refs, slot : Int, dur : Lead, of : Piconets \cup {"none"},
     asked : Nat, sent : Int, kept : BOOLEAN, refused : BOOLEAN]

Results ==
    [status : {"none", "armed", "expired", "ref_changed"}, arrived : Int, at : Int,
     wraps : BOOLEAN, foreign : BOOLEAN, refused : BOOLEAN]

Types ==
    /\ start \in 0..(ClkMod - 1)
    /\ now \in 0..Horizon
    /\ queue \in Seq(Messages)
    /\ chan \in Seq(Messages)
    /\ sender \in [Ids -> Int]
    /\ outcome \in [Ids -> Results]

\* Each message waits once, and has not been sent.
Unsent ==
    /\ \A j \in DOMAIN queue : sender[queue[j].id] = Unset
    /\ \A j, k \in DOMAIN queue : queue[j].id = queue[k].id => j = k

\* The appointment of a message that was sent: dur slots after it was sent, by the
\* clock it was made in; the sender keeps it unless it could read no clock.
Appointed(m, t, timer) ==
    /\ m.sent \in 0..t
    /\ Found(m.ref, m.of) \in Answers
    /\ m.of \in Piconets => m.slot = ((Base(m.of) + m.sent) % ClkMod) + m.dur
    /\ timer = IF m.of = "none" \/ m.refused THEN m.sent ELSE m.sent + m.dur

Sent == \A j \in DOMAIN chan : Appointed(chan[j], now, sender[chan[j].id])

\* What was received has been sent.
Received == \A i \in Ids : outcome[i].status # "none" => sender[i] # Unset

Inv == Types /\ Unsent /\ Sent /\ Received /\ SameInstant /\ ExpiredOnlyForACause

\* A message that waits, and whose clock never changed, has an appointment in some
\* slot a: the one asked for, or a later one that was made when that had passed.
Due(m, a) ==
    /\ m.slot % ClkMod = (Base(m.of) + a) % ClkMod
    /\ a <= now + m.dur
    /\ a = m.asked \/ (m.asked <= a /\ a <= now + MinLead)

Awaited(m) ==
    m.kept => /\ m.of \in Piconets /\ Found(m.ref, m.of) \in Answers
              /\ \E a \in Nat : Due(m, a)

InTime(m) ==
    m.kept => /\ m.of \in Piconets
              /\ m.sent + m.dur = IF m.asked >= m.sent + MinLead THEN m.asked ELSE m.sent + MinLead

Timely == /\ \A j \in DOMAIN queue : Awaited(queue[j])
          /\ \A j \in DOMAIN chan : InTime(chan[j])

-----------------------------------------------------------------------------
(* One message.                                                            *)

\* Half, as the code has it, is one less than half a turn, rounded down.
LEMMA HalfTurn == Half \in Int /\ 2 * Half <= ClkMod - 2 /\ 2 * Half + 4 > ClkMod
<1>1. ClkMod \in Nat /\ ClkMod > 0
  BY RelaySyncAssumption
<1> DEFINE h == ClkMod \div 2
<1>2. h \in Int /\ 2 * h <= ClkMod /\ 2 * h + 2 > ClkMod
  BY <1>1
<1> HIDE DEF h
<1> QED BY <1>1, <1>2 DEF Half, h

\* 0 is a duration, so that half a turn and the distance of the clocks are not 0.
LEMMA LeadFacts ==
    ASSUME ClocksApart
    PROVE  /\ MinLead \in Lead
           /\ \A p \in Periods : p % DurMod \in Lead
           /\ \A d \in Lead : d \in Nat /\ d < ClkMod /\ d < DurMod /\ d < Half
           /\ \A d \in Lead, c \in Mistakable : d < Gap(c[1], c[2])
           /\ \A d \in Lead, e \in Nat : e <= d => e \in Lead
<1>1. ClkMod \in Nat /\ DurMod \in Nat /\ DurMod > 0 /\ MinLead \in Nat /\ Periods \subseteq Nat
  BY RelaySyncAssumption
<1>2. Half \in Int /\ 2 * Half <= ClkMod - 2
  BY HalfTurn
<1>3. \A c \in Mistakable : Gap(c[1], c[2]) \in Int
  <2>1. \A of \in Phones \cup Piconets : Shift(of) \in Nat
    BY RelaySyncAssumption DEF Shift, Phones, Piconets
  <2> SUFFICES ASSUME NEW c \in Mistakable PROVE Gap(c[1], c[2]) \in Int
    OBVIOUS
  <2>2. Shift(c[2]) - Shift(c[1]) \in Int
    BY <2>1 DEF Mistakable
  <2> QED BY <1>1, <1>2, <2>2, HalfTurn, RelaySyncAssumption, Quotient DEF Gap
<1> HIDE DEF Half
<1>4. MinLead \in Lead
  BY <1>1 DEF ClocksApart, Durations, Lead
<1>5. ASSUME NEW p \in Periods PROVE p % DurMod \in Lead
  <2>1. p % DurMod \in 0..(DurMod - 1)
    BY <1>1, Quotient
  <2>2. p % DurMod \in Durations
    BY DEF Durations
  <2> QED BY <1>1, <2>1, <2>2 DEF ClocksApart, Lead
<1>6. ASSUME NEW d \in Lead PROVE d \in Nat /\ d < ClkMod /\ d < DurMod /\ d < Half
  BY <1>1, <1>2 DEF Lead
<1>7. ASSUME NEW d \in Lead, NEW e \in Nat, e <= d PROVE e \in Lead
  <2>1. d \in Nat /\ e < DurMod /\ e < Half
    BY <1>1, <1>2, <1>7 DEF Lead
  <2>2. ASSUME NEW c \in Mistakable PROVE e < Gap(c[1], c[2])
    BY <1>3, <1>7, <2>1 DEF Lead
  <2> QED BY <2>1, <2>2 DEF Lead
<1>8. \A d \in Lead, c \in Mistakable : d < Gap(c[1], c[2])
  BY DEF Lead
<1> QED BY <1>4, <1>5, <1>6, <1>7, <1>8

\* The clock of every piconet is the time since its own start, in one turn.
LEMMA ClockReads ==
    ASSUME Types, NEW of \in Piconets
    PROVE  /\ Base(of) \in Nat /\ Shift(of) \in Nat /\ now \in Nat
           /\ Time(of) = (Base(of) + now) % ClkMod
<1>1. start \in Nat /\ now \in Nat
  BY RelaySyncAssumption DEF Types
<1>2. Shift(of) \in Nat
  BY RelaySyncAssumption DEF Shift, Piconets, Phones
<1>3. Time(of) = (start + now + Shift(of)) % ClkMod
  BY DEF Time
<1> DEFINE b == Shift(of)
<1>4. b \in Nat
  BY <1>2
<1> HIDE DEF b
<1>5. start + now + b = (start + b) + now /\ start + b \in Nat
  BY <1>1, <1>4
<1> QED BY <1>1, <1>2, <1>3, <1>5 DEF b, Base

\* Whatever is read is a number within the range of the clock.
LEMMA TimeRange ==
    ASSUME Types, NEW of
    PROVE  Time(of) \in 0..(ClkMod - 1)
<1>1. ClkMod \in Nat /\ ClkMod > 0
  BY RelaySyncAssumption
<1>2. CASE of \in Piconets
  <2>1. Base(of) + now \in Int /\ Time(of) = (Base(of) + now) % ClkMod
    BY <1>2, ClockReads
  <2> QED BY <1>1, <2>1, Quotient
<1>3. CASE of \notin Piconets
  BY <1>1, <1>3 DEF Time
<1> QED BY <1>2, <1>3

\* Whatever the links and the sniffing state, bt_sniffing_get_piconet_clk answers
\* with the reference asked for, or none; the clock it chose when none was named is
\* answered for again under its name, or refused.
LEMMA ReadFinds ==
    ASSUME NEW read \in Readings
    PROVE  /\ read["NONE"] \in Answers
           /\ read["SNIFFING"] \in {Found("SNIFFING", p) : p \in Phones} \cup {Failed}
           /\ read["CTRL"] \in {Found("CTRL", "buds"), Failed}
           /\ read["NONE"].ref = "SNIFFING" => read["SNIFFING"] = read["NONE"]
<1>1. PICK l \in Links : read = Reads(l)
  BY DEF Readings
<1>2. /\ l.handle \in {"none", "lost"} \cup Phones
      /\ l.active \in {"none"} \cup Phones
  BY DEF Links
<1>3. \A asked \in Refs : read[asked] = Read(l, asked)
  BY <1>1 DEF Reads
<1>4. Ctrl(l) \in {Found("CTRL", "buds"), Failed} /\ Ctrl(l).ref # "SNIFFING"
  BY DEF Ctrl, Found, Failed
<1>5. ASSUME l.handle # "none" PROVE Sniffing(l) \in {Found("SNIFFING", p) : p \in Phones} \cup {Failed}
  BY <1>2, <1>5 DEF Sniffing
<1>6. /\ read["NONE"] = IF l.handle # "none" /\ l.state \notin {"OFF", "UNCOORDINATED_ROLESWAP"}
                        THEN Sniffing(l) ELSE Ctrl(l)
      /\ read["SNIFFING"] = IF l.handle # "none" THEN Sniffing(l)
                            ELSE IF l.active # "none" THEN Found("SNIFFING", l.active)
                            ELSE Failed
      /\ read["CTRL"] \in {Failed, Ctrl(l)}
  BY <1>3 DEF Read, Refs
<1>7. read["SNIFFING"] \in {Found("SNIFFING", p) : p \in Phones} \cup {Failed}
  BY <1>2, <1>5, <1>6
<1>8. read["NONE"] \in Answers
  BY <1>4, <1>5, <1>6 DEF Answers
<1>9. ASSUME read["NONE"].ref = "SNIFFING" PROVE read["SNIFFING"] = read["NONE"]
  BY <1>4, <1>6, <1>9
<1> QED BY <1>4, <1>6, <1>7, <1>8, <1>9

\* What an answer says of itself.
LEMMA AnswerFacts ==
    ASSUME NEW clk \in Answers
    PROVE  /\ clk.ref \in Refs /\ clk.of \in Piconets \cup {"none"}
           /\ clk = Found(clk.ref, clk.of)
           /\ clk.ref = "NONE" <=> clk.of = "none"
           /\ clk.ref = "NONE" => clk = Failed
           /\ clk.ref = "CTRL" <=> clk.of = "buds"
           /\ clk.ref = "SNIFFING" <=> clk.of \in Phones
BY DEF Answers, Found, Failed, Refs, Piconets, Phones

\* A new appointment is made in the clock the sender reads now, and the timer the
\* sender raises for it is the appointment, unless that clock is refused.
LEMMA StampMakes ==
    ASSUME Types, ClocksApart, NEW m \in Messages, NEW read \in Readings
    PROVE  LET s == Stamped(m, read)
               clk == read["NONE"]
               off == Slots(m.slot, Time(clk.of))
           IN  /\ s \in Messages
               /\ s.id = m.id /\ s.asked = m.asked
               /\ s.ref = clk.ref /\ s.of = clk.of /\ Found(s.ref, s.of) \in Answers
               /\ s.sent = now
               /\ s.kept = (m.kept /\ m.of = clk.of)
               /\ s.slot = Time(clk.of) + s.dur
               /\ s.dur = IF m.ref # clk.ref \/ off < MinLead \/ off > Half THEN MinLead
                          ELSE IF off > m.dur THEN m.dur
                          ELSE off
               /\ Raised(s, read) = IF clk.of = "none" \/ s.refused THEN now ELSE now + s.dur
<1> DEFINE clk == read["NONE"]
           t == Time(clk.of)
           off == Slots(m.slot, t)
           lead == IF m.ref # clk.ref \/ off < MinLead \/ off > Half THEN MinLead
                   ELSE IF off > m.dur THEN m.dur
                   ELSE off
           s == Stamped(m, read)
           refused == clk.ref # "NONE" /\ read[clk.ref].ref = "NONE"
           kept == m.kept /\ m.of = clk.of
<1>1. ClkMod \in Nat /\ ClkMod > 0 /\ DurMod \in Nat /\ DurMod > 0 /\ Half \in Int
  BY RelaySyncAssumption, HalfTurn
<1>2. now \in Nat /\ m.slot \in Int /\ m.dur \in Lead /\ m.kept \in BOOLEAN
  BY RelaySyncAssumption DEF Types, Messages
<1>3. t \in 0..(ClkMod - 1)
  BY TimeRange
<1>4. clk \in Answers /\ clk.ref \in Refs /\ clk.of \in Piconets \cup {"none"} /\ clk = Found(clk.ref, clk.of)
  BY ReadFinds, AnswerFacts
<1>5. off \in 0..(ClkMod - 1)
  <2> HIDE DEF t
  <2>1. m.slot - t \in Int
    BY <1>2, <1>3
  <2> QED BY <1>1, <2>1, Quotient DEF Slots
<1>6. lead \in Lead
  <2> HIDE DEF off
  <2>1. off \in Nat
    BY <1>5
  <2> QED BY <1>1, <1>2, <2>1, LeadFacts
<1>7. lead \in Nat /\ lead < ClkMod /\ lead < DurMod /\ lead < Half
  BY <1>6, LeadFacts
<1>8. s = [m EXCEPT !.ref = clk.ref, !.slot = t + lead, !.dur = lead % DurMod, !.of = clk.of,
                    !.sent = now, !.kept = kept, !.refused = refused]
  BY DEF Stamped, Appoint
<1>9. kept \in BOOLEAN /\ refused \in BOOLEAN
  BY <1>2
<1> HIDE DEF clk, t, off, lead, s, kept, refused
<1>10. lead % DurMod = lead
  BY <1>1, <1>7
<1>11. t + lead \in Int
  BY <1>1, <1>3, <1>7
<1>12. /\ s.id = m.id /\ s.asked = m.asked /\ s.ref = clk.ref /\ s.of = clk.of /\ s.sent = now
       /\ s.kept = kept /\ s.slot = t + lead /\ s.dur = lead /\ s.refused = refused
  BY <1>8, <1>10 DEF Messages
<1>13. s \in Messages
  <2> DEFINE slot == t + lead
  <2>1. slot \in Int /\ now \in Int
    BY <1>2, <1>11
  <2>2. s = [m EXCEPT !.ref = clk.ref, !.slot = slot, !.dur = lead, !.of = clk.of,
                      !.sent = now, !.kept = kept, !.refused = refused]
    BY <1>8, <1>10
  <2> HIDE DEF slot
  <2> QED BY <1>4, <1>6, <1>9, <2>1, <2>2 DEF Messages
<1>14. Found(s.ref, s.of) \in Answers
  BY <1>4, <1>12
\* The clock the message is stamped with is refused, or it is the one read before.
<1>15. Raised(s, read) = IF clk.of = "none" \/ s.refused THEN now ELSE now + lead
  <2>1. Raised(s, read) = IF read[clk.ref].ref # "NONE" /\ Ahead(t + lead, Time(read[clk.ref].of))
                          THEN now + Slots(t + lead, Time(read[clk.ref].of)) ELSE now
    BY <1>12 DEF Raised
  <2>2. CASE clk.of = "none" \/ refused
    <3>1. read[clk.ref].ref = "NONE"
      BY <1>4, <2>2, AnswerFacts DEF refused, clk
    <3> QED BY <1>12, <2>1, <2>2, <3>1
  <2>3. CASE clk.of # "none" /\ ~refused
    <3>1. clk.ref \in {"SNIFFING", "CTRL"} /\ read[clk.ref].ref # "NONE"
      BY <1>4, <2>3, AnswerFacts DEF refused, Refs
    <3>2. read[clk.ref] = clk
      <4>1. clk.ref = "SNIFFING" => read[clk.ref] = clk
        BY ReadFinds DEF clk
      <4>2. clk.ref = "CTRL" => read[clk.ref] = clk
        <5> SUFFICES ASSUME clk.ref = "CTRL" PROVE read["CTRL"] = clk
          OBVIOUS
        <5>1. read["CTRL"] = Found("CTRL", "buds")
          BY <3>1, ReadFinds DEF Found, Failed
        <5>2. clk = Found("CTRL", "buds")
          BY <1>4, AnswerFacts
        <5> QED BY <5>1, <5>2
      <4> QED BY <3>1, <4>1, <4>2
    <3>3. Raised(s, read) = IF Ahead(t + lead, t) THEN now + Slots(t + lead, t) ELSE now
      BY <2>1, <3>1, <3>2 DEF t
    <3>4. Slots(t + lead, t) = lead
      <4>1. (t + lead) - t = lead /\ lead % ClkMod = lead
        BY <1>1, <1>3, <1>7
      <4> QED BY <4>1 DEF Slots
    <3>5. CASE lead = 0
      BY <1>2, <1>12, <2>3, <3>3, <3>4, <3>5
    <3>6. CASE lead > 0
      <4>1. t + lead > t /\ (t + lead) - t < Half
        BY <1>1, <1>3, <1>7, <3>6
      <4>2. Ahead(t + lead, t)
        BY <4>1 DEF Ahead
      <4> QED BY <1>12, <2>3, <3>3, <3>4, <4>2
    <3> QED BY <1>7, <3>5, <3>6
  <2> QED BY <2>2, <2>3
<1> QED BY <1>12, <1>13, <1>14, <1>15 DEF s, lead, off, t, clk, kept

\* The slot of an appointment as the receiver reads it t slots later, by the clock
\* it was made in and by one that is shift ahead of that.
SlotsBetween(b, t, d, u) ==
    Slots(((b + t) % ClkMod) + d, (b + u) % ClkMod) = (t + d - u) % ClkMod

LEMMA SlotsLater ==
    ASSUME NEW b \in Int, NEW t \in Int, NEW d \in Int, NEW u \in Int
    PROVE  SlotsBetween(b, t, d, u)
<1>1. ClkMod \in Nat /\ ClkMod > 0
  BY RelaySyncAssumption
<1> DEFINE s == ((b + t) % ClkMod) + d
           x == b + t + d
           y == b + u
<1>2. (b + t) % ClkMod \in Int /\ b + t \in Int
  BY <1>1
<1>3. PICK q \in Int : b + t = q * ClkMod + ((b + t) % ClkMod)
  BY <1>1, <1>2, Quotient
<1>4. s \in Int /\ x \in Int /\ y \in Int
  BY <1>2
<1>5. x = s + q * ClkMod
  BY <1>1, <1>2, <1>3
<1>6. s % ClkMod = x % ClkMod
  <2> HIDE DEF s, x
  <2>1. TurnsHide(s, q, ClkMod)
    BY <1>1, <1>4, Turns
  <2> QED BY <1>5, <2>1 DEF TurnsHide
<1>7. (s - (y % ClkMod)) % ClkMod = (x - y) % ClkMod
  <2> HIDE DEF s, x, y
  <2> QED BY <1>1, <1>4, <1>6, Apart
<1>8. x - y = t + d - u
  OBVIOUS
<1> QED BY <1>7, <1>8 DEF Slots, SlotsBetween

\* No message lives for a whole turn of the clock.
LEMMA ShortLives == ASSUME ClocksApart PROVE Horizon \in Nat /\ Horizon < ClkMod
<1>1. ClkMod \in Nat /\ ClkMod > 0 /\ Horizon \in Nat
  BY RelaySyncAssumption
<1>2. Horizon + Gap("phone", "other") < ClkMod
  <2> DEFINE c == <<"phone", "other">>
  <2>1. c \in Mistakable /\ c[1] = "phone" /\ c[2] = "other"
    BY DEF Mistakable, Phones, Piconets
  <2> HIDE DEF c
  <2>2. Horizon + Gap(c[1], c[2]) < ClkMod
    BY <2>1 DEF ClocksApart
  <2> QED BY <2>1, <2>2
<1>3. Gap("phone", "other") \in 0..(ClkMod - 1)
  <2>1. Shift("other") - Shift("phone") \in Int
    BY RelaySyncAssumption DEF Shift
  <2> QED BY <1>1, <2>1, Quotient DEF Gap
<1> QED BY <1>1, <1>2, <1>3

\* By the clock it was made in the slot is what is left of the duration away, and by
\* any other that can be mistaken for it, further than the duration.
LEMMA SlotsRead ==
    ASSUME Types, ClocksApart, NEW m \in Messages, Appointed(m, now, sender[m.id]),
           m.of \in Piconets, NEW by \in Piconets,
           by = m.of \/ <<m.of, by>> \in Mistakable
    PROVE  LET off == Slots(m.slot, Time(by))
               left == m.sent + m.dur - now
           IN  IF by = m.of THEN off = IF left >= 0 THEN left ELSE left + ClkMod
                            ELSE off > m.dur
<1> DEFINE left == m.sent + m.dur - now
           b == Base(m.of)
           off == Slots(m.slot, Time(by))
<1>1. /\ ClkMod \in Nat /\ ClkMod > 0 /\ Horizon \in Nat /\ now \in Nat /\ now <= Horizon
  BY RelaySyncAssumption DEF Types
<1>2. /\ m.dur \in Nat /\ m.dur < ClkMod /\ m.slot \in Int
      /\ m.sent \in Nat /\ m.sent <= now
  BY <1>1, LeadFacts DEF Messages, Appointed
<1>3. /\ m.slot = ((b + m.sent) % ClkMod) + m.dur
      /\ b \in Nat /\ Shift(m.of) \in Nat
  BY ClockReads DEF Appointed
<1>4. /\ Time(by) = (Base(by) + now) % ClkMod /\ Base(by) \in Nat /\ Shift(by) \in Nat
      /\ Base(by) = b + (Shift(by) - Shift(m.of))
  <2>1. start \in Int
    BY DEF Types
  <2> QED BY <1>3, <2>1, ClockReads DEF Base
<1> DEFINE u == (Shift(by) - Shift(m.of)) + now
<1>5. u \in Int /\ Base(by) + now = b + u
  <2> HIDE DEF b
  <2> QED BY <1>1, <1>3, <1>4
<1>6. off = (m.sent + m.dur - u) % ClkMod
  <2>1. b \in Int /\ m.sent \in Int /\ m.dur \in Int
    BY <1>2, <1>3
  <2> HIDE DEF u, b
  <2>2. SlotsBetween(b, m.sent, m.dur, u)
    BY <1>5, <2>1, SlotsLater
  <2>3. Time(by) = (b + u) % ClkMod
    BY <1>4, <1>5
  <2>4. off = Slots(((b + m.sent) % ClkMod) + m.dur, (b + u) % ClkMod)
    BY <1>3, <2>3
  <2> QED BY <2>2, <2>4 DEF SlotsBetween
<1>7. left \in Int /\ left <= m.dur /\ -ClkMod < left /\ left >= m.dur - Horizon
  BY <1>1, <1>2, ShortLives
<1>8. CASE by = m.of
  <2>1. m.sent + m.dur - u = left
    BY <1>1, <1>2, <1>3, <1>8
  <2>2. off = left % ClkMod
    BY <1>6, <2>1
  <2> HIDE DEF left, off
  <2>3. off = IF left >= 0 THEN left ELSE left + ClkMod
    BY <1>1, <1>2, <1>7, <2>2
  <2> QED BY <1>8, <2>3 DEF left, off
<1>9. CASE by # m.of
  <2> DEFINE d == Shift(by) - Shift(m.of)
             g == Gap(m.of, by)
  <2>1. m.dur < g /\ Horizon + g < ClkMod
    <3>1. <<m.of, by>> \in Mistakable /\ m.dur \in Lead
      BY <1>9 DEF Messages
    <3> QED BY <3>1, LeadFacts DEF ClocksApart
  <2>2. d \in Int /\ g = d % ClkMod
    BY <1>3, <1>4 DEF Gap
  <2> HIDE DEF d, g
  <2>3. PICK q \in Int : d = q * ClkMod + (d % ClkMod)
    BY <1>1, <2>2, Quotient
  <2>4. d = q * ClkMod + g /\ g \in Int
    <3>1. d % ClkMod \in 0..(ClkMod - 1)
      BY <1>1, <2>2, Quotient
    <3> QED BY <1>1, <2>2, <2>3, <3>1
  <2> DEFINE e == left - g + ClkMod
  <2>5. e \in Nat /\ e < ClkMod /\ e > m.dur
    BY <1>1, <1>2, <1>7, <2>1, <2>4
  <2>6. m.sent + m.dur - u = e + (-q - 1) * ClkMod
    <3>1. u = d + now
      BY DEF d
    <3> HIDE DEF u
    <3>2. u = q * ClkMod + g + now
      BY <2>4, <3>1
    <3>3. (-q - 1) * ClkMod = -(q * ClkMod) - ClkMod
      BY <1>1
    <3> QED BY <1>1, <1>2, <2>4, <3>2, <3>3
  <2>7. off = e
    <3> HIDE DEF e, off
    <3>1. TurnsHide(e, -q - 1, ClkMod)
      BY <1>1, <2>4, <2>5, Turns
    <3>2. e % ClkMod = e
      BY <1>1, <2>5
    <3> QED BY <1>6, <2>6, <3>1, <3>2 DEF TurnsHide
  <2> QED BY <1>9, <2>5, <2>7
<1> QED BY <1>8, <1>9

\* The receiver takes the slot for one of the clock it was made in, of another that
\* can be mistaken for it, or of none.
LEMMA ClockFound ==
    ASSUME NEW m \in Messages, NEW read \in Readings, Found(m.ref, m.of) \in Answers
    PROVE  LET clk == ClockOf(m, read)
           IN  clk.ref # "NONE" => /\ m.of \in Piconets /\ clk.of \in Piconets
                                   /\ clk.of = m.of \/ <<m.of, clk.of>> \in Mistakable
<1> DEFINE clk == ClockOf(m, read)
<1> SUFFICES ASSUME clk.ref # "NONE"
             PROVE  /\ m.of \in Piconets /\ clk.of \in Piconets
                    /\ clk.of = m.of \/ <<m.of, clk.of>> \in Mistakable
  OBVIOUS
<1>1. /\ m.ref \in Refs /\ (m.ref = "CTRL" <=> m.of = "buds") /\ (m.ref = "SNIFFING" <=> m.of \in Phones)
  <2>1. Found(m.ref, m.of).ref = m.ref /\ Found(m.ref, m.of).of = m.of
    BY DEF Found
  <2> QED BY <2>1, AnswerFacts
<1>2. \/ clk = read[m.ref] /\ clk.ref = m.ref
      \/ clk = read["CTRL"] /\ m.ref = "SNIFFING"
  BY DEF ClockOf, Failed, Found
<1> HIDE DEF clk
<1>3. CASE m.ref = "SNIFFING"
  <2>1. clk \in {Found("SNIFFING", p) : p \in Phones} \cup {Found("CTRL", "buds"), Failed}
    BY <1>2, <1>3, ReadFinds
  <2>2. clk.of \in Phones \cup {"buds"}
    BY <2>1 DEF Found, Failed
  <2>3. <<m.of, clk.of>> \in Phones \X Piconets
    BY <1>1, <1>3, <2>2 DEF Piconets
  <2> QED BY <1>1, <1>3, <2>2, <2>3 DEF Piconets, Mistakable
<1>4. CASE m.ref = "CTRL"
  <2>1. clk = Found("CTRL", "buds")
    BY <1>2, <1>4, ReadFinds DEF Found, Failed
  <2> QED BY <1>1, <1>4, <2>1 DEF Found, Piconets
<1>5. CASE m.ref = "NONE"
  BY <1>2, <1>5
<1> QED BY <1>1, <1>3, <1>4, <1>5 DEF Refs

\* A slot that is ahead is not seen so only if it was sent beyond the range.
LEMMA NotAhead ==
    ASSUME Types, ClocksApart, NEW m \in Messages, Appointed(m, now, sender[m.id]),
           m.of \in Piconets, now < m.sent + m.dur, ~Ahead(m.slot, Time(m.of))
    PROVE  m.slot >= ClkMod
<1> DEFINE left == m.sent + m.dur - now
           c == Time(m.of)
           b == Base(m.of) + m.sent
           r == b % ClkMod
<1>1. /\ ClkMod \in Nat /\ ClkMod > 0 /\ now \in Nat
      /\ m.dur \in Nat /\ m.dur < Half /\ m.slot \in Int /\ m.sent \in Nat /\ m.sent <= now
  BY RelaySyncAssumption, LeadFacts DEF Types, Messages, Appointed
<1>2. Half \in Int /\ 2 * Half <= ClkMod - 2
  BY HalfTurn
<1> HIDE DEF Half
<1>3. /\ m.slot = r + m.dur /\ Base(m.of) \in Nat /\ c = (Base(m.of) + now) % ClkMod
  BY ClockReads DEF Appointed
<1>4. b \in Nat /\ r \in 0..(ClkMod - 1)
  BY <1>1, <1>3
<1>5. c = (b + (now - m.sent)) % ClkMod
  <2>1. Base(m.of) + now = b + (now - m.sent)
    BY <1>1, <1>3
  <2> QED BY <1>3, <2>1
<1>6. SUFFICES ASSUME m.slot < ClkMod PROVE FALSE
  BY <1>1
<1>7. c = r + (now - m.sent)
  <2>1. PICK q \in Int : b = q * ClkMod + r
    <3>1. b \in Int
      BY <1>4
    <3> HIDE DEF b
    <3> QED BY <1>1, <3>1, Quotient
  <2> DEFINE e == r + (now - m.sent)
  <2>2. e \in Nat /\ e < ClkMod
    BY <1>1, <1>3, <1>4, <1>6
  <2>3. b + (now - m.sent) = e + q * ClkMod
    BY <1>1, <1>4, <2>1
  <2> HIDE DEF c, b, r, e
  <2>4. TurnsHide(e, q, ClkMod)
    BY <1>1, <2>2, Turns
  <2>5. e % ClkMod = e
    BY <1>1, <2>2
  <2> QED BY <1>5, <2>3, <2>4, <2>5 DEF e, TurnsHide
<1>8. m.slot > c /\ m.slot - c = left /\ left < Half
  <2> HIDE DEF c, b, r
  <2> QED BY <1>1, <1>2, <1>3, <1>4, <1>7
<1> QED BY <1>1, <1>2, <1>8 DEF Ahead

\* What the receiver makes of a message that was sent.
LEMMA JudgeFinds ==
    ASSUME Types, ClocksApart, NEW m \in Messages, Appointed(m, now, sender[m.id]),
           NEW read \in Readings
    PROVE  LET r == Judge(m, read)
           IN  /\ r \in Results
               /\ r.status = "armed" =>
                    IF r.refused THEN r.at - sender[m.id] \in 0..(DurMod - 1)
                                 ELSE r.at = sender[m.id]
               /\ r.status = "expired" /\ r.arrived < sender[m.id] => r.wraps \/ r.foreign
<1> DEFINE r == Judge(m, read)
           clk == ClockOf(m, read)
           off == Slots(m.slot, Time(clk.of))
           left == m.sent + m.dur - now
           timer == sender[m.id]
<1>1. /\ ClkMod \in Nat /\ ClkMod > 0 /\ DurMod \in Nat /\ now \in Nat
      /\ m.dur \in Nat /\ m.dur < ClkMod /\ m.dur < DurMod /\ m.sent \in Nat /\ m.sent <= now
      /\ m.refused \in BOOLEAN
  BY RelaySyncAssumption, LeadFacts DEF Types, Messages, Appointed
<1>2. ASSUME NEW st \in {"armed", "expired", "ref_changed"}, NEW at \in Int
      PROVE  /\ Result(m, clk, st, at) \in Results
             /\ LET x == Result(m, clk, st, at)
                IN  /\ x.status = st /\ x.at = at /\ x.arrived = now /\ x.refused = m.refused
                    /\ (m.slot >= ClkMod => x.wraps) /\ (clk.of # m.of => x.foreign)
  <2> DEFINE w == m.slot >= ClkMod
             f == clk.of # m.of
  <2>1. w \in BOOLEAN /\ f \in BOOLEAN
    OBVIOUS
  <2>2. Result(m, clk, st, at) = [status |-> st, arrived |-> now, at |-> at, wraps |-> w,
                                  foreign |-> f, refused |-> m.refused]
    BY DEF Result
  <2> HIDE DEF w, f, clk
  <2>3. Result(m, clk, st, at) \in Results
    BY <1>1, <2>1, <2>2 DEF Results
  <2> DEFINE x == Result(m, clk, st, at)
  <2>4. /\ x.status = st /\ x.at = at /\ x.arrived = now /\ x.refused = m.refused
        /\ x.wraps = w /\ x.foreign = f
    BY <2>2
  <2>5. (w => x.wraps) /\ (f => x.foreign)
    BY <2>4
  <2> QED BY <2>3, <2>4, <2>5 DEF w, f
<1>3. /\ r = IF clk.ref = "NONE" THEN Result(m, clk, "ref_changed", Unset)
             ELSE IF ~Ahead(m.slot, Time(clk.of)) \/ off > m.dur THEN Result(m, clk, "expired", Unset)
             ELSE Result(m, clk, "armed", now + off)
      /\ Unset \in Int
  BY DEF Judge, Unset
<1>4. CASE clk.ref = "NONE"
  <2> HIDE DEF clk, off, r
  <2> QED BY <1>2, <1>3, <1>4 DEF r
<1>5. CASE clk.ref # "NONE" /\ clk.of # m.of
  <2>1. off > m.dur
    <3>1. m.of \in Piconets /\ clk.of \in Piconets /\ <<m.of, clk.of>> \in Mistakable
      BY <1>5, ClockFound DEF Appointed
    <3> HIDE DEF clk
    <3> QED BY <1>5, <3>1, SlotsRead
  <2> HIDE DEF clk, off, r
  <2>2. r = Result(m, clk, "expired", Unset)
    BY <1>3, <1>5, <2>1
  <2>3. r \in Results /\ r.status = "expired" /\ r.foreign
    BY <1>2, <1>3, <1>5, <2>2
  <2> QED BY <2>3 DEF r
<1>6. CASE clk.ref # "NONE" /\ clk.of = m.of
  <2>1. m.of \in Piconets /\ m.of # "none"
    <3>1. m.of \in Piconets
      BY <1>6, ClockFound DEF Appointed
    <3> QED BY <3>1 DEF Piconets, Phones
  <2>2. off = IF left >= 0 THEN left ELSE left + ClkMod
    BY <1>6, <2>1, SlotsRead
  <2>3. timer = IF m.refused THEN m.sent ELSE m.sent + m.dur
    BY <2>1 DEF Appointed
  <2>4. CASE ~Ahead(m.slot, Time(clk.of)) \/ off > m.dur
    <3>1. r = Result(m, clk, "expired", Unset)
      BY <1>3, <1>6, <2>4
    <3>2. ASSUME now < timer PROVE m.slot >= ClkMod
      <4>1. now < m.sent + m.dur
        BY <1>1, <2>3, <3>2
      <4>2. ~(off > m.dur)
        <5> HIDE DEF off
        <5> QED BY <1>1, <2>2, <4>1
      <4> QED BY <1>6, <2>1, <2>4, <4>1, <4>2, NotAhead
    <3> HIDE DEF clk, off, r, timer
    <3>3. r \in Results /\ r.status = "expired" /\ r.arrived = now /\ (m.slot >= ClkMod => r.wraps)
      BY <1>2, <1>3, <3>1
    <3> QED BY <3>2, <3>3 DEF r, timer
  <2>5. CASE ~(~Ahead(m.slot, Time(clk.of)) \/ off > m.dur)
    <3>1. r = Result(m, clk, "armed", now + off)
      BY <1>3, <1>6, <2>5
    <3> HIDE DEF clk, off, r, timer
    <3>2. off = left
      <4>1. now \in 0..Horizon /\ Horizon \in Nat /\ Horizon < ClkMod
        BY ShortLives DEF Types
      <4>2. left < 0 => left + ClkMod > m.dur
        BY <1>1, <4>1
      <4>3. left \in Int /\ ~(off > m.dur)
        BY <1>1, <2>5
      <4> HIDE DEF left
      <4> QED BY <1>1, <2>2, <4>2, <4>3
    <3>3. now + off = m.sent + m.dur /\ now + off \in Int
      BY <1>1, <3>2
    <3>4. IF m.refused THEN (now + off) - timer \in 0..(DurMod - 1) ELSE now + off = timer
      BY <1>1, <2>3, <3>3
    <3> QED BY <1>2, <3>1, <3>3, <3>4 DEF r, timer
  <2> QED BY <2>4, <2>5
<1> QED BY <1>4, <1>5, <1>6

-----------------------------------------------------------------------------
(* The steps.                                                              *)

\* No message exists at first.
LEMMA InitInv == ASSUME ClocksApart, Init PROVE Inv
<1>1. ClkMod \in Nat /\ Horizon \in Nat
  BY RelaySyncAssumption
<1>2. Types
  BY <1>1 DEF Init, Types, Results, Unset
<1>3. Unsent /\ Sent
  BY DEF Init, Unsent, Sent
<1>4. Received /\ SameInstant /\ ExpiredOnlyForACause
  BY DEF Init, Received, SameInstant, ExpiredOnlyForACause
<1> QED BY <1>2, <1>3, <1>4 DEF Inv

\* What is sent, and what waits then.
LEMMA DequeuedKeeps ==
    ASSUME Inv, ClocksApart, NEW q, q \in Seq(Messages), NEW read \in Readings,
           \A j \in DOMAIN q : sender[q[j].id] = Unset,
           \A j, k \in DOMAIN q : q[j].id = q[k].id => j = k,
           Dequeued(q, read), UNCHANGED <<start, now, outcome>>
    PROVE  Inv'
<1>0. Types
  BY DEF Inv
<1>1. PICK n \in 0..Len(q), failed \in BOOLEAN :
         LET out == [i \in 1..n |-> Stamped(q[i], read)]
         IN  /\ chan' = chan \o out
             /\ queue' = [i \in 1..(Len(q) - n) |->
                            IF i = 1 /\ failed THEN Stamped(q[n + 1], read) ELSE q[n + i]]
             /\ sender' = [i \in Ids |->
                             IF \E j \in 1..n : out[j].id = i
                             THEN Raised(out[CHOOSE j \in 1..n : out[j].id = i], read)
                             ELSE sender[i]]
  BY DEF Dequeued
<1> DEFINE out == [i \in 1..n |-> Stamped(q[i], read)]
<1>2. Len(q) \in Nat /\ n \in Nat /\ n <= Len(q) /\ DOMAIN q = 1..Len(q)
  OBVIOUS
<1>3. /\ chan' = chan \o out
      /\ queue' = [i \in 1..(Len(q) - n) |-> IF i = 1 /\ failed THEN Stamped(q[n + 1], read) ELSE q[n + i]]
      /\ sender' = [i \in Ids |-> IF \E j \in 1..n : out[j].id = i
                                  THEN Raised(out[CHOOSE j \in 1..n : out[j].id = i], read)
                                  ELSE sender[i]]
  BY <1>1
<1>4. \A j \in DOMAIN q : q[j] \in Messages /\ Stamped(q[j], read) \in Messages /\ Stamped(q[j], read).id = q[j].id
  <2> SUFFICES ASSUME NEW j \in DOMAIN q
               PROVE  q[j] \in Messages /\ Stamped(q[j], read) \in Messages /\ Stamped(q[j], read).id = q[j].id
    OBVIOUS
  <2>1. q[j] \in Messages
    BY <1>2
  <2> QED BY <1>0, <2>1, StampMakes
<1>5. /\ out \in Seq(Messages) /\ Len(out) = n
      /\ \A j \in 1..n : j \in DOMAIN q /\ out[j] = Stamped(q[j], read) /\ out[j].id = q[j].id
  BY <1>2, <1>4, SeqDef
<1> HIDE DEF out
\* The timer of a message that is sent, and of any other.
<1>6. ASSUME NEW j \in 1..n PROVE sender'[q[j].id] = Raised(Stamped(q[j], read), read)
  <2>1. q[j].id \in Ids
    BY <1>4, <1>5 DEF Messages
  <2>2. \A k \in 1..n : out[k].id = q[j].id => k = j
    BY <1>5
  <2>3. out[j].id = q[j].id
    BY <1>5
  <2>4. (CHOOSE k \in 1..n : out[k].id = q[j].id) = j
    BY <2>2, <2>3
  <2>5. sender'[q[j].id] = Raised(out[CHOOSE k \in 1..n : out[k].id = q[j].id], read)
    BY <1>3, <2>1, <2>3
  <2> QED BY <1>5, <2>4, <2>5
<1>7. ASSUME NEW i \in Ids, sender[i] # Unset PROVE sender'[i] = sender[i]
  <2>1. ~\E j \in 1..n : out[j].id = i
    BY <1>5, <1>7
  <2> QED BY <1>3, <2>1
<1>8. ASSUME NEW j \in DOMAIN q, j > n PROVE sender'[q[j].id] = Unset
  <2>1. q[j].id \in Ids
    BY <1>4 DEF Messages
  <2>2. ~\E k \in 1..n : out[k].id = q[j].id
    BY <1>5, <1>8
  <2> QED BY <1>3, <2>1, <2>2
<1>9. ASSUME NEW j \in 1..n PROVE Appointed(out[j], now, sender'[out[j].id])
  <2> DEFINE m == q[j]
  <2>1. m \in Messages /\ out[j] = Stamped(m, read) /\ out[j].id = m.id
    BY <1>4, <1>5
  <2>2. sender'[m.id] = Raised(Stamped(m, read), read)
    BY <1>6
  <2> HIDE DEF m
  <2> DEFINE s == Stamped(m, read)
  <2>3. /\ s.sent = now /\ Found(s.ref, s.of) \in Answers /\ s.slot = Time(s.of) + s.dur
        /\ Raised(s, read) = IF s.of = "none" \/ s.refused THEN now ELSE now + s.dur
    BY <1>0, <2>1, StampMakes
  <2>4. now \in Nat /\ (s.of \in Piconets => Time(s.of) = (Base(s.of) + now) % ClkMod)
    BY <1>0, RelaySyncAssumption, ClockReads, SMTT(20) DEF Types
  <2> HIDE DEF s
  <2>5. s.sent \in 0..now
    BY <2>3, <2>4
  <2>6. Appointed(s, now, Raised(s, read))
    BY <2>3, <2>4, <2>5 DEF Appointed
  <2> QED BY <2>1, <2>2, <2>6 DEF s
<1>10. queue' \in Seq(Messages)
  <2>1. \A i \in 1..(Len(q) - n) : n + i \in DOMAIN q
    BY <1>2
  <2>2. \A i \in 1..(Len(q) - n) : (IF i = 1 /\ failed THEN Stamped(q[n + 1], read) ELSE q[n + i]) \in Messages
    BY <1>4, <2>1
  <2>3. Len(q) - n \in Nat
    BY <1>2
  <2> QED BY <1>3, <2>2, <2>3, SeqDef
<1>11. \A i \in DOMAIN queue' : n + i \in DOMAIN q /\ queue'[i].id = q[n + i].id
  <2> SUFFICES ASSUME NEW i \in DOMAIN queue' PROVE n + i \in DOMAIN q /\ queue'[i].id = q[n + i].id
    OBVIOUS
  <2>1. i \in 1..(Len(q) - n) /\ n + i \in DOMAIN q
    BY <1>2, <1>3
  <2>2. queue'[i] = IF i = 1 /\ failed THEN Stamped(q[n + 1], read) ELSE q[n + i]
    BY <1>3, <2>1
  <2>3. CASE i = 1 /\ failed
    BY <1>4, <2>1, <2>2, <2>3
  <2>4. CASE ~(i = 1 /\ failed)
    BY <2>1, <2>2, <2>4
  <2> QED BY <2>3, <2>4
<1>12. sender' \in [Ids -> Int]
  <2>1. ASSUME NEW i \in Ids, NEW j \in 1..n, out[j].id = i PROVE sender'[i] \in Int
    <3>1. Appointed(out[j], now, sender'[i])
      BY <1>9, <2>1
    <3>2. out[j] \in Messages
      BY <1>4, <1>5
    <3>3. out[j].sent \in Int /\ out[j].dur \in Nat
      BY <3>2 DEF Messages, Lead
    <3> QED BY <3>1, <3>3 DEF Appointed
  <2>2. ASSUME NEW i \in Ids, ~\E j \in 1..n : out[j].id = i PROVE sender'[i] \in Int
    BY <1>0, <1>3, <2>2 DEF Types
  <2>3. DOMAIN sender' = Ids /\ sender' = [i \in Ids |-> sender'[i]]
    BY <1>3
  <2> QED BY <2>1, <2>2, <2>3
<1>13. Types'
  <2>1. chan' \in Seq(Messages)
    BY <1>0, <1>3, <1>5 DEF Types
  <2> QED BY <1>0, <1>10, <1>12, <2>1 DEF Types, Lead, Messages
<1>14. Unsent'
  <2>1. \A i \in DOMAIN queue' : sender'[queue'[i].id] = Unset
    <3> SUFFICES ASSUME NEW i \in DOMAIN queue' PROVE sender'[queue'[i].id] = Unset
      OBVIOUS
    <3>1. n + i \in DOMAIN q /\ n + i > n
      BY <1>2, <1>3, <1>11
    <3> QED BY <1>8, <1>11, <3>1
  <2>2. \A i, k \in DOMAIN queue' : queue'[i].id = queue'[k].id => i = k
    <3> SUFFICES ASSUME NEW i \in DOMAIN queue', NEW k \in DOMAIN queue', queue'[i].id = queue'[k].id
                 PROVE  i = k
      OBVIOUS
    <3>1. n + i = n + k
      BY <1>11
    <3>2. i \in Nat /\ k \in Nat
      BY <1>2, <1>3
    <3> QED BY <1>2, <3>1, <3>2
  <2> QED BY <2>1, <2>2 DEF Unsent
<1>15. Sent'
  <2> SUFFICES ASSUME NEW j \in DOMAIN chan'
               PROVE  Appointed(chan'[j], now, sender'[chan'[j].id])
    BY DEF Sent, Appointed, Base
  <2>1. CASE j \in DOMAIN chan
    <3>1. chan'[j] = chan[j] /\ chan[j] \in Messages /\ Appointed(chan[j], now, sender[chan[j].id])
      BY <1>0, <1>3, <1>5, <2>1 DEF Inv, Sent, Types
    <3>2. sender[chan[j].id] # Unset
      BY <3>1 DEF Appointed, Messages, Lead, Unset
    <3>3. sender'[chan[j].id] = sender[chan[j].id]
      BY <1>7, <3>1, <3>2 DEF Messages
    <3> QED BY <3>1, <3>3
  <2>2. CASE j \notin DOMAIN chan
    <3>1. j - Len(chan) \in 1..n /\ chan'[j] = out[j - Len(chan)]
      BY <1>0, <1>3, <1>5, <2>2 DEF Types
    <3> QED BY <1>9, <3>1
  <2> QED BY <2>1, <2>2
<1>16. Received' /\ SameInstant' /\ ExpiredOnlyForACause'
  <2>1. \A i \in Ids : outcome[i].status # "none" => sender'[i] = sender[i]
    BY <1>7 DEF Inv, Received
  <2>2. Received'
    BY <2>1 DEF Inv, Received
  <2>3. SameInstant'
    BY <2>1 DEF Inv, SameInstant
  <2>4. ExpiredOnlyForACause'
    BY <2>1 DEF Inv, ExpiredOnlyForACause
  <2> QED BY <2>2, <2>3, <2>4
<1> QED BY <1>13, <1>14, <1>15, <1>16 DEF Inv

\* The message remote_sync_msg_relay appends: it is one of its own, and unsent.
LEMMA RelayAppends ==
    ASSUME Inv, ClocksApart, NEW p \in Periods, NEW id \in Ids, id \notin Known,
           NEW read \in Readings
    PROVE  /\ Message(id, p, read) \in Messages
           /\ LET q == Append(queue, Message(id, p, read))
              IN  /\ q \in Seq(Messages)
                  /\ \A j \in DOMAIN q : sender[q[j].id] = Unset
                  /\ \A j, k \in DOMAIN q : q[j].id = q[k].id => j = k
<1> DEFINE m == Message(id, p, read)
           q == Append(queue, m)
<1> DEFINE clk == read["NONE"]
<1>1. /\ ClkMod \in Nat /\ ClkMod > 0 /\ p \in Nat /\ now \in Nat /\ queue \in Seq(Messages)
      /\ clk.ref \in Refs /\ clk.of \in Piconets \cup {"none"}
  BY RelaySyncAssumption, ReadFinds, AnswerFacts, SMTT(20) DEF Inv, Types
<1>2. m \in Messages
  <2> DEFINE slot == (Time(clk.of) + p) % ClkMod
             dur == p % DurMod
  <2>1. slot \in Int
    <3>1. Time(clk.of) + p \in Int
      BY <1>1, TimeRange DEF Inv
    <3> QED BY <1>1, <3>1, Quotient
  <2>2. dur \in Lead
    BY LeadFacts
  <2>3. m = [id |-> id, ref |-> clk.ref, slot |-> slot, dur |-> dur, of |-> clk.of, asked |-> now + p,
             sent |-> -1, kept |-> TRUE, refused |-> FALSE]
    BY DEF Message, Unset
  <2> HIDE DEF slot, dur, clk
  <2> QED BY <1>1, <2>1, <2>2, <2>3 DEF Messages
<1>3. m.id = id
  BY DEF Message
<1>4. sender[id] = Unset /\ \A j \in DOMAIN queue : queue[j].id # id
  BY DEF Known
<1> HIDE DEF m
<1>5. /\ q \in Seq(Messages)
      /\ \A j \in DOMAIN q : \/ j \in DOMAIN queue /\ q[j] = queue[j]
                             \/ j \notin DOMAIN queue /\ q[j] = m /\ j = Len(queue) + 1
  BY <1>1, <1>2
<1> HIDE DEF q
<1>6. \A j \in DOMAIN q : sender[q[j].id] = Unset
  BY <1>3, <1>4, <1>5 DEF Inv, Unsent
<1>7. \A j, k \in DOMAIN q : q[j].id = q[k].id => j = k
  BY <1>3, <1>4, <1>5 DEF Inv, Unsent
<1> QED BY <1>2, <1>5, <1>6, <1>7 DEF m, q

\* The receiver's verdict on the message at the head of the channel (JudgeFinds).
LEMMA ReceiveKeeps == ASSUME Inv, ClocksApart, remote_relay_data_ind PROVE Inv'
<1> DEFINE m == Head(chan)
<1>1. PICK read \in Readings : outcome' = [outcome EXCEPT ![m.id] = Judge(m, read)]
  BY DEF remote_relay_data_ind
<1>2. /\ chan \in Seq(Messages) /\ chan # <<>> /\ Types /\ chan' = Tail(chan)
      /\ start' = start /\ now' = now /\ queue' = queue /\ sender' = sender
  BY DEF remote_relay_data_ind, Inv, Types
<1>3. m \in Messages /\ m.id \in Ids /\ Appointed(m, now, sender[m.id])
  <2>1. 1 \in DOMAIN chan /\ m = chan[1] /\ m \in Messages
    BY <1>2
  <2> QED BY <2>1 DEF Inv, Sent, Messages
<1>4. chan' \in Seq(Messages) /\ \A j \in DOMAIN chan' : j + 1 \in DOMAIN chan /\ chan'[j] = chan[j + 1]
  BY <1>2
<1> DEFINE r == Judge(m, read)
<1>5. /\ r \in Results
      /\ r.status = "armed" => IF r.refused THEN r.at - sender[m.id] \in 0..(DurMod - 1)
                                            ELSE r.at = sender[m.id]
      /\ r.status = "expired" /\ r.arrived < sender[m.id] => r.wraps \/ r.foreign
  BY <1>2, <1>3, JudgeFinds
<1>6. outcome \in [Ids -> Results] /\ outcome' = [outcome EXCEPT ![m.id] = r]
  BY <1>1, <1>2 DEF Types
<1> HIDE DEF m, r
<1>7. outcome' \in [Ids -> Results]
  BY <1>5, <1>6
<1>8. Types'
  BY <1>2, <1>4, <1>7 DEF Types, Messages, Lead, Results
<1>9. Unsent'
  BY <1>2 DEF Inv, Unsent
<1>10. Sent'
  BY <1>2, <1>4 DEF Inv, Sent, Appointed, Base
<1>11. sender[m.id] # Unset
  BY <1>3, RelaySyncAssumption DEF Appointed, Messages, Lead, Unset, Types
<1>12. \A i \in Ids : outcome'[i] = IF i = m.id THEN r ELSE outcome[i]
  BY <1>6
<1>13. Received'
  BY <1>2, <1>11, <1>12 DEF Inv, Received
<1>14. SameInstant'
  BY <1>2, <1>5, <1>12 DEF Inv, SameInstant
<1>15. ExpiredOnlyForACause'
  <2> SUFFICES ASSUME NEW i \in Ids, outcome'[i].status = "expired", outcome'[i].arrived < sender'[i]
               PROVE  outcome'[i].wraps \/ outcome'[i].foreign
    BY DEF ExpiredOnlyForACause
  <2>1. CASE i = m.id
    <3>1. outcome'[i] = r
      BY <1>12, <2>1
    <3> QED BY <1>2, <1>5, <2>1, <3>1
  <2>2. CASE i # m.id
    <3>1. outcome'[i] = outcome[i]
      BY <1>12, <2>2
    <3> QED BY <1>2, <3>1 DEF Inv, ExpiredOnlyForACause
  <2> QED BY <2>1, <2>2
<1> QED BY <1>8, <1>9, <1>10, <1>13, <1>14, <1>15 DEF Inv

\* Every step of Next keeps the invariant.
LEMMA NextKeeps == ASSUME Inv, ClocksApart, Next PROVE Inv'
<1>1. CASE remote_sync_msg_relay
  <2>1. PICK read \in Readings, p \in Periods, id \in Ids :
          id \notin Known /\ Dequeued(Append(queue, Message(id, p, read)), read)
    BY <1>1 DEF remote_sync_msg_relay
  <2>2. UNCHANGED <<start, now, outcome>>
    BY <1>1 DEF remote_sync_msg_relay
  <2> DEFINE q == Append(queue, Message(id, p, read))
  <2>3. /\ q \in Seq(Messages)
        /\ \A j \in DOMAIN q : sender[q[j].id] = Unset
        /\ \A j, k \in DOMAIN q : q[j].id = q[k].id => j = k
    BY <2>1, RelayAppends
  <2>4. Dequeued(q, read)
    BY <2>1
  <2> HIDE DEF q
  <2> QED BY <2>2, <2>3, <2>4, DequeuedKeeps
<1>2. CASE remote_msg_dequeue
  <2>1. PICK read \in Readings : Dequeued(queue, read)
    BY <1>2 DEF remote_msg_dequeue
  <2>2. /\ queue \in Seq(Messages)
        /\ \A j \in DOMAIN queue : sender[queue[j].id] = Unset
        /\ \A j, k \in DOMAIN queue : queue[j].id = queue[k].id => j = k
        /\ UNCHANGED <<start, now, outcome>>
    BY <1>2 DEF remote_msg_dequeue, Inv, Types, Unsent
  <2> QED BY <2>1, <2>2, DequeuedKeeps
<1>3. CASE remote_relay_data_ind
  BY <1>3, ReceiveKeeps
<1>4. CASE Tick
  <2>1. now' \in 0..Horizon /\ now \in Nat /\ now' = now + 1
    BY <1>4, RelaySyncAssumption DEF Tick, Inv, Types
  <2>2. Types'
    BY <1>4, <2>1 DEF Tick, Inv, Types, Messages, Lead
  <2>3. Sent'
    <3>1. ASSUME NEW j \in DOMAIN chan PROVE chan[j].sent \in 0..now'
      BY <2>1, <3>1 DEF Inv, Sent, Appointed
    <3> QED BY <1>4, <3>1 DEF Tick, Inv, Sent, Appointed, Base
  <2> QED BY <1>4, <2>2, <2>3 DEF Tick, Inv, Unsent, Received, SameInstant, ExpiredOnlyForACause
<1> QED BY <1>1, <1>2, <1>3, <1>4 DEF Next

\* The inductive invariant holds in every reachable state.
LEMMA Invariance == ASSUME ClocksApart PROVE Spec => []Inv
<1>1. Init => Inv
  BY InitInv
<1>2. Inv /\ [Next]_vars => Inv'
  <2>1. ASSUME Inv, UNCHANGED vars PROVE Inv'
    <3>1. Types' /\ Sent'
      BY <2>1 DEF vars, Inv, Types, Sent, Appointed, Base, Messages, Lead
    <3> QED BY <2>1, <3>1 DEF vars, Inv, Unsent, Received, SameInstant, ExpiredOnlyForACause
  <2> QED BY <2>1, NextKeeps
<1> QED BY <1>1, <1>2, PTL DEF Spec

-----------------------------------------------------------------------------
(* A message whose clock never changed.                                    *)

\* The first appointment: the slot asked for.
LEMMA MessageAwaited ==
    ASSUME Types, PeriodsFit, NEW p \in Periods, NEW id,
           NEW read \in Readings, read["NONE"].ref # "NONE"
    PROVE  Awaited(Message(id, p, read))
<1> DEFINE clk == read["NONE"]
           of == clk.of
<1>1. /\ ClkMod \in Nat /\ ClkMod > 0 /\ DurMod \in Nat /\ DurMod > 0 /\ MinLead \in Nat
      /\ p \in Nat /\ p < DurMod /\ now \in Nat
      /\ clk.of \in Piconets /\ Found(clk.ref, clk.of) \in Answers
  BY RelaySyncAssumption, ReadFinds, AnswerFacts, SMTT(20) DEF Types, PeriodsFit
<1> HIDE DEF clk
<1>2. Base(of) \in Nat /\ Time(of) = (Base(of) + now) % ClkMod /\ Time(of) \in 0..(ClkMod - 1)
  BY <1>1, ClockReads, TimeRange
<1> DEFINE m == Message(id, p, read)
<1>3. /\ m.ref = clk.ref /\ m.of = of /\ m.slot = (Time(of) + p) % ClkMod /\ m.dur = p % DurMod
      /\ m.asked = now + p
  BY DEF Message, clk
<1> HIDE DEF m, of
<1>4. m.dur = p
  BY <1>1, <1>3
<1>5. m.slot % ClkMod = (Base(of) + (now + p)) % ClkMod
  <2> DEFINE s == Time(of) + p
             x == Base(of) + now
  <2>1. s \in Int /\ x \in Int
    BY <1>1, <1>2
  <2>2. m.slot % ClkMod = s % ClkMod
    <3>1. s % ClkMod \in 0..(ClkMod - 1)
      BY <1>1, <2>1, Quotient
    <3> HIDE DEF s
    <3>2. (s % ClkMod) % ClkMod = s % ClkMod
      <4> DEFINE u == s % ClkMod
      <4>1. u \in 0..(ClkMod - 1)
        BY <3>1
      <4> HIDE DEF u
      <4>2. u % ClkMod = u
        BY <1>1, <4>1
      <4> QED BY <4>2 DEF u
    <3> QED BY <1>3, <3>2 DEF s
  <2>3. PICK q \in Int : x = q * ClkMod + (x % ClkMod)
    BY <1>1, <2>1, Quotient
  <2>4. Base(of) + (now + p) = s + q * ClkMod
    <3> DEFINE c == Time(of)
               k == q * ClkMod
               b == Base(of)
    <3>1. b + now = k + c
      BY <1>2, <2>3
    <3>2. b \in Int /\ k \in Int /\ c \in Int
      BY <1>1, <1>2
    <3> HIDE DEF b, c, k
    <3>3. b + (now + p) = (c + p) + k
      BY <1>1, <3>1, <3>2
    <3> QED BY <3>3 DEF b, c, k
  <2>5. TurnsHide(s, q, ClkMod)
    BY <1>1, <2>1, Turns
  <2> HIDE DEF s
  <2> QED BY <2>2, <2>4, <2>5 DEF TurnsHide
<1>6. Due(m, now + p)
  <2>1. now + p <= now + m.dur
    BY <1>1, <1>4
  <2> QED BY <1>3, <1>5, <2>1 DEF Due
<1>7. now + p \in Nat
  BY <1>1
<1> QED BY <1>1, <1>3, <1>6, <1>7 DEF Awaited, m, of

\* A new one is the old one, if it is still MinLead away, and else MinLead away.
LEMMA StampTimely ==
    ASSUME Types, ClocksApart, PeriodsFit, NEW m \in Messages, Awaited(m),
           NEW read \in Readings
    PROVE  InTime(Stamped(m, read)) /\ Awaited(Stamped(m, read))
<1> DEFINE clk == read["NONE"]
           of == clk.of
           s == Stamped(m, read)
           off == Slots(m.slot, Time(of))
<1>1. /\ s.asked = m.asked /\ s.ref = clk.ref /\ s.of = of /\ s.sent = now
      /\ Found(s.ref, s.of) \in Answers
      /\ s.kept = (m.kept /\ m.of = of)
      /\ s.slot = Time(of) + s.dur /\ s \in Messages
      /\ s.dur = IF m.ref # clk.ref \/ off < MinLead \/ off > Half THEN MinLead
                 ELSE IF off > m.dur THEN m.dur
                 ELSE off
  BY StampMakes
<1> HIDE DEF s, off, clk, of
<1>2. CASE ~s.kept
  BY <1>2 DEF InTime, Awaited, s
<1>3. CASE s.kept
  <2>1. m.kept /\ m.of = of /\ of \in Piconets /\ m.ref = clk.ref
    <3>1. m.kept /\ m.of = of /\ of \in Piconets /\ Found(m.ref, m.of) \in Answers
      BY <1>1, <1>3 DEF Awaited
    <3>2. Found(m.ref, of).of = of /\ Found(m.ref, of).ref = m.ref
          /\ Found(s.ref, of).of = of /\ Found(s.ref, of).ref = s.ref
      BY DEF Found
    <3> QED BY <1>1, <3>1, <3>2, AnswerFacts DEF Piconets, Refs
  <2>2. PICK a \in Nat : Due(m, a)
    BY <2>1 DEF Awaited
  <2>3. /\ ClkMod \in Nat /\ ClkMod > 0 /\ Horizon \in Nat /\ MinLead \in Nat /\ MinLead < Half
        /\ now \in Nat /\ now <= Horizon /\ 2 * Horizon <= ClkMod
        /\ m.asked \in Nat /\ m.slot \in Int
        /\ m.dur \in Nat /\ m.dur < ClkMod /\ m.dur < Half
        /\ Half \in Int /\ 2 * Half <= ClkMod - 2
        /\ s.dur \in Nat
    <3>1. m.dur \in Lead /\ s.dur \in Lead /\ m.asked \in Nat /\ m.slot \in Int
      BY <1>1 DEF Messages
    <3>2. now \in Nat /\ now <= Horizon /\ 2 * Horizon <= ClkMod
      BY RelaySyncAssumption DEF Types, PeriodsFit
    <3>3. ClkMod \in Nat /\ ClkMod > 0 /\ Horizon \in Nat /\ MinLead \in Nat
      BY RelaySyncAssumption
    <3>4. MinLead < Half /\ m.dur \in Nat /\ m.dur < ClkMod /\ m.dur < Half /\ s.dur \in Nat
      BY <3>1, LeadFacts
    <3> QED BY <3>1, <3>2, <3>3, <3>4, HalfTurn
  <2> HIDE DEF Half
  <2>4. a <= now + m.dur /\ (a = m.asked \/ (m.asked <= a /\ a <= now + MinLead))
    BY <2>2 DEF Due
  <2>5. Base(of) \in Nat /\ Time(of) = (Base(of) + now) % ClkMod
    BY <2>1, ClockReads
  <2>6. off = (a - now) % ClkMod
    <3> DEFINE x == Base(of) + a
               y == Base(of) + now
    <3>1. x \in Int /\ y \in Int /\ x - y = a - now
      <4> DEFINE b == Base(of)
      <4>1. b \in Int /\ now \in Int
        BY <2>3, <2>5
      <4> HIDE DEF b
      <4>2. (b + a) - (b + now) = a - now /\ b + a \in Int /\ b + now \in Int
        BY <4>1
      <4> QED BY <4>2 DEF b
    <3>2. m.slot % ClkMod = x % ClkMod
      BY <2>1, <2>2 DEF Due
    <3>3. off = (m.slot - (y % ClkMod)) % ClkMod
      BY <2>5 DEF off, Slots
    <3> HIDE DEF x, y
    <3>4. (m.slot - (y % ClkMod)) % ClkMod = (x - y) % ClkMod
      <4> DEFINE c == ClkMod
                 u == m.slot
      <4>1. u \in Int /\ c \in Nat /\ c > 0 /\ u % c = x % c
        BY <2>3, <3>2
      <4> HIDE DEF u, c
      <4>2. (u - (y % c)) % c = (x - y) % c
        BY <3>1, <4>1, Apart
      <4> QED BY <4>2 DEF u, c
    <3> QED BY <3>1, <3>3, <3>4
  <2> DEFINE due == IF m.asked >= now + MinLead THEN m.asked ELSE now + MinLead
  <2>7. ASSUME a >= now PROVE now + s.dur = due
    <3>1. off = a - now
      <4> DEFINE e == a - now
      <4>1. e \in Nat /\ e < ClkMod
        BY <2>3, <2>4, <2>7
      <4> HIDE DEF e
      <4>2. e % ClkMod = e
        BY <2>3, <4>1
      <4> QED BY <2>6, <4>2 DEF e
    <3>2. s.dur = IF a - now < MinLead THEN MinLead ELSE a - now
      BY <1>1, <2>1, <2>3, <2>4, <2>7, <3>1
    <3> QED BY <2>3, <2>4, <2>7, <3>2
  <2>8. ASSUME a < now PROVE now + s.dur = due
    <3>1. off > Half
      <4> DEFINE e == a - now
      <4>1. e \in Int /\ e < 0 /\ e >= -Horizon /\ e >= -ClkMod
        BY <2>3, <2>8
      <4> HIDE DEF e
      <4>2. e % ClkMod = e + ClkMod
        BY <2>3, <4>1
      <4> QED BY <2>3, <2>6, <4>1, <4>2 DEF e
    <3>2. s.dur = MinLead
      BY <1>1, <3>1
    <3> QED BY <2>3, <2>4, <2>8, <3>2
  <2>9. now + s.dur = due
    BY <2>3, <2>7, <2>8
  <2>10. InTime(s)
    BY <1>1, <2>1, <2>9 DEF InTime
  <2>11. Due(s, now + s.dur)
    <3>1. s.slot % ClkMod = (Base(of) + (now + s.dur)) % ClkMod
      <4> DEFINE x == Base(of) + now
      <4>1. x \in Int
        BY <2>3, <2>5
      <4>2. PICK q \in Int : x = q * ClkMod + (x % ClkMod)
        BY <2>3, <4>1, Quotient
      <4>3. s.slot = (x % ClkMod) + s.dur /\ s.slot \in Int
        BY <1>1, <2>5 DEF Messages
      <4>4. Base(of) + (now + s.dur) = s.slot + q * ClkMod
        BY <2>3, <2>5, <4>2, <4>3
      <4>5. TurnsHide(s.slot, q, ClkMod)
        BY <2>3, <4>3, Turns
      <4> QED BY <4>4, <4>5 DEF TurnsHide
    <3>2. now + s.dur = m.asked \/ (m.asked <= now + s.dur /\ now + s.dur <= now + MinLead)
      BY <2>3, <2>9
    <3>3. now + s.dur <= now + s.dur
      BY <2>3
    <3> QED BY <1>1, <3>1, <3>2, <3>3 DEF Due
  <2>12. now + s.dur \in Nat
    BY <2>3
  <2> QED BY <1>1, <2>1, <2>10, <2>11, <2>12 DEF Awaited, s
<1> QED BY <1>1, <1>2, <1>3

\* What a step that dequeues may put into the channel and leave in the queue.
LEMMA DequeuedParts ==
    ASSUME Types, ClocksApart, NEW q, q \in Seq(Messages), NEW read \in Readings,
           Dequeued(q, read)
    PROVE  /\ \A j \in DOMAIN chan' : \/ j \in DOMAIN chan /\ chan'[j] = chan[j]
                                     \/ \E k \in DOMAIN q : chan'[j] = Stamped(q[k], read)
           /\ \A j \in DOMAIN queue' : \E k \in DOMAIN q : queue'[j] = q[k] \/ queue'[j] = Stamped(q[k], read)
<1>1. PICK n \in 0..Len(q), failed \in BOOLEAN :
         LET out == [i \in 1..n |-> Stamped(q[i], read)]
         IN  /\ chan' = chan \o out
             /\ queue' = [i \in 1..(Len(q) - n) |->
                            IF i = 1 /\ failed THEN Stamped(q[n + 1], read) ELSE q[n + i]]
  BY DEF Dequeued
<1> DEFINE out == [i \in 1..n |-> Stamped(q[i], read)]
<1>2. Len(q) \in Nat /\ n \in Nat /\ n <= Len(q) /\ DOMAIN q = 1..Len(q) /\ chan \in Seq(Messages)
  BY DEF Types
<1>3. \A k \in DOMAIN q : Stamped(q[k], read) \in Messages
  <2> SUFFICES ASSUME NEW k \in DOMAIN q PROVE Stamped(q[k], read) \in Messages
    OBVIOUS
  <2>1. q[k] \in Messages
    BY <1>2
  <2> QED BY <2>1, StampMakes
<1>4. out \in Seq(Messages) /\ Len(out) = n /\ \A k \in 1..n : k \in DOMAIN q /\ out[k] = Stamped(q[k], read)
  BY <1>2, <1>3, SeqDef
<1>5. chan' = chan \o out
  BY <1>1
<1> HIDE DEF out
<1>6. ASSUME NEW j \in DOMAIN chan', j \notin DOMAIN chan
      PROVE  \E k \in DOMAIN q : chan'[j] = Stamped(q[k], read)
  <2>1. j - Len(chan) \in 1..n /\ chan'[j] = out[j - Len(chan)]
    BY <1>2, <1>4, <1>5, <1>6
  <2> QED BY <1>4, <2>1
<1>7. ASSUME NEW j \in DOMAIN chan', j \in DOMAIN chan PROVE chan'[j] = chan[j]
  BY <1>2, <1>4, <1>5, <1>7
<1>8. ASSUME NEW j \in DOMAIN queue'
      PROVE  \E k \in DOMAIN q : queue'[j] = q[k] \/ queue'[j] = Stamped(q[k], read)
  <2>1. /\ j \in 1..(Len(q) - n)
        /\ queue'[j] = IF j = 1 /\ failed THEN Stamped(q[n + 1], read) ELSE q[n + j]
    BY <1>1
  <2>2. n + j \in DOMAIN q
    BY <1>2, <2>1
  <2>3. CASE j = 1 /\ failed
    BY <2>1, <2>2, <2>3
  <2>4. CASE ~(j = 1 /\ failed)
    BY <2>1, <2>2, <2>4
  <2> QED BY <2>3, <2>4
<1> QED BY <1>6, <1>7, <1>8

\* Time changes nothing for a message that waits.
LEMMA AwaitedStays ==
    ASSUME Inv, Timely, start' = start, now' \in {now, now + 1}, queue' = queue, chan' = chan
    PROVE  Timely'
<1>1. ASSUME NEW j \in DOMAIN queue, NEW a \in Nat, Due(queue[j], a) PROVE Due(queue[j], a)'
  <2>1. now \in Nat /\ now' \in Nat /\ now <= now' /\ MinLead \in Nat
    BY RelaySyncAssumption, SMTT(20) DEF Inv, Types
  <2>2. queue[j].dur \in Nat /\ queue[j].asked \in Nat
    <3>1. queue \in Seq(Messages)
      BY DEF Inv, Types
    <3>2. queue[j] \in Messages
      BY <3>1
    <3> QED BY <3>2 DEF Messages, Lead
  <2> DEFINE m == queue[j]
  <2>3. a <= now' + m.dur /\ (a = m.asked \/ (m.asked <= a /\ a <= now' + MinLead))
    <3> DEFINE d == m.dur
               t == now'
    <3>1. a <= now + d /\ (a = m.asked \/ (m.asked <= a /\ a <= now + MinLead))
      BY <1>1 DEF Due
    <3>2. d \in Nat /\ t \in Nat /\ now <= t
      BY <2>1, <2>2
    <3> HIDE DEF d, t
    <3>3. a <= t + d /\ (a <= now + MinLead => a <= t + MinLead)
      BY <2>1, <3>1, <3>2
    <3> QED BY <3>1, <3>3 DEF d, t
  <2>4. m.slot % ClkMod = (Base(m.of) + a) % ClkMod
    BY <1>1 DEF Due
  <2> QED BY <2>3, <2>4 DEF Due, Base
<1>2. \A j \in DOMAIN queue : Awaited(queue[j])'
  <2> SUFFICES ASSUME NEW j \in DOMAIN queue, queue[j].kept
               PROVE  /\ queue[j].of \in Piconets /\ Found(queue[j].ref, queue[j].of) \in Answers
                      /\ \E a \in Nat : Due(queue[j], a)'
    BY DEF Awaited
  <2> QED BY <1>1 DEF Timely, Awaited
<1> QED BY <1>2 DEF Timely, Awaited, InTime

\* Whatever is sent or stays in the queue has been stamped, or is as it was.
LEMMA DequeuedTimely ==
    ASSUME Types, ClocksApart, PeriodsFit, Timely, NEW q, q \in Seq(Messages),
           NEW read \in Readings, Dequeued(q, read),
           \A j \in DOMAIN q : Awaited(q[j]), start' = start, now' = now
    PROVE  Timely'
<1>1. \A k \in DOMAIN q : Awaited(Stamped(q[k], read)) /\ InTime(Stamped(q[k], read))
  <2> SUFFICES ASSUME NEW k \in DOMAIN q PROVE Awaited(Stamped(q[k], read)) /\ InTime(Stamped(q[k], read))
    OBVIOUS
  <2>1. q[k] \in Messages /\ Awaited(q[k])
    OBVIOUS
  <2> QED BY <2>1, StampTimely
<1>2. \A j \in DOMAIN queue' : Awaited(queue'[j])
  <2> SUFFICES ASSUME NEW j \in DOMAIN queue' PROVE Awaited(queue'[j])
    OBVIOUS
  <2>1. PICK k \in DOMAIN q : queue'[j] = q[k] \/ queue'[j] = Stamped(q[k], read)
    BY DequeuedParts
  <2> QED BY <1>1, <2>1
<1>3. \A j \in DOMAIN chan' : InTime(chan'[j])
  <2> SUFFICES ASSUME NEW j \in DOMAIN chan' PROVE InTime(chan'[j])
    OBVIOUS
  <2>1. \/ j \in DOMAIN chan /\ chan'[j] = chan[j]
        \/ \E k \in DOMAIN q : chan'[j] = Stamped(q[k], read)
    BY DequeuedParts
  <2> QED BY <1>1, <2>1 DEF Timely
<1>4. \A j \in DOMAIN queue' : Awaited(queue[j])'
  BY <1>2 DEF Awaited, Due, Base
<1>5. \A j \in DOMAIN chan' : InTime(chan[j])'
  BY <1>3 DEF InTime
<1> QED BY <1>4, <1>5 DEF Timely

\* Every step of Next keeps what is said of messages whose clock never changed.
LEMMA NextTimely ==
    ASSUME Inv, ClocksApart, PeriodsFit, Timely, Next
    PROVE  Timely'
<1>0. Types /\ queue \in Seq(Messages) /\ \A j \in DOMAIN queue : Awaited(queue[j])
  BY DEF Inv, Types, Timely
<1>1. CASE remote_sync_msg_relay
  <2>1. PICK read \in Readings, p \in Periods, id \in Ids :
          /\ read["NONE"].ref # "NONE" /\ id \notin Known
          /\ Dequeued(Append(queue, Message(id, p, read)), read)
    BY <1>1 DEF remote_sync_msg_relay
  <2> DEFINE m == Message(id, p, read)
             q == Append(queue, m)
  <2>2. start' = start /\ now' = now
    BY <1>1 DEF remote_sync_msg_relay
  <2>3. m \in Messages /\ q \in Seq(Messages)
    BY <2>1, RelayAppends
  <2>4. Awaited(m)
    BY <1>0, <2>1, MessageAwaited
  <2>5. Dequeued(q, read)
    BY <2>1
  <2> HIDE DEF m
  <2>6. \A j \in DOMAIN q : Awaited(q[j])
    <3>1. \A j \in DOMAIN q : q[j] = m \/ (j \in DOMAIN queue /\ q[j] = queue[j])
      BY <1>0
    <3> QED BY <1>0, <2>4, <3>1
  <2> HIDE DEF q
  <2> QED BY <1>0, <2>2, <2>3, <2>5, <2>6, DequeuedTimely
<1>2. CASE remote_msg_dequeue
  <2>1. PICK read \in Readings : Dequeued(queue, read)
    BY <1>2 DEF remote_msg_dequeue
  <2>2. start' = start /\ now' = now
    BY <1>2 DEF remote_msg_dequeue
  <2> QED BY <1>0, <2>1, <2>2, DequeuedTimely
<1>3. CASE remote_relay_data_ind
  <2>1. chan \in Seq(Messages) /\ chan # <<>> /\ chan' = Tail(chan)
        /\ queue' = queue /\ start' = start /\ now' = now
    BY <1>3 DEF remote_relay_data_ind, Inv, Types
  <2>2. \A j \in DOMAIN chan' : j + 1 \in DOMAIN chan /\ chan'[j] = chan[j + 1]
    BY <2>1
  <2>3. \A j \in DOMAIN chan' : InTime(chan'[j])
    BY <2>2 DEF Timely
  <2>4. \A j \in DOMAIN chan' : InTime(chan[j])'
    BY <2>3 DEF InTime
  <2>5. \A j \in DOMAIN queue' : Awaited(queue[j])'
    BY <2>1 DEF Timely, Awaited, Due, Base
  <2> QED BY <2>4, <2>5 DEF Timely
<1>4. CASE Tick
  <2>1. start' = start /\ now' \in {now, now + 1} /\ queue' = queue /\ chan' = chan
    BY <1>4 DEF Tick
  <2> QED BY <2>1, AwaitedStays
<1> QED BY <1>1, <1>2, <1>3, <1>4 DEF Next

\* And so that holds in every reachable state.
LEMMA TimelyInvariance == ASSUME ClocksApart, PeriodsFit PROVE Spec => []Timely
<1>1. Init => Timely
  BY DEF Init, Timely
<1>2. Inv /\ Timely /\ [Next]_vars => Timely'
  <2>1. ASSUME Inv, Timely, UNCHANGED vars PROVE Timely'
    BY <2>1, AwaitedStays DEF vars
  <2> QED BY <2>1, NextTimely
<1> QED BY <1>1, <1>2, Invariance, PTL DEF Spec

-----------------------------------------------------------------------------
(* The theorems.                                                           *)

\* Whatever waits, travels or loses its clock: if the receiver of a synchronous
\* message raises a timer (remote_relay_data_ind), it fires in the slot of the
\* timer that the sender raised (remote_raise_cmd_timer).  Only when the sender was
\* refused its own clock does its timer fire at once, and the receiver's follow.
THEOREM TimersMeet == ASSUME ClocksApart PROVE Spec => []SameInstant
BY Invariance, PTL DEF Inv

\* A message that arrives before its slot is reported expired only if the sum that
\* remote_msg_dequeue sends was not reduced to the range of the clock, or if the
\* receiver read the clock of another phone.
THEOREM ExpiredForACause == ASSUME ClocksApart PROVE Spec => []ExpiredOnlyForACause
BY Invariance, PTL DEF Inv

\* However often remote_msg_dequeue makes a new appointment for a message while it
\* waits: it is for the slot asked for, or MinLead after it is sent if that is
\* later, and the sender keeps it unless it was refused its clock.
THEOREM FiresAsAsked == ASSUME ClocksApart, PeriodsFit PROVE Spec => []FiresWhenAsked
<1>1. Inv /\ Timely => FiresWhenAsked
  <2> SUFFICES ASSUME Inv, Timely, NEW j \in DOMAIN chan, chan[j].kept, ~chan[j].refused
               PROVE  LET m == chan[j]
                      IN  sender[m.id] = IF m.asked >= m.sent + MinLead THEN m.asked
                                                                      ELSE m.sent + MinLead
    BY DEF FiresWhenAsked, Travelling
  <2>1. InTime(chan[j]) /\ Appointed(chan[j], now, sender[chan[j].id])
    BY DEF Inv, Sent, Timely
  <2>2. chan[j].of # "none"
    BY <2>1 DEF InTime, Piconets, Phones
  <2> QED BY <2>1, <2>2 DEF InTime, Appointed
<1> QED BY <1>1, Invariance, TimelyInvariance, PTL
=============================================================================
