----------------------------- MODULE WebProofs -----------------------------
(***************************************************************************)
(* Proofs about both directions of the web: WebClient restarts the device   *)
(* only when uploads have stayed without a good reply, TcpServer lets no    *)
(* connection stop half way unless a segment is lost, and Packets sends     *)
(* nothing that its receiver would drop.                                    *)
(*                                                                         *)
(* The monitor also counts lookups, so that ResetNeedsFailures says nothing *)
(* of a device that still runs.  MonitorInv says where each count of the    *)
(* monitor comes from: an upload without a reply, a host that was saved, or *)
(* the one lookup of the start, which is counted once it has begun.         *)
(*                                                                         *)
(* ServedUnlessLost speaks of a network at rest only.  ServerInv says what  *)
(* is under way in each state of a browser: what it sent last, or an answer *)
(* with the two numbers it waits for.  The numbers are the same because the *)
(* addition byte by byte is one modulo the four bytes (StepSeqIs).          *)
(*                                                                         *)
(* SentIsTaken rests on two facts about sums: adding the carry leaves what  *)
(* the sum is modulo the largest word (EndAroundIs), and bytes of one word  *)
(* change the sum by what they change that word (WordChanged).              *)
(***************************************************************************)
EXTENDS WebClient, TcpServer, Packets,
        NaturalsInduction, WellFoundedInduction, SequenceTheorems, TLAPS

Looked == IF dns_state = 0 THEN 0 ELSE 1

MonitorTypes ==
  /\ web_client_monitor \in Nat /\ unanswered \in Nat /\ saves \in Nat
  /\ dns_state \in {0, 1, 2} /\ dead \in BOOLEAN

MonitorInv ==
  /\ MonitorTypes
  /\ web_client_monitor <= unanswered + saves + Looked
  /\ ResetNeedsFailures

LEMMA MinOfTwo ==
  ASSUME NEW m \in Nat, NEW n \in Nat
  PROVE  Min({m, n}) = IF m <= n THEN m ELSE n
BY DEF Min

LEMMA MonitorInitially == WebInit => MonitorInv
<1> SUFFICES ASSUME WebInit PROVE MonitorInv
  OBVIOUS
<1>1. dead = FALSE
  BY Zenon DEF WebInit
<1>2. ResetNeedsFailures
  BY <1>1, Zenon DEF ResetNeedsFailures
<1>3. MonitorTypes /\ web_client_monitor <= unanswered + saves + Looked
  <2>1. dns_state = 0 /\ web_client_monitor = 0 /\ unanswered = 0 /\ saves = 0
    BY Zenon DEF WebInit
  <2>2. dead \in BOOLEAN
    BY <1>1, Zenon
  <2> QED BY <2>1, <2>2 DEF MonitorTypes, Looked
<1> QED BY <1>2, <1>3 DEF MonitorInv

(* A callback leaves the monitor alone or starts the count again. *)
LEMMA CallbackStep ==
  ASSUME MonitorInv, NEW status, Callback(status), ~dead, UNCHANGED lookup
  PROVE  MonitorInv'
<1>1. CASE UNCHANGED monitor
  BY <1>1 DEF MonitorInv, MonitorTypes, Looked, ResetNeedsFailures, monitor, lookup
<1>2. CASE GoodReply
  BY <1>2 DEF MonitorInv, MonitorTypes, Looked, ResetNeedsFailures, GoodReply, lookup
<1> QED BY <1>1, <1>2 DEF Callback, boxcallback, browserresult_callback, lcd_callback

LEMMA UploadStep ==
  ASSUME MonitorInv, Upload, ~dead, dns_state' # 0, dns_state' \in {1, 2}, dns_state # 0
  PROVE  MonitorInv'
<1>1. unanswered + 1 \in Nat /\ UploadLimit \in Nat
  BY WebClientAssumption DEF MonitorInv, MonitorTypes
<1>2. unanswered' = IF unanswered + 1 <= UploadLimit THEN unanswered + 1 ELSE UploadLimit
  BY <1>1, MinOfTwo DEF Upload
<1> QED BY <1>1, <1>2 DEF MonitorInv, MonitorTypes, Looked, ResetNeedsFailures, Upload, UploadGivesUp

LEMMA IdleStep == ASSUME MonitorInv, Idle PROVE MonitorInv'
<1>1. CASE StartLookup
  BY <1>1 DEF Idle, StartLookup, MonitorInv, MonitorTypes, Looked, ResetNeedsFailures
<1>2. CASE AwaitLookup
  BY <1>2 DEF Idle, AwaitLookup, monitor, MonitorInv, MonitorTypes, Looked, ResetNeedsFailures
<1>3. CASE Resolved /\ (NoWish \/ ReportBox \/ FetchLcd)
  BY <1>3 DEF Resolved, NoWish, ReportBox, FetchLcd, monitor,
              MonitorInv, MonitorTypes, Looked, ResetNeedsFailures
<1>4. CASE Resolved /\ Upload
  BY <1>4, UploadStep DEF Resolved, Idle
<1> QED BY <1>1, <1>2, <1>3, <1>4 DEF Idle

LEMMA MonitorStep == MonitorInv /\ [WebNext]_webVars => MonitorInv'
<1> SUFFICES ASSUME MonitorInv, [WebNext]_webVars PROVE MonitorInv'
  OBVIOUS
<1>1. CASE scheduleRun
  BY <1>1 DEF scheduleRun, monitor, MonitorInv, MonitorTypes, Looked, ResetNeedsFailures
<1>2. CASE Idle
  BY <1>2, IdleStep
<1>3. CASE Die
  BY <1>3, WebClientAssumption DEF Die, LookupGivesUp, UploadGivesUp, lookup,
    MonitorInv, MonitorTypes, Looked, ResetNeedsFailures
<1>4. CASE Restart
  <2>1. dead' = FALSE
    BY <1>4, Zenon DEF Restart
  <2>2. ResetNeedsFailures' /\ dead' \in BOOLEAN
    BY <2>1, Zenon DEF ResetNeedsFailures
  <2>3. dns_state' = 0 /\ web_client_monitor' = 0 /\ unanswered' = 0 /\ saves' = 0
    BY <1>4, Zenon DEF Restart
  <2> QED BY <2>2, <2>3 DEF MonitorInv, MonitorTypes, Looked
<1>5. CASE Packet
  <2>1. CASE UNCHANGED monitor
    BY <1>5, <2>1 DEF Packet, lookup, monitor, MonitorInv, MonitorTypes, Looked, ResetNeedsFailures
  <2>2. CASE \E status : Callback(status)
    BY <1>5, <2>2, CallbackStep DEF Packet
  <2> QED BY <1>5, <2>1, <2>2 DEF Packet, monitor
<1>6. CASE ServePage
  BY <1>6 DEF ServePage, MonitorInv, MonitorTypes, Looked, ResetNeedsFailures
<1>7. CASE UNCHANGED webVars
  BY <1>7 DEF webVars, lookup, monitor, MonitorInv, MonitorTypes, Looked, ResetNeedsFailures
<1> QED BY <1>1, <1>2, <1>3, <1>4, <1>5, <1>6, <1>7 DEF WebNext

(* Only failed uploads, and hosts that are saved meanwhile, bring the device *)
(* to restart itself, for every pair of limits and any number of saves.      *)
THEOREM RestartNeedsFailures == WebSpec => []ResetNeedsFailures
<1>1. MonitorInv => ResetNeedsFailures
  BY DEF MonitorInv
<1> QED BY MonitorInitially, MonitorStep, <1>1, PTL DEF WebSpec

-----------------------------------------------------------------------------
(* Numbers of four bytes. *)
(* Division with remainder. *)
LEMMA DivMod ==
  ASSUME NEW a \in Nat, NEW d \in Nat \ {0}
  PROVE  a \div d \in Nat /\ a % d \in Nat /\ a % d < d /\ a = d * (a \div d) + (a % d)
<1>1. a \div d \in Int /\ a % d \in Int
  OBVIOUS
<1>2. a \div d >= 0
  OBVIOUS
<1>3. 0 <= a % d /\ a % d < d
  OBVIOUS
<1>4. a = d * (a \div d) + (a % d)
  OBVIOUS
<1> QED
  BY <1>1, <1>2, <1>3, <1>4

(* A number of two digits is less than one whose higher digit is more. *)
LEMMA Below ==
  ASSUME NEW a \in Nat, NEW d \in Nat \ {0}, a < d, NEW e \in Nat, NEW m \in Nat, e < m
  PROVE  a + d * e \in Nat /\ a + d * e < d * m
<1>1. d * e + d <= d * m
  <2>1. d * (e + 1) <= d * m
    BY SMT
  <2> QED
    BY <2>1
<1> QED
  BY <1>1

(* There is one quotient and one remainder. *)
LEMMA DivModIs ==
  ASSUME NEW d \in Nat \ {0}, NEW q \in Nat, NEW r \in Nat, r < d
  PROVE  (d * q + r) \div d = q /\ (d * q + r) % d = r
<1> DEFINE a == d * q + r
           p == a \div d
           s == a % d
<1>1. a \in Nat /\ p \in Nat /\ s \in Nat /\ s < d /\ d * q + r = d * p + s
  BY DivMod
<1> HIDE DEF p, s
<1>2. ~(p < q)
  <2> SUFFICES ASSUME p < q PROVE FALSE
    OBVIOUS
  <2>1. s + d * p < d * q
    BY <1>1, Below
  <2> QED
    BY <1>1, <2>1
<1>3. ~(q < p)
  <2> SUFFICES ASSUME q < p PROVE FALSE
    OBVIOUS
  <2>1. r + d * q < d * p
    BY <1>1, Below
  <2> QED
    BY <1>1, <2>1
<1>4. p = q
  BY <1>1, <1>2, <1>3
<1>5. s = r
  BY <1>1, <1>4
<1> QED
  BY <1>4, <1>5 DEF p, s

(* The bytes of a number one by one. *)
LEMMA DivTwice ==
  ASSUME NEW a \in Nat, NEW d \in Nat \ {0}, NEW e \in Nat \ {0}
  PROVE  a \div (d * e) = (a \div d) \div e
<1> DEFINE q == a \div d
           r == a % d
           s == q \div e
           t == q % e
<1>1. q \in Nat /\ r \in Nat /\ r < d /\ a = d * q + r
  BY DivMod
<1>2. s \in Nat /\ t \in Nat /\ t < e /\ q = e * s + t
  BY <1>1, DivMod
<1> HIDE DEF q, r, s, t
<1>3. r + d * t \in Nat /\ r + d * t < d * e /\ d * e \in Nat \ {0}
  BY <1>1, <1>2, Below
<1>4. a = (d * e) * s + (r + d * t)
  <2>1. d * q = d * (e * s) + d * t
    BY <1>2
  <2>2. d * (e * s) = (d * e) * s
    BY <1>2
  <2> QED
    BY <1>1, <1>2, <2>1, <2>2
<1> HIDE DEF q
<1>5. a \div (d * e) = s
  BY <1>2, <1>3, <1>4, DivModIs
<1> QED
  BY <1>5 DEF s, q

(* One byte of the sum and what is carried. *)
LEMMA OneByte ==
  ASSUME NEW a \in Nat, NEW n \in Nat, NEW d \in Nat \ {0}
  PROVE  LET s == (a % d) + n
         IN  /\ a + n = (s % d) + d * ((a \div d) + (s \div d))
             /\ s % d \in Nat /\ s % d < d /\ s \div d \in Nat /\ a \div d \in Nat
<1> DEFINE s == (a % d) + n
           q == a \div d
           c == s \div d
<1>1. q \in Nat /\ a % d \in Nat /\ a = d * q + (a % d)
  BY DivMod
<1>2. s \in Nat
  BY <1>1
<1>3. c \in Nat /\ s % d \in Nat /\ s % d < d /\ s = d * c + (s % d)
  BY <1>2, DivMod
<1>4. d * (q + c) = d * q + d * c
  BY <1>1, <1>3
<1>5. a + n = (d * q) + s
  BY <1>1
<1> HIDE DEF q, c, s
<1>6. a + n = (s % d) + d * (q + c)
  BY <1>1, <1>3, <1>4, <1>5
<1> QED
  BY <1>1, <1>3, <1>6 DEF q, c, s

(* step_seq adds, and drops the carry out of the highest byte. *)
LEMMA StepSeqIs ==
  ASSUME NEW x \in Sequence, NEW n \in Nat
  PROVE  step_seq(x, n) = (x + n) % SequenceSize /\ step_seq(x, n) \in Sequence
<1> DEFINE B == Base
           f == CHOOSE carry : carry = [i \in 1 .. 4 |->
                  IF i = 1 THEN n ELSE (((x \div Weight[i - 1]) % Base) + carry[i - 1]) \div Base]
           q1 == x \div Base
           q2 == q1 \div Base
           q3 == q2 \div Base
           s0 == (x % Base) + n
           c1 == s0 \div Base
           s1 == (q1 % Base) + c1
           c2 == s1 \div Base
           s2 == (q2 % Base) + c2
           c3 == s2 \div Base
           s3 == (q3 % Base) + c3
           c4 == s3 \div Base
           d0 == s0 % Base
           d1 == s1 % Base
           d2 == s2 % Base
           d3 == s3 % Base
<1>1. Base \in Nat \ {0} /\ x \in Nat /\ x < SequenceSize /\ SequenceSize \in Nat
  BY ServerAssumption DEF Sequence, SequenceSize
<1>2. /\ x \div Weight[1] = x /\ x \div Weight[2] = q1
      /\ x \div Weight[3] = q2 /\ x \div Weight[4] = q3
  <2>1. x \div 1 = x
    BY <1>1
  <2>2. x \div (Base * Base) = q2
    BY <1>1, DivTwice
  <2>3. x \div ((Base * Base) * Base) = (x \div (Base * Base)) \div Base
    <3>1. Base * Base \in Nat \ {0}
      BY <1>1
    <3> QED
      BY <1>1, <3>1, DivTwice
  <2>4. Base * Base * Base = (Base * Base) * Base
    BY <1>1
  <2> HIDE DEF q1, q2
  <2>5. Weight[1] = 1 /\ Weight[2] = Base /\ Weight[3] = Base * Base /\ Weight[4] = Base * Base * Base
    BY DEF Weight
  <2> QED
    BY <2>1, <2>2, <2>3, <2>4, <2>5 DEF q1
<1>3. f = [i \in 1 .. 4 |->
             IF i = 1 THEN n ELSE (((x \div Weight[i - 1]) % Base) + f[i - 1]) \div Base]
  <2> DEFINE g == [i \in 1 .. 4 |-> IF i = 1 THEN n ELSE IF i = 2 THEN c1 ELSE IF i = 3 THEN c2 ELSE c3]
  <2>1. ASSUME NEW i \in 1 .. 4
        PROVE  g[i] = IF i = 1 THEN n ELSE (((x \div Weight[i - 1]) % Base) + g[i - 1]) \div Base
    <3> HIDE DEF q1, q2, q3
    <3>1. g[1] = n /\ g[2] = c1 /\ g[3] = c2 /\ g[4] = c3
      OBVIOUS
    <3>2. i = 1 \/ i = 2 \/ i = 3 \/ i = 4
      OBVIOUS
    <3>3. /\ 2 - 1 = 1 /\ 3 - 1 = 2 /\ 4 - 1 = 3
      OBVIOUS
    <3> HIDE DEF g
    <3>4. CASE i = 2
      BY <1>2, <3>1, <3>3, <3>4
    <3>5. CASE i = 3
      BY <1>2, <3>1, <3>3, <3>5
    <3>6. CASE i = 4
      BY <1>2, <3>1, <3>3, <3>6
    <3> QED
      BY <3>1, <3>2, <3>4, <3>5, <3>6
  <2>2. g = [i \in 1 .. 4 |-> g[i]]
    OBVIOUS
  <2> HIDE DEF g
  <2>3. g = [i \in 1 .. 4 |->
               IF i = 1 THEN n ELSE (((x \div Weight[i - 1]) % Base) + g[i - 1]) \div Base]
    BY <2>1, <2>2
  <2> QED
    BY <2>3, Zenon
<1> HIDE DEF f
<1>4. /\ f[1] = n
      /\ f[2] = (((x \div Weight[1]) % Base) + f[1]) \div Base
      /\ f[3] = (((x \div Weight[2]) % Base) + f[2]) \div Base
      /\ f[4] = (((x \div Weight[3]) % Base) + f[3]) \div Base
  <2> DEFINE h(i, v) == (((x \div Weight[i]) % Base) + v) \div Base
  <2>1. \A i \in 1 .. 4 : f[i] = IF i = 1 THEN n ELSE h(i - 1, f[i - 1])
    BY <1>3
  <2> HIDE DEF h
  <2>2. /\ f[1] = n /\ f[2] = h(1, f[1]) /\ f[3] = h(2, f[2]) /\ f[4] = h(3, f[3])
    BY <2>1
  <2> QED
    BY <2>2 DEF h
<1>5. f[1] = n /\ f[2] = c1 /\ f[3] = c2 /\ f[4] = c3
  BY <1>2, <1>4, Zenon
<1>6. step_seq(x, n) = d0 + Base * (d1 + Base * (d2 + Base * d3))
  <2>1. step_seq(x, n) = ((((x \div Weight[1]) % Base) + f[1]) % Base)
                + Base * (((((x \div Weight[2]) % Base) + f[2]) % Base)
                + Base * (((((x \div Weight[3]) % Base) + f[3]) % Base)
                + Base * ((((x \div Weight[4]) % Base) + f[4]) % Base)))
    BY Zenon DEF step_seq, f
  <2> QED
    BY <1>2, <1>5, <2>1, Zenon
<1>7. /\ x + n = d0 + Base * (q1 + c1) /\ d0 \in Nat /\ d0 < Base /\ q1 \in Nat /\ c1 \in Nat
  BY <1>1, OneByte
<1>8. /\ q1 + c1 = d1 + Base * (q2 + c2) /\ d1 \in Nat /\ d1 < Base /\ q2 \in Nat /\ c2 \in Nat
  <2> HIDE DEF q1, c1
  <2> QED
    BY <1>1, <1>7, OneByte
<1>9. /\ q2 + c2 = d2 + Base * (q3 + c3) /\ d2 \in Nat /\ d2 < Base /\ q3 \in Nat /\ c3 \in Nat
  <2> HIDE DEF q2, c2
  <2> QED
    BY <1>1, <1>8, OneByte
<1>10. /\ q3 + c3 = d3 + Base * ((q3 \div Base) + c4) /\ d3 \in Nat /\ d3 < Base
       /\ q3 \div Base \in Nat /\ c4 \in Nat
  <2> HIDE DEF q3, c3
  <2> QED
    BY <1>1, <1>9, OneByte
<1>11. PICK e \in Nat : q3 + c3 = d3 + Base * e
  <2> HIDE DEF q3, c3, c4, d3
  <2> QED
    BY <1>10
<1> HIDE DEF q1, q2, q3, c1, c2, c3, d0, d1, d2, d3
<1> DEFINE t2 == d2 + Base * d3
           t1 == d1 + Base * t2
           t0 == d0 + Base * t1
<1>12. /\ t2 \in Nat /\ t2 < Base * Base
  BY <1>1, <1>9, <1>10, Below
<1>13. /\ t1 \in Nat /\ t1 < Base * (Base * Base)
  <2> HIDE DEF t2
  <2> QED
    BY <1>1, <1>8, <1>12, Below
<1>14. /\ t0 \in Nat /\ t0 < Base * (Base * (Base * Base))
  <2> HIDE DEF t1
  <2>1. Base * (Base * Base) \in Nat
    BY <1>1
  <2> QED
    BY <1>1, <1>7, <1>13, <2>1, Below
<1>15. SequenceSize = Base * (Base * (Base * Base)) /\ SequenceSize \in Nat \ {0}
  BY <1>1 DEF SequenceSize
<1>16. x + n = SequenceSize * e + t0
  <2> DEFINE u == Base * e
  <2>0. u \in Nat
    BY <1>1
  <2> HIDE DEF u
  <2>1. q2 + c2 = t2 + Base * u
    <3>1. q2 + c2 = d2 + Base * (d3 + u)
      BY <1>9, <1>11 DEF u
    <3>2. Base * (d3 + u) = Base * d3 + Base * u
      BY <1>1, <1>10, <2>0
    <3> QED
      BY <1>1, <1>9, <1>10, <2>0, <3>1, <3>2
  <2> DEFINE v == Base * u
  <2>2. v \in Nat
    BY <1>1, <2>0
  <2> HIDE DEF v, t2
  <2>3. q1 + c1 = t1 + Base * v
    <3>1. q1 + c1 = d1 + Base * (t2 + v)
      BY <1>8, <2>1 DEF v
    <3>2. Base * (t2 + v) = Base * t2 + Base * v
      BY <1>1, <1>12, <2>2
    <3> QED
      BY <1>1, <1>8, <1>12, <2>2, <3>1, <3>2
  <2> DEFINE w == Base * v
  <2>4. w \in Nat
    BY <1>1, <2>2
  <2> HIDE DEF w, t1
  <2>5. x + n = t0 + Base * w
    <3>1. x + n = d0 + Base * (t1 + w)
      BY <1>7, <2>3 DEF w
    <3>2. Base * (t1 + w) = Base * t1 + Base * w
      BY <1>1, <1>13, <2>4
    <3> QED
      BY <1>1, <1>7, <1>13, <2>4, <3>1, <3>2
  <2>6. Base * w = SequenceSize * e
    <3>1. Base * w = Base * (Base * (Base * (Base * e)))
      BY DEF u, v, w
    <3>2. Base * (Base * (Base * (Base * e))) = (Base * (Base * (Base * Base))) * e
      BY <1>1
    <3> QED
      BY <1>15, <3>1, <3>2
  <2> HIDE DEF t0
  <2> QED
    BY <1>14, <1>15, <2>5, <2>6
<1>17. t0 < SequenceSize
  <2> HIDE DEF t0
  <2> QED
    BY <1>14, <1>15
<1>18. (x + n) % SequenceSize = t0
  <2> HIDE DEF t0
  <2> QED
    BY <1>14, <1>15, <1>16, <1>17, DivModIs
<1>19. t0 \in Sequence
  <2> HIDE DEF t0
  <2> QED
    BY <1>14, <1>15, <1>17 DEF Sequence
<1> QED
  BY <1>6, <1>18, <1>19, Zenon

-----------------------------------------------------------------------------
(* The server. *)
Flags == {"SYN", "ACK", "PSH", "FIN"}

Segments ==
  [port : Browsers, flags : SUBSET Flags,
   seq : Sequence, ackno : Sequence, len : Nat]

Connections ==
  [at : {"new", "opening", "waiting", "closing", "closed"}, own : Sequence,
   peer : Sequence, acked : BOOLEAN, request : Requests]

ServerTypes ==
  /\ seqnum \in 0 .. Base - 1
  /\ browser \in [Browsers -> Connections]
  /\ toDevice \subseteq Segments /\ toBrowser \subseteq Segments

(* What the browser waits for is made, or what asks for it is under way. *)
Underway(b) ==
  LET own == browser[b].own
      peer == browser[b].peer
  IN  /\ browser[b].at = "opening" =>
           Syn(b) \in toDevice \/ \E m \in toBrowser : m.port = b /\ IsSynAck(b, m)
      /\ browser[b].at = "waiting" =>
           Get(b, own, peer) \in toDevice \/ \E m \in toBrowser : m.port = b /\ IsPage(b, m)
      /\ browser[b].at = "closing" =>
           Fin(b, own, peer) \in toDevice \/ \E m \in toBrowser : m.port = b /\ IsFinAck(b, m)

ServerInv == ServerTypes /\ (~lost => \A b \in Browsers : Underway(b))

(* Every number the device gives out has four bytes. *)
LEMMA SequenceNumbers ==
  /\ SequenceSize \in Nat \ {0} /\ 0 \in Sequence /\ Sequence \subseteq Nat
  /\ \A n \in 0 .. Base - 1 : n * Base \in Sequence
<1>1. Base \in Nat /\ Base >= 1
  BY ServerAssumption
<1>2. Base * Base \in Nat /\ Base * Base >= Base
  BY <1>1
<1>3. Base * Base * Base \in Nat /\ Base * Base * Base >= Base * Base
  <2> DEFINE s == Base * Base
  <2> HIDE DEF s
  <2>1. s \in Nat => s * Base >= s /\ s * Base \in Nat
    BY <1>1
  <2> QED
    BY <1>2, <2>1 DEF s
<1>4. SequenceSize \in Nat /\ SequenceSize >= Base * Base * Base
  <2> DEFINE s == Base * Base * Base
  <2> HIDE DEF s
  <2>1. s \in Nat => s * Base >= s /\ s * Base \in Nat
    BY <1>1
  <2>2. s \in Nat /\ SequenceSize = s * Base
    BY <1>3 DEF s, SequenceSize
  <2>3. SequenceSize \in Nat /\ SequenceSize >= s
    BY <2>1, <2>2
  <2> QED
    BY <2>3 DEF s
<1>5. ASSUME NEW n \in 0 .. Base - 1
      PROVE  n * Base \in Nat /\ n * Base < Base * Base
  <2>1. n * Base + Base <= Base * Base
    <3>1. (n + 1) * Base <= Base * Base
      BY <1>1
    <3> QED
      BY <1>1, <3>1
  <2> QED
    BY <1>1, <2>1
<1> DEFINE s == SequenceSize
           q == Base * Base
           t == Base * Base * Base
<1>6. s \in Nat /\ q \in Nat /\ t \in Nat /\ s >= t /\ t >= q /\ q >= 1
  BY <1>1, <1>2, <1>3, <1>4
<1>7. \A n \in 0 .. Base - 1 : n * Base \in Nat /\ n * Base < q
  BY <1>5
<1> HIDE DEF s, q, t
<1>8. Sequence = 0 .. s - 1
  BY DEF Sequence, s
<1>9. s \in Nat \ {0} /\ 0 \in 0 .. s - 1 /\ 0 .. s - 1 \subseteq Nat
  BY <1>6
<1>10. ASSUME NEW n \in 0 .. Base - 1
       PROVE  n * Base \in 0 .. s - 1
  <2> DEFINE k == n * Base
  <2>1. k \in Nat /\ k < q
    BY <1>7
  <2> HIDE DEF k
  <2>2. k \in 0 .. s - 1
    BY <1>6, <2>1
  <2> QED
    BY <2>2 DEF k
<1> QED
  BY <1>8, <1>9, <1>10 DEF s

LEMMA PlusInSequence ==
  ASSUME NEW x \in Sequence, NEW n \in Nat
  PROVE  Plus(x, n) \in Sequence
<1>1. x \in Nat /\ SequenceSize \in Nat \ {0}
  BY SequenceNumbers
<1>2. x + n \in Nat
  BY <1>1
<1> DEFINE r == (x + n) % SequenceSize
<1>3. r \in Nat /\ r < SequenceSize
  BY <1>1, <1>2, DivMod
<1> HIDE DEF r
<1>4. r \in 0 .. SequenceSize - 1
  BY <1>1, <1>3
<1> QED
  BY <1>4 DEF r, Plus, Sequence

(* What the device answers is what the browser expects. *)
LEMMA StepIsPlus ==
  ASSUME NEW x \in Sequence, NEW n \in Nat
  PROVE  step_seq(x, n) = Plus(x, n) /\ step_seq(x, n) \in Sequence
BY StepSeqIs DEF Plus

LEMMA IsSegment ==
  ASSUME NEW b \in Browsers, NEW flags \in SUBSET Flags, NEW s \in Sequence,
         NEW a \in Sequence, NEW len \in Nat
  PROVE  TcpSegment(b, flags, s, a, len) \in Segments
BY DEF Segments, TcpSegment, Flags

LEMMA ServerInitially == ServerInit => ServerInv
<1> SUFFICES ASSUME ServerInit PROVE ServerInv
  OBVIOUS
<1>1. seqnum \in 0 .. Base - 1 /\ toDevice = {} /\ toBrowser = {}
  BY ServerAssumption DEF ServerInit
<1>2. browser \in NewBrowsers
  BY DEF ServerInit
<1>3. \A b \in Browsers : browser[b].at = "new"
  BY <1>2 DEF NewBrowsers
<1>4. browser \in [Browsers -> Connections]
  BY <1>2, SequenceNumbers, ServerAssumption DEF NewBrowsers, Connections
<1>5. \A b \in Browsers : Underway(b)
  BY <1>3 DEF Underway
<1> QED
  BY <1>1, <1>4, <1>5 DEF ServerInv, ServerTypes

(* What the device does with a segment. *)
LEMMA DeviceTypes ==
  ASSUME ServerTypes, NEW m \in toDevice
  PROVE  /\ make_tcp_synack_from_syn(m) \in Segments
         /\ \A len \in Nat : make_tcp_ack_from_any(m, len) \in Segments
         /\ \A len \in Nat : www_server_reply(m, len) \subseteq Segments
<1>1. m \in Segments /\ seqnum \in 0 .. Base - 1
  BY DEF ServerTypes
<1>2. m.port \in Browsers /\ m.seq \in Sequence /\ m.ackno \in Sequence /\ m.len \in Nat
  BY <1>1 DEF Segments
<1>3. make_tcp_synack_from_syn(m) \in Segments
  <2>1. seqnum * Base \in Sequence /\ step_seq(m.seq, 1) \in Sequence
    BY <1>1, <1>2, SequenceNumbers, StepIsPlus
  <2>2. {"SYN", "ACK"} \in SUBSET Flags
    BY DEF Flags
  <2> QED
    BY <1>2, <2>1, <2>2, IsSegment DEF make_tcp_synack_from_syn
<1>4. ASSUME NEW len \in Nat
      PROVE  make_tcp_ack_from_any(m, len) \in Segments
  <2> DEFINE n == IF len = 0 THEN 1 ELSE len
  <2>1. n \in Nat
    OBVIOUS
  <2> HIDE DEF n
  <2>2. step_seq(m.seq, n) \in Sequence
    BY <1>2, <2>1, StepIsPlus
  <2>3. {"ACK"} \in SUBSET Flags
    BY DEF Flags
  <2>4. TcpSegment(m.port, {"ACK"}, m.ackno, step_seq(m.seq, n), 0) \in Segments
    BY <1>2, <2>2, <2>3, IsSegment
  <2> QED
    BY <2>4 DEF make_tcp_ack_from_any, CopiedSeq, n
<1>5. ASSUME NEW len \in Nat
      PROVE  www_server_reply(m, len) \subseteq Segments
  <2> DEFINE ack == make_tcp_ack_from_any(m, m.len)
  <2>1. ack \in Segments
    BY <1>2, <1>4
  <2> HIDE DEF ack
  <2>2. make_tcp_ack_with_data(ack, len) \in Segments
    BY <2>1 DEF make_tcp_ack_with_data, Segments, Flags
  <2> QED
    BY <2>1, <2>2 DEF www_server_reply, ack
<1> QED
  BY <1>3, <1>4, <1>5

(* Types of a browser that goes on. *)
LEMMA BecomesTypes ==
  ASSUME browser \in [Browsers -> Connections], NEW b \in Browsers,
         NEW at \in {"opening", "waiting", "closing", "closed"},
         NEW own \in Sequence, NEW peer \in Sequence, Becomes(b, at, own, peer)
  PROVE  /\ browser' \in [Browsers -> Connections]
         /\ browser'[b].at = at /\ browser'[b].own = own /\ browser'[b].peer = peer
         /\ \A c \in Browsers \ {b} : browser'[c] = browser[c]
<1> DEFINE r == [browser[b] EXCEPT !.at = at, !.own = own, !.peer = peer]
<1>1. browser[b] \in Connections
  OBVIOUS
<1>2. r \in Connections /\ r.at = at /\ r.own = own /\ r.peer = peer
  BY <1>1 DEF Connections
<1>3. browser' = [browser EXCEPT ![b] = r]
  BY DEF Becomes
<1> HIDE DEF r
<1>4. browser' \in [Browsers -> Connections] /\ browser'[b] = r
  BY <1>2, <1>3
<1>5. \A c \in Browsers \ {b} : browser'[c] = browser[c]
  BY <1>3
<1> QED
  BY <1>2, <1>4, <1>5

(* A browser that is left alone still has its answer under way, if what it   *)
(* sent and what answers it is still there.                                  *)
LEMMA StillUnderway ==
  ASSUME NEW b \in Browsers, Underway(b), browser'[b] = browser[b],
         browser[b].at = "opening" /\ Syn(b) \in toDevice => Underway(b)',
         browser[b].at = "waiting" /\ Get(b, browser[b].own, browser[b].peer) \in toDevice
           => Underway(b)',
         browser[b].at = "closing" /\ Fin(b, browser[b].own, browser[b].peer) \in toDevice
           => Underway(b)',
         \A m \in toBrowser : m.port = b => m \in toBrowser'
  PROVE  Underway(b)'
<1>1. CASE browser[b].at = "opening"
  <2>1. CASE Syn(b) \in toDevice
    BY <1>1, <2>1
  <2>2. CASE Syn(b) \notin toDevice
    <3>1. PICK m \in toBrowser : m.port = b /\ IsSynAck(b, m)
      BY <1>1, <2>2 DEF Underway
    <3>2. m \in toBrowser'
      BY <3>1
    <3>3. IsSynAck(b, m)'
      BY <3>1 DEF IsSynAck
    <3> QED
      BY <1>1, <3>1, <3>2, <3>3 DEF Underway
  <2> QED
    BY <2>1, <2>2
<1>2. CASE browser[b].at = "waiting"
  <2>1. CASE Get(b, browser[b].own, browser[b].peer) \in toDevice
    BY <1>2, <2>1
  <2>2. CASE Get(b, browser[b].own, browser[b].peer) \notin toDevice
    <3>1. PICK m \in toBrowser : m.port = b /\ IsPage(b, m)
      BY <1>2, <2>2 DEF Underway
    <3>2. m \in toBrowser'
      BY <3>1
    <3>3. IsPage(b, m)'
      BY <3>1 DEF IsPage
    <3> QED
      BY <1>2, <3>1, <3>2, <3>3 DEF Underway
  <2> QED
    BY <2>1, <2>2
<1>3. CASE browser[b].at = "closing"
  <2>1. CASE Fin(b, browser[b].own, browser[b].peer) \in toDevice
    BY <1>3, <2>1
  <2>2. CASE Fin(b, browser[b].own, browser[b].peer) \notin toDevice
    <3>1. PICK m \in toBrowser : m.port = b /\ IsFinAck(b, m)
      BY <1>3, <2>2 DEF Underway
    <3>2. m \in toBrowser'
      BY <3>1
    <3>3. IsFinAck(b, m)'
      BY <3>1 DEF IsFinAck
    <3> QED
      BY <1>3, <3>1, <3>2, <3>3 DEF Underway
  <2> QED
    BY <2>1, <2>2
<1>4. CASE browser[b].at \notin {"opening", "waiting", "closing"}
  BY <1>4 DEF Underway
<1> QED
  BY <1>1, <1>2, <1>3, <1>4

(* The same when the segments a browser sent are all still there. *)
LEMMA NothingTaken ==
  ASSUME NEW b \in Browsers, Underway(b), browser'[b] = browser[b],
         toDevice \subseteq toDevice', \A m \in toBrowser : m.port = b => m \in toBrowser'
  PROVE  Underway(b)'
<1>1. browser[b].at = "opening" /\ Syn(b) \in toDevice => Underway(b)'
  BY DEF Underway, Syn
<1>2. browser[b].at = "waiting" /\ Get(b, browser[b].own, browser[b].peer) \in toDevice
        => Underway(b)'
  BY DEF Underway
<1>3. browser[b].at = "closing" /\ Fin(b, browser[b].own, browser[b].peer) \in toDevice
        => Underway(b)'
  BY DEF Underway
<1> QED
  BY <1>1, <1>2, <1>3, StillUnderway

(* A segment the device takes leaves the others where they are. *)
LEMMA OthersStay ==
  ASSUME NEW m \in toDevice, Received(m), NEW n \in toDevice, n # m
  PROVE  n \in toDevice'
BY DEF Received

(* The SYN a browser waits on is only taken with an answer to it; no other   *)
(* segment of the browser is.                                                *)
LEMMA SynStep ==
  ASSUME ServerTypes, NEW b \in Browsers, Underway(b), NEW m \in toDevice, GetSyn(m)
  PROVE  Underway(b)'
<1>1. browser' = browser /\ Received(m)
  BY DEF GetSyn
<1>2. toBrowser' = toBrowser \cup {make_tcp_synack_from_syn(m)}
  BY DEF GetSyn, enc28j60PacketSend
<1>3. browser[b].own \in Sequence
  BY DEF ServerTypes, Connections
<1>4. "SYN" \in m.flags
  BY DEF GetSyn
<1>5. browser[b].at = "opening" /\ Syn(b) \in toDevice => Underway(b)'
  <2> SUFFICES ASSUME browser[b].at = "opening", Syn(b) \in toDevice PROVE Underway(b)'
    OBVIOUS
  <2>1. CASE m = Syn(b)
    <3>0. PICK a : a = make_tcp_synack_from_syn(m)
      OBVIOUS
    <3>1. m.port = b /\ m.seq = browser[b].own
      BY <2>1 DEF Syn, TcpSegment
    <3>2. a.port = b /\ a.flags = {"SYN", "ACK"} /\ a.ackno = step_seq(m.seq, 1)
      BY <3>0, <3>1 DEF make_tcp_synack_from_syn, TcpSegment
    <3>3. a.ackno = Plus(browser[b].own, 1)
      BY <1>3, <3>1, <3>2, StepIsPlus
    <3>4. a \in toBrowser'
      BY <1>2, <3>0
    <3>5. IsSynAck(b, a)'
      BY <1>1, <3>2, <3>3 DEF IsSynAck
    <3> QED
      BY <1>1, <3>2, <3>4, <3>5 DEF Underway
  <2>2. CASE m # Syn(b)
    <3>1. Syn(b)' = Syn(b)
      BY <1>1 DEF Syn
    <3>2. Syn(b)' \in toDevice'
      BY <1>1, <2>2, <3>1, OthersStay
    <3> QED
      BY <1>1, <3>2 DEF Underway
  <2> QED
    BY <2>1, <2>2
<1>6. browser[b].at = "waiting" /\ Get(b, browser[b].own, browser[b].peer) \in toDevice
        => Underway(b)'
  <2>1. Get(b, browser[b].own, browser[b].peer) # m
    BY <1>4 DEF Get, TcpSegment
  <2> QED
    BY <1>1, <2>1, OthersStay DEF Underway
<1>7. browser[b].at = "closing" /\ Fin(b, browser[b].own, browser[b].peer) \in toDevice
        => Underway(b)'
  <2>1. Fin(b, browser[b].own, browser[b].peer) # m
    BY <1>4 DEF Fin, TcpSegment
  <2> QED
    BY <1>1, <2>1, OthersStay DEF Underway
<1> QED
  BY <1>1, <1>2, <1>5, <1>6, <1>7, StillUnderway

(* The same of a request and its page. *)
LEMMA PageStep ==
  ASSUME ServerTypes, NEW b \in Browsers, Underway(b), NEW m \in toDevice, handle_net(m)
  PROVE  Underway(b)'
<1>1. browser' = browser /\ Received(m) /\ m.len > 0 /\ "SYN" \notin m.flags
  BY DEF handle_net
<1>2. PICK len \in PageLens : toBrowser' = toBrowser \cup www_server_reply(m, len)
  BY DEF handle_net, enc28j60PacketSend
<1>3. browser[b].own \in Sequence /\ len \in Nat \ {0} /\ GetLen \in Nat \ {0}
  BY ServerAssumption DEF ServerTypes, Connections
<1>4. browser[b].at = "waiting" /\ Get(b, browser[b].own, browser[b].peer) \in toDevice
        => Underway(b)'
  <2> SUFFICES ASSUME browser[b].at = "waiting",
                      Get(b, browser[b].own, browser[b].peer) \in toDevice
               PROVE  Underway(b)'
    OBVIOUS
  <2>1. CASE m = Get(b, browser[b].own, browser[b].peer)
    <3> DEFINE ack == make_tcp_ack_from_any(m, m.len)
               a == make_tcp_ack_with_data(ack, len)
    <3>1. m.port = b /\ m.seq = browser[b].own /\ m.ackno = browser[b].peer /\ m.len = GetLen
      BY <2>1 DEF Get, TcpSegment
    <3>2. ack = TcpSegment(b, {"ACK"}, browser[b].peer, step_seq(browser[b].own, GetLen), 0)
      BY <1>3, <3>1 DEF make_tcp_ack_from_any, CopiedSeq
    <3>3. step_seq(browser[b].own, GetLen) = Plus(browser[b].own, GetLen)
      BY <1>3, StepIsPlus
    <3>4. a \in toBrowser'
      BY <1>2 DEF www_server_reply
    <3> HIDE DEF ack
    <3>5. /\ a.port = b /\ a.seq = browser[b].peer
          /\ a.ackno = Plus(browser[b].own, GetLen) /\ a.len = len
      BY <3>2, <3>3 DEF make_tcp_ack_with_data, TcpSegment
    <3> HIDE DEF a
    <3>6. IsPage(b, a)'
      BY <1>1, <1>3, <3>5 DEF IsPage
    <3> QED
      BY <1>1, <3>4, <3>5, <3>6 DEF Underway
  <2>2. CASE m # Get(b, browser[b].own, browser[b].peer)
    BY <1>1, <2>2, OthersStay DEF Underway
  <2> QED
    BY <2>1, <2>2
<1>5. browser[b].at = "opening" /\ Syn(b) \in toDevice => Underway(b)'
  <2>1. Syn(b) # m /\ Syn(b)' = Syn(b)
    BY <1>1 DEF Syn, TcpSegment
  <2> QED
    BY <1>1, <2>1, OthersStay DEF Underway
<1>6. browser[b].at = "closing" /\ Fin(b, browser[b].own, browser[b].peer) \in toDevice
        => Underway(b)'
  <2>1. Fin(b, browser[b].own, browser[b].peer) # m
    BY <1>1 DEF Fin, TcpSegment
  <2> QED
    BY <1>1, <2>1, OthersStay DEF Underway
<1> QED
  BY <1>1, <1>2, <1>4, <1>5, <1>6, StillUnderway

(* The same of the end of a connection. *)
LEMMA EndStep ==
  ASSUME ServerTypes, NEW b \in Browsers, Underway(b), NEW m \in toDevice, GetWithoutData(m)
  PROVE  Underway(b)'
<1>1. browser' = browser /\ Received(m) /\ m.len = 0 /\ "SYN" \notin m.flags
  BY DEF GetWithoutData
<1>2. toBrowser' = toBrowser \cup AnswerWithoutData(m)
  BY DEF GetWithoutData, enc28j60PacketSend
<1>3. browser[b].own \in Sequence /\ GetLen \in Nat \ {0}
  BY ServerAssumption DEF ServerTypes, Connections
<1>4. browser[b].at = "closing" /\ Fin(b, browser[b].own, browser[b].peer) \in toDevice
        => Underway(b)'
  <2> SUFFICES ASSUME browser[b].at = "closing",
                      Fin(b, browser[b].own, browser[b].peer) \in toDevice
               PROVE  Underway(b)'
    OBVIOUS
  <2>1. CASE m = Fin(b, browser[b].own, browser[b].peer)
    <3> DEFINE a == make_tcp_ack_from_any(m, 0)
    <3>1. /\ m.port = b /\ m.seq = browser[b].own /\ m.ackno = browser[b].peer
          /\ "FIN" \in m.flags
      BY <2>1 DEF Fin, TcpSegment
    <3>2. a = TcpSegment(b, {"ACK"}, browser[b].peer, step_seq(browser[b].own, 1), 0)
      BY <3>1 DEF make_tcp_ack_from_any, CopiedSeq
    <3>3. step_seq(browser[b].own, 1) = Plus(browser[b].own, 1)
      BY <1>3, StepIsPlus
    <3>4. a \in toBrowser'
      BY <1>2, <3>1 DEF AnswerWithoutData
    <3> HIDE DEF a
    <3>5. /\ a.port = b /\ a.seq = browser[b].peer /\ a.flags = {"ACK"}
          /\ a.ackno = Plus(browser[b].own, 1) /\ a.len = 0
      BY <3>2, <3>3 DEF TcpSegment
    <3>6. IsFinAck(b, a)'
      BY <1>1, <3>5 DEF IsFinAck
    <3> QED
      BY <1>1, <3>4, <3>5, <3>6 DEF Underway
  <2>2. CASE m # Fin(b, browser[b].own, browser[b].peer)
    BY <1>1, <2>2, OthersStay DEF Underway
  <2> QED
    BY <2>1, <2>2
<1>5. browser[b].at = "opening" /\ Syn(b) \in toDevice => Underway(b)'
  <2>1. Syn(b) # m /\ Syn(b)' = Syn(b)
    BY <1>1 DEF Syn, TcpSegment
  <2> QED
    BY <1>1, <2>1, OthersStay DEF Underway
<1>6. browser[b].at = "waiting" /\ Get(b, browser[b].own, browser[b].peer) \in toDevice
        => Underway(b)'
  <2>1. Get(b, browser[b].own, browser[b].peer) # m
    BY <1>1, <1>3 DEF Get, TcpSegment
  <2> QED
    BY <1>1, <2>1, OthersStay DEF Underway
<1> QED
  BY <1>1, <1>2, <1>4, <1>5, <1>6, StillUnderway

(* A browser that begins has sent its SYN; one that repeats takes nothing.   *)
LEMMA OpenStep ==
  ASSUME ServerTypes, NEW b \in Browsers, Open(b)
  PROVE  /\ ServerTypes'
         /\ \A c \in Browsers : Underway(c) => Underway(c)'
<1>1. browser \in [Browsers -> Connections] /\ browser[b].own \in Sequence
  BY DEF ServerTypes, Connections
<1>2. /\ seqnum' = seqnum /\ toBrowser' = toBrowser /\ toDevice' = toDevice \cup {Syn(b)}
      /\ Becomes(b, "opening", browser[b].own, 0)
  BY DEF Open, Sends
<1>3. /\ browser' \in [Browsers -> Connections]
      /\ browser'[b].at = "opening" /\ browser'[b].own = browser[b].own
      /\ \A c \in Browsers \ {b} : browser'[c] = browser[c]
  BY <1>1, <1>2, SequenceNumbers, BecomesTypes
<1>4. Syn(b) \in Segments
  <2>1. {"SYN"} \in SUBSET Flags
    BY DEF Flags
  <2> QED
    BY <1>1, <2>1, SequenceNumbers, IsSegment DEF Syn
<1>5. ServerTypes'
  BY <1>2, <1>3, <1>4 DEF ServerTypes
<1>6. Underway(b)'
  <2>1. Syn(b)' = Syn(b)
    BY <1>3 DEF Syn
  <2>2. Syn(b)' \in toDevice'
    BY <1>2, <2>1
  <2> QED
    BY <1>3, <2>2 DEF Underway
<1>7. ASSUME NEW c \in Browsers \ {b}, Underway(c) PROVE Underway(c)'
  BY <1>2, <1>3, <1>7, NothingTaken
<1> QED
  BY <1>5, <1>6, <1>7

LEMMA AgainStep ==
  ASSUME ServerTypes, NEW b \in Browsers, SendAgain(b)
  PROVE  /\ ServerTypes'
         /\ \A c \in Browsers : Underway(c) => Underway(c)'
<1>1. browser[b].own \in Sequence /\ browser[b].peer \in Sequence
  BY DEF ServerTypes, Connections
<1>2. seqnum' = seqnum /\ toBrowser' = toBrowser /\ browser' = browser
  BY DEF SendAgain
<1>3. /\ {"SYN"} \in SUBSET Flags /\ {"ACK", "PSH"} \in SUBSET Flags
      /\ {"ACK", "FIN"} \in SUBSET Flags /\ GetLen \in Nat
  BY ServerAssumption DEF Flags
<1>4. Syn(b) \in Segments
  BY <1>1, <1>3, SequenceNumbers, IsSegment DEF Syn
<1>5. Get(b, browser[b].own, browser[b].peer) \in Segments
  BY <1>1, <1>3, IsSegment DEF Get
<1>6. Fin(b, browser[b].own, browser[b].peer) \in Segments
  BY <1>1, <1>3, IsSegment DEF Fin
<1>7. toDevice \subseteq toDevice' /\ toDevice' \subseteq toDevice \cup Segments
  BY <1>4, <1>5, <1>6 DEF SendAgain, Sends
<1>8. ServerTypes'
  BY <1>2, <1>7 DEF ServerTypes
<1>9. ASSUME NEW c \in Browsers, Underway(c) PROVE Underway(c)'
  BY <1>2, <1>7, <1>9, NothingTaken
<1> QED
  BY <1>8, <1>9

(* A segment that reaches a browser. *)
LEMMA ReachesStep ==
  ASSUME ServerTypes, NEW m \in toBrowser, Reaches(m)
  PROVE  /\ ServerTypes'
         /\ \A c \in Browsers : Underway(c) => Underway(c)'
<1> DEFINE b == m.port
           own == browser[b].own
           peer == browser[b].peer
<1>1. /\ browser \in [Browsers -> Connections] /\ m \in Segments
      /\ seqnum' = seqnum /\ toBrowser' \subseteq toBrowser
      /\ \A n \in toBrowser : n # m => n \in toBrowser'
  BY DEF ServerTypes, Reaches
<1>2. b \in Browsers /\ m.seq \in Sequence /\ m.ackno \in Sequence /\ m.len \in Nat
  BY <1>1 DEF Segments
<1>3. /\ {"ACK"} \in SUBSET Flags /\ {"ACK", "PSH"} \in SUBSET Flags
      /\ {"ACK", "FIN"} \in SUBSET Flags /\ GetLen \in Nat /\ m.len + 1 \in Nat
  BY <1>2, ServerAssumption DEF Flags
(* What is shared by the cases: b goes on, with what it sends. *)
<1>4. ASSUME NEW at \in {"waiting", "closing", "closed"}, NEW o \in Sequence, NEW p \in Sequence,
             Becomes(b, at, o, p),
             toDevice \subseteq toDevice', toDevice' \subseteq toDevice \cup Segments,
             at = "waiting" => Get(b, o, p) \in toDevice',
             at = "closing" => Fin(b, o, p) \in toDevice'
      PROVE  /\ ServerTypes'
             /\ \A c \in Browsers : Underway(c) => Underway(c)'
  <2>1. /\ browser' \in [Browsers -> Connections]
        /\ browser'[b].at = at /\ browser'[b].own = o /\ browser'[b].peer = p
        /\ \A c \in Browsers \ {b} : browser'[c] = browser[c]
    BY <1>1, <1>2, <1>4, BecomesTypes
  <2>2. ServerTypes'
    BY <1>1, <1>4, <2>1 DEF ServerTypes
  <2>3. Underway(m.port)'
    <3> HIDE DEF b, own, peer
    <3>1. b = m.port
      BY DEF b
    <3> QED
      BY <1>4, <2>1, <3>1 DEF Underway, Get, Fin, b
  <2>4. ASSUME NEW c \in Browsers \ {b}, Underway(c) PROVE Underway(c)'
    <3>1. \A n \in toBrowser : n.port = c => n \in toBrowser'
      BY <1>1
    <3> QED
      BY <1>4, <2>1, <2>4, <3>1, NothingTaken
  <2> QED
    BY <2>2, <2>3, <2>4
<1>5. CASE TakeSynAck(b, m)
  <2> DEFINE p == Plus(m.seq, 1)
             s == TcpSegment(b, {"ACK"}, m.ackno, p, 0)
  <2>1. p \in Sequence
    BY <1>2, PlusInSequence
  <2>2. s \in Segments /\ Get(b, m.ackno, p) \in Segments
    <3> HIDE DEF p
    <3> QED
      BY <1>2, <1>3, <2>1, IsSegment DEF Get
  <2>3. Becomes(b, "waiting", m.ackno, p) /\ toDevice' = toDevice \cup {s, Get(b, m.ackno, p)}
    BY <1>5 DEF TakeSynAck, Sends
  <2> HIDE DEF p, s, b
  <2> QED
    BY <1>2, <1>4, <2>1, <2>2, <2>3
<1>6. CASE TakePage(b, m)
  <2> DEFINE p == Plus(m.seq, m.len + 1)
  <2>1. p \in Sequence
    BY <1>2, <1>3, PlusInSequence
  <2>2. Fin(b, m.ackno, p) \in Segments
    <3> HIDE DEF p
    <3> QED
      BY <1>2, <1>3, <2>1, IsSegment DEF Fin
  <2>3. Becomes(b, "closing", m.ackno, p) /\ toDevice' = toDevice \cup {Fin(b, m.ackno, p)}
    BY <1>6 DEF TakePage, Sends
  <2> HIDE DEF p, b
  <2> QED
    BY <1>2, <1>4, <2>1, <2>2, <2>3
<1>7. CASE TakeFinAck(b, m)
  <2>1. Becomes(b, "closed", m.ackno, m.seq) /\ toDevice' = toDevice
    BY <1>7 DEF TakeFinAck
  <2> HIDE DEF b
  <2> QED
    BY <1>2, <1>4, <2>1
<1>8. CASE TakeAck(b, m)
  <2>1. /\ browser' = [browser EXCEPT ![b].acked = TRUE] /\ toDevice' = toDevice
        /\ browser[b].at = "waiting" /\ m.len = 0
    BY <1>8 DEF TakeAck, IsAck
  <2>2. /\ browser' \in [Browsers -> Connections]
        /\ browser'[b].at = "waiting" /\ browser'[b].own = own /\ browser'[b].peer = peer
        /\ \A c \in Browsers \ {b} : browser'[c] = browser[c]
    BY <1>1, <1>2, <2>1 DEF Connections
  <2>3. ServerTypes'
    BY <1>1, <2>1, <2>2 DEF ServerTypes
  <2>4. ASSUME Underway(b) PROVE Underway(m.port)'
    <3>1. CASE Get(b, own, peer) \in toDevice
      BY <2>1, <2>2, <3>1 DEF Underway
    <3>2. CASE Get(b, own, peer) \notin toDevice
      <4>1. PICK n \in toBrowser : n.port = b /\ IsPage(b, n)
        BY <2>1, <2>4, <3>2 DEF Underway
      <4>2. n # m
        BY <1>2, <2>1, <4>1 DEF IsPage
      <4>3. n \in toBrowser'
        BY <1>1, <4>2
      <4>4. /\ n.len > 0 /\ n.seq = browser'[b].peer /\ browser'[b].at = "waiting"
            /\ n.ackno = Plus(browser'[b].own, GetLen)
        BY <2>2, <4>1 DEF IsPage
      <4> HIDE DEF b
      <4>5. b = m.port
        BY DEF b
      <4> QED
        BY <4>1, <4>3, <4>4, <4>5 DEF Underway, IsPage
    <3> QED
      BY <3>1, <3>2
  <2>5. ASSUME NEW c \in Browsers \ {b}, Underway(c) PROVE Underway(c)'
    <3>1. \A n \in toBrowser : n.port = c => n \in toBrowser'
      BY <1>1
    <3> QED
      BY <2>1, <2>2, <2>5, <3>1, NothingTaken
  <2> QED
    BY <2>3, <2>4, <2>5
<1>9. CASE Leave(b, m)
  <2>1. /\ browser' = browser /\ toDevice' = toDevice
        /\ ~IsSynAck(b, m) /\ ~IsPage(b, m) /\ ~IsFinAck(b, m)
    BY <1>9 DEF Leave
  <2>2. ServerTypes'
    BY <1>1, <2>1 DEF ServerTypes
  <2>3. ASSUME NEW c \in Browsers, Underway(c) PROVE Underway(c)'
    <3>1. ASSUME NEW n \in toBrowser, n.port = c,
                 IsSynAck(c, n) \/ IsPage(c, n) \/ IsFinAck(c, n)
          PROVE  n \in toBrowser'
      BY <1>1, <2>1, <3>1
    <3>2. ASSUME NEW n
          PROVE  /\ IsSynAck(c, n) <=> IsSynAck(c, n)'
                 /\ IsPage(c, n) <=> IsPage(c, n)'
                 /\ IsFinAck(c, n) <=> IsFinAck(c, n)'
      BY <2>1 DEF IsSynAck, IsPage, IsFinAck
    <3>3. Syn(c)' = Syn(c)
      BY <2>1 DEF Syn
    <3> QED
      BY <2>1, <2>3, <3>1, <3>2, <3>3 DEF Underway
  <2> QED
    BY <2>2, <2>3
<1> QED
  BY <1>5, <1>6, <1>7, <1>8, <1>9 DEF Reaches

(* The device's steps keep the types. *)
LEMMA DeviceStepTypes ==
  ASSUME ServerTypes, NEW m \in toDevice, GetSyn(m) \/ GetWithoutData(m) \/ handle_net(m)
  PROVE  ServerTypes' /\ lost' = lost
<1>1. toDevice' \subseteq toDevice /\ browser' = browser /\ lost' = lost
  BY DEF GetSyn, GetWithoutData, handle_net, Received
<1>2. seqnum' \in 0 .. Base - 1
  <2>1. (seqnum + 3) % Base \in 0 .. Base - 1
    <3>1. seqnum + 3 \in Nat /\ Base \in Nat \ {0}
      BY ServerAssumption DEF ServerTypes
    <3> QED
      BY <3>1, DivMod
  <2> QED
    BY <2>1 DEF GetSyn, GetWithoutData, handle_net, ServerTypes
<1>3. toBrowser' \subseteq Segments
  <2>1. /\ make_tcp_synack_from_syn(m) \in Segments
        /\ \A len \in Nat : make_tcp_ack_from_any(m, len) \in Segments
        /\ \A len \in Nat : www_server_reply(m, len) \subseteq Segments
    BY DeviceTypes
  <2>2. AnswerWithoutData(m) \subseteq Segments
    BY <2>1 DEF AnswerWithoutData
  <2>3. toBrowser \subseteq Segments /\ PageLens \subseteq Nat
    BY ServerAssumption DEF ServerTypes
  <2>4. CASE GetSyn(m)
    BY <2>1, <2>3, <2>4 DEF GetSyn, enc28j60PacketSend
  <2>5. CASE GetWithoutData(m)
    BY <2>2, <2>3, <2>5 DEF GetWithoutData, enc28j60PacketSend
  <2>6. CASE handle_net(m)
    <3>1. PICK len \in PageLens : toBrowser' = toBrowser \cup www_server_reply(m, len)
      BY <2>6 DEF handle_net, enc28j60PacketSend
    <3> QED
      BY <2>1, <2>3, <3>1
  <2> QED
    BY <2>4, <2>5, <2>6
<1> QED
  BY <1>1, <1>2, <1>3 DEF ServerTypes

LEMMA ServerStep == ServerInv /\ [ServerNext]_tcpVars => ServerInv'
<1> SUFFICES ASSUME ServerInv, [ServerNext]_tcpVars PROVE ServerInv'
  OBVIOUS
<1>1. ServerTypes
  BY DEF ServerInv
<1>2. ASSUME NEW m \in toDevice, GetSyn(m) \/ GetWithoutData(m) \/ handle_net(m)
      PROVE  ServerInv'
  <2>1. ServerTypes' /\ lost' = lost
    BY <1>1, <1>2, DeviceStepTypes
  <2>2. ASSUME NEW b \in Browsers, Underway(b) PROVE Underway(b)'
    BY <1>1, <1>2, <2>2, SynStep, PageStep, EndStep
  <2> QED
    BY <2>1, <2>2 DEF ServerInv
<1>3. ASSUME toDevice' = toDevice, toBrowser' = toBrowser, browser' = browser, lost' = lost,
             seqnum' \in 0 .. Base - 1
      PROVE  ServerInv'
  <2>1. ServerTypes'
    BY <1>1, <1>3 DEF ServerTypes
  <2>2. ASSUME NEW b \in Browsers, Underway(b) PROVE Underway(b)'
    BY <1>3, <2>2, NothingTaken
  <2> QED
    BY <1>3, <2>1, <2>2 DEF ServerInv
<1>4. CASE tcp_client_syn
  <2>1. seqnum + 3 \in Nat /\ Base \in Nat \ {0}
    BY <1>1, ServerAssumption DEF ServerTypes
  <2>2. (seqnum + 3) % Base \in 0 .. Base - 1
    BY <2>1, DivMod
  <2> QED
    BY <1>3, <1>4, <2>2 DEF tcp_client_syn
<1>5. CASE ServerRestart
  BY <1>3, <1>5, ServerAssumption DEF ServerRestart
<1>6. ASSUME NEW b \in Browsers, Open(b) \/ SendAgain(b) PROVE ServerInv'
  <2>1. lost' = lost
    BY <1>6 DEF Open, SendAgain
  <2> QED
    BY <1>1, <1>6, <2>1, OpenStep, AgainStep DEF ServerInv
<1>7. ASSUME NEW m \in toBrowser, Reaches(m) PROVE ServerInv'
  <2>1. lost' = lost
    BY <1>7 DEF Reaches
  <2> QED
    BY <1>1, <1>7, <2>1, ReachesStep DEF ServerInv
<1>8. CASE LoseSegment
  <2>1. /\ lost' = TRUE /\ seqnum' = seqnum /\ browser' = browser
        /\ toDevice' \subseteq toDevice /\ toBrowser' \subseteq toBrowser
    BY <1>8 DEF LoseSegment
  <2>2. ServerTypes'
    BY <1>1, <2>1 DEF ServerTypes
  <2> QED
    BY <2>1, <2>2 DEF ServerInv
<1>9. CASE UNCHANGED tcpVars
  BY <1>1, <1>3, <1>9 DEF tcpVars, ServerTypes
<1> QED
  BY <1>2, <1>4, <1>5, <1>6, <1>7, <1>8, <1>9 DEF ServerNext

(* When nothing is under way, no browser waits. *)
LEMMA NoneWaits == ServerInv => ServedUnlessLost
<1> SUFFICES ASSUME ServerInv, ~lost, toDevice = {}, toBrowser = {}, NEW b \in Browsers
             PROVE  browser[b].at \in {"new", "closed"}
  BY DEF ServedUnlessLost
<1>1. Underway(b) /\ browser[b] \in Connections
  BY DEF ServerInv, ServerTypes
<1>2. browser[b].at \in {"new", "opening", "waiting", "closing", "closed"}
  BY <1>1 DEF Connections
<1> QED
  BY <1>1, <1>2 DEF Underway

(* Nothing stops half way: while no segment is lost, a browser that waits has *)
(* a request or its answer under way, whatever the order, the repetitions and  *)
(* the restarts of the device between two segments.                            *)
THEOREM ServerAnswers == ServerSpec => []ServedUnlessLost
<1>1. ServerSpec => []ServerInv
  BY ServerInitially, ServerStep, PTL DEF ServerSpec
<1> QED
  BY <1>1, NoneWaits, PTL

-----------------------------------------------------------------------------
(* The checksums.  Every set of natural numbers has a least one: what a      *)
(* recursive function is not, it is not for the first time somewhere.        *)
LEMMA LeastNumber ==
  ASSUME NEW T, T \subseteq Nat, T # {}
  PROVE  \E m \in T : \A k \in T : m <= k
<1>1. PICK m \in T : \A y \in T : <<y, m>> \notin OpToRel(<, Nat)
  BY NatLessThanWellFounded, WFMin, Zenon
<1>2. ASSUME NEW k \in T PROVE ~(k < m)
  BY <1>1, <1>2, Zenon DEF OpToRel
<1>3. ASSUME NEW k \in T PROVE m <= k
  BY <1>2, <1>3
<1>4. QED
  BY <1>3

(* The largest word, by which the sums count: 0 and it are the same to them. *)
Ones == Word - 1

LEMMA WordIs == Word \in Nat /\ Word > 1 /\ Ones \in Nat /\ Ones > 0 /\ Word = Ones + 1 /\ Octet \in Nat \ {0}
<1>1. Octet \in Nat /\ Octet > 1
  BY PacketsAssumption
<1>2. Octet * Octet > 1 /\ Octet * Octet \in Nat
  BY <1>1
<1> QED
  BY <1>1, <1>2 DEF Word, Ones

(* To add the carry makes a number smaller by so many times the largest word. *)
LEMMA CarryAdded ==
  ASSUME NEW n \in Nat, n >= Word
  PROVE  LET next == (n % Word) + (n \div Word)
         IN  next \in Nat /\ next < n /\ n = next + Ones * (n \div Word) /\ n \div Word \in Nat
<1> DEFINE q == n \div Word
           r == n % Word
<1>1. q \in Nat /\ r \in Nat /\ r < Word /\ n = Word * q + r
  <2>1. Word \in Nat \ {0}
    BY WordIs
  <2> QED
    BY <2>1, DivMod
<1> HIDE DEF q, r
<1>2. Word * q = q + Ones * q
  BY <1>1, WordIs
<1>3. q # 0
  BY <1>1, WordIs
<1>4. Ones * q > 0 /\ Ones * q \in Nat
  BY <1>1, <1>3, WordIs
<1>5. r + q \in Nat /\ r + q < n /\ n = (r + q) + Ones * q
  BY <1>1, <1>2, <1>4
<1> QED
  BY <1>1, <1>5 DEF q, r

Adds(f, s) ==
  f = [n \in 0 .. s |-> IF n < Word THEN n ELSE f[(n % Word) + (n \div Word)]]

LEMMA AddsExist ==
  ASSUME NEW s \in Nat
  PROVE  \E f : Adds(f, s)
<1> DEFINE T == {m \in Nat : ~ \E f : Adds(f, m)}
           of(n) == (n % Word) + (n \div Word)
<1>1. SUFFICES ASSUME T # {} PROVE FALSE
  OBVIOUS
<1>2. PICK m \in T : \A k \in T : m <= k
  BY <1>1, LeastNumber, Zenon
<1>3. \A n \in Nat : n >= Word => of(n) \in 0 .. n - 1
  <2> SUFFICES ASSUME NEW n \in Nat, n >= Word PROVE of(n) \in 0 .. n - 1
    OBVIOUS
  <2>1. of(n) \in Nat /\ of(n) < n
    BY CarryAdded
  <2> HIDE DEF of
  <2> QED
    BY <2>1
<1>4. \A f, k : Adds(f, k) <=> f = [n \in 0 .. k |-> IF n < Word THEN n ELSE f[of(n)]]
  BY Zenon DEF Adds
<1> HIDE DEF of
<1>5. CASE m = 0
  <2> DEFINE f == [n \in 0 .. 0 |-> 0]
  <2>1. \A n \in 0 .. 0 : f[n] = IF n < Word THEN n ELSE f[of(n)]
    BY WordIs
  <2>2. f = [n \in 0 .. 0 |-> IF n < Word THEN n ELSE f[of(n)]]
    BY <2>1
  <2> QED
    BY <1>2, <1>4, <1>5, <2>2
<1>6. CASE m # 0
  <2>1. m \in Nat /\ m - 1 \in Nat /\ m - 1 \notin T
    BY <1>2, <1>6
  <2>2. PICK f : Adds(f, m - 1)
    BY <2>1
  <2> DEFINE g == [n \in 0 .. m |-> IF n <= m - 1 THEN f[n] ELSE IF n < Word THEN n ELSE f[of(n)]]
  <2>3. \A k \in 0 .. m : g[k] = IF k < Word THEN k ELSE g[of(k)]
    <3> SUFFICES ASSUME NEW k \in 0 .. m PROVE g[k] = IF k < Word THEN k ELSE g[of(k)]
      OBVIOUS
    <3>1. \A n \in 0 .. m - 1 : f[n] = IF n < Word THEN n ELSE f[of(n)]
      BY <1>4, <2>2
    <3>2. ASSUME k >= Word PROVE g[of(k)] = f[of(k)]
      <4>1. of(k) \in 0 .. k - 1
        BY <1>3, <3>2
      <4>2. of(k) \in 0 .. m /\ of(k) <= m - 1
        BY <2>1, <4>1
      <4> QED
        BY <4>2
    <3>3. CASE k <= m - 1
      <4>1. k \in 0 .. m - 1 /\ g[k] = f[k]
        BY <2>1, <3>3
      <4> HIDE DEF g
      <4> QED
        BY <3>1, <3>2, <4>1, WordIs
    <3>4. CASE ~(k <= m - 1)
      <4>1. g[k] = IF k < Word THEN k ELSE f[of(k)]
        BY <3>4
      <4> HIDE DEF g
      <4> QED
        BY <3>2, <4>1, WordIs
    <3> QED
      BY <3>3, <3>4
  <2>4. g = [n \in 0 .. m |-> g[n]]
    OBVIOUS
  <2> HIDE DEF g
  <2>5. Adds(g, m)
    BY <1>4, <2>3, <2>4
  <2> QED
    BY <1>2, <2>5
<1> QED
  BY <1>5, <1>6

(* What is left is a word, and less by so many times the largest word. *)
LEMMA EndAroundIs ==
  ASSUME NEW s \in Nat
  PROVE  EndAround(s) \in 0 .. Ones /\ \E k \in Nat : s = EndAround(s) + Ones * k
<1> DEFINE F == CHOOSE f : Adds(f, s)
           of(n) == (n % Word) + (n \div Word)
<1>1. Adds(F, s)
  BY AddsExist, Zenon
<1>2. EndAround(s) = F[s]
  BY Zenon DEF EndAround, Adds
<1> HIDE DEF F
<1>3. \A n \in 0 .. s : F[n] = IF n < Word THEN n ELSE F[of(n)]
  BY <1>1 DEF Adds
<1> DEFINE Good(n) == F[n] \in 0 .. Ones /\ \E k \in Nat : n = F[n] + Ones * k
           T == {n \in 0 .. s : ~Good(n)}
<1>4. ASSUME NEW n \in 0 .. s, \A j \in 0 .. n - 1 : Good(j)
      PROVE  Good(n)
  <2>1. CASE n < Word
    <3>1. F[n] = n
      BY <1>3, <2>1
    <3>2. n = n + Ones * 0 /\ n \in 0 .. Ones
      BY <2>1, WordIs
    <3> QED
      BY <3>1, <3>2
  <2>2. CASE ~(n < Word)
    <3> DEFINE q == n \div Word
    <3>1. of(n) \in Nat /\ of(n) < n /\ n = of(n) + Ones * q /\ q \in Nat
      BY <2>2, CarryAdded, WordIs
    <3>2. F[n] = F[of(n)]
      BY <1>3, <2>2
    <3> HIDE DEF of, q
    <3>3. Good(of(n))
      BY <1>4, <3>1
    <3>4. PICK k \in Nat : of(n) = F[of(n)] + Ones * k
      BY <3>3
    <3>5. Ones * k + Ones * q = Ones * (k + q) /\ k + q \in Nat
      BY <3>1, WordIs
    <3>6. n = F[n] + Ones * (k + q)
      BY <3>1, <3>2, <3>3, <3>4, <3>5, WordIs
    <3> QED
      BY <3>2, <3>3, <3>5, <3>6
  <2> QED
    BY <2>1, <2>2
<1> HIDE DEF Good
<1>5. T = {}
  <2> SUFFICES ASSUME T # {} PROVE FALSE
    OBVIOUS
  <2>1. PICK m \in T : \A k \in T : m <= k
    <3>1. T \subseteq Nat
      OBVIOUS
    <3> HIDE DEF T
    <3> QED
      BY <3>1, LeastNumber
  <2>2. \A j \in 0 .. m - 1 : Good(j)
    BY <2>1
  <2> QED
    BY <1>4, <2>1, <2>2
<1>6. Good(s)
  BY <1>5
<1> QED
  BY <1>2, <1>6 DEF Good
-----------------------------------------------------------------------------
(* The sum of a sequence, and what one number in it makes. *)
Sums(f, s) ==
  f = [n \in 0 .. Len(s) |-> IF n = 0 THEN 0 ELSE f[n - 1] + s[n]]

(* The same up to a place. *)
SumsTo(f, s, m) ==
  f = [n \in 0 .. m |-> IF n = 0 THEN 0 ELSE f[n - 1] + s[n]]

LEMMA SumsExist ==
  ASSUME NEW s, NEW N \in Nat
  PROVE  \E f : SumsTo(f, s, N)
<1> DEFINE T == {m \in Nat : ~ \E f : SumsTo(f, s, m)}
<1>1. SUFFICES ASSUME T # {} PROVE FALSE
  OBVIOUS
<1>2. PICK m \in T : \A k \in T : m <= k
  BY <1>1, LeastNumber, Zenon
<1>3. CASE m = 0
  <2> DEFINE f == [k \in 0 .. 0 |-> 0]
  <2>1. SumsTo(f, s, 0)
    BY DEF SumsTo
  <2> QED
    BY <1>2, <1>3, <2>1
<1>4. CASE m # 0
  <2>1. m \in Nat /\ m - 1 \in Nat /\ m - 1 \notin T
    BY <1>2, <1>4
  <2>2. PICK f : SumsTo(f, s, m - 1)
    BY <2>1
  <2> DEFINE g == [k \in 0 .. m |-> IF k <= m - 1 THEN f[k] ELSE f[m - 1] + s[m]]
  <2>3. \A k \in 0 .. m : g[k] = IF k = 0 THEN 0 ELSE g[k - 1] + s[k]
    <3> SUFFICES ASSUME NEW k \in 0 .. m PROVE g[k] = IF k = 0 THEN 0 ELSE g[k - 1] + s[k]
      OBVIOUS
    <3>1. \A j \in 0 .. m - 1 : f[j] = IF j = 0 THEN 0 ELSE f[j - 1] + s[j]
      BY <2>1, <2>2 DEF SumsTo
    <3>2. CASE k = m
      BY <1>4, <2>1, <3>2
    <3>3. CASE k = 0
      BY <2>1, <3>1, <3>3
    <3>4. CASE k # 0 /\ k # m
      <4>1. k \in 0 .. m - 1 /\ k - 1 \in 0 .. m - 1 /\ k \in 0 .. m /\ k - 1 \in 0 .. m
        BY <2>1, <3>4
      <4>2. g[k] = f[k] /\ g[k - 1] = f[k - 1]
        BY <4>1
      <4> QED
        BY <3>1, <3>4, <4>1, <4>2
    <3> QED
      BY <3>2, <3>3, <3>4
  <2>4. SumsTo(g, s, m)
    BY <2>3 DEF SumsTo
  <2> QED
    BY <1>2, <2>4
<1> QED
  BY <1>3, <1>4

LEMMA TotalIs ==
  ASSUME NEW s \in Seq(Nat)
  PROVE  \E f : /\ Total(s) = f[Len(s)] /\ f[0] = 0
                /\ \A n \in 1 .. Len(s) : f[n] = f[n - 1] + s[n]
                /\ \A n \in 0 .. Len(s) : f[n] \in Nat
<1> DEFINE F == CHOOSE f : f = [n \in 0 .. Len(s) |-> IF n = 0 THEN 0 ELSE f[n - 1] + s[n]]
<1>1. Len(s) \in Nat /\ \A n \in 1 .. Len(s) : s[n] \in Nat
  OBVIOUS
<1>2. F = [n \in 0 .. Len(s) |-> IF n = 0 THEN 0 ELSE F[n - 1] + s[n]]
  <2>1. \E f : f = [n \in 0 .. Len(s) |-> IF n = 0 THEN 0 ELSE f[n - 1] + s[n]]
    BY <1>1, SumsExist DEF SumsTo
  <2> QED
    BY <2>1, Zenon
<1>3. Total(s) = F[Len(s)]
  BY Zenon DEF Total
<1> HIDE DEF F
<1>4. F[0] = 0 /\ \A n \in 1 .. Len(s) : F[n] = F[n - 1] + s[n]
  BY <1>1, <1>2
<1> DEFINE L == Len(s)
           T == {n \in 0 .. L : F[n] \notin Nat}
<1> HIDE DEF L
<1>5. T = {}
  <2> SUFFICES ASSUME T # {} PROVE FALSE
    OBVIOUS
  <2>1. PICK m \in T : \A k \in T : m <= k
    <3>1. T \subseteq Nat
      OBVIOUS
    <3> HIDE DEF T
    <3> QED
      BY <3>1, LeastNumber
  <2>2. m # 0
    BY <1>4, <2>1
  <2>3. m - 1 \in 0 .. L /\ m \in 1 .. L /\ m - 1 \notin T
    BY <2>1, <2>2, <1>1 DEF L
  <2>4. F[m - 1] \in Nat /\ s[m] \in Nat
    BY <1>1, <2>3 DEF L
  <2>5. F[m] = F[m - 1] + s[m]
    BY <1>4, <2>3 DEF L
  <2> QED
    BY <2>1, <2>4, <2>5
<1>6. \A n \in 0 .. L : F[n] \in Nat
  BY <1>5
<1> QED
  BY <1>3, <1>4, <1>6 DEF L

(* Two sequences that differ in one place. *)
LEMMA TotalDiffers ==
  ASSUME NEW s \in Seq(Nat), NEW t \in Seq(Nat), Len(s) = Len(t), NEW i \in 1 .. Len(s),
         \A k \in 1 .. Len(s) : k # i => s[k] = t[k]
  PROVE  /\ Total(s) \in Nat /\ Total(t) \in Nat
         /\ Total(t) + s[i] = Total(s) + t[i]
<1> DEFINE L == Len(s)
<1>1. L \in Nat /\ \A n \in 1 .. L : s[n] \in Nat /\ t[n] \in Nat
  OBVIOUS
<1>2. PICK f : /\ Total(s) = f[L] /\ f[0] = 0
               /\ \A n \in 1 .. L : f[n] = f[n - 1] + s[n]
               /\ \A n \in 0 .. L : f[n] \in Nat
  BY TotalIs
<1>3. PICK g : /\ Total(t) = g[L] /\ g[0] = 0
               /\ \A n \in 1 .. L : g[n] = g[n - 1] + t[n]
               /\ \A n \in 0 .. L : g[n] \in Nat
  BY TotalIs
<1>4. i \in 1 .. L /\ \A k \in 1 .. L : k # i => s[k] = t[k]
  OBVIOUS
<1> HIDE DEF L
<1> DEFINE Good(n) == IF n < i THEN f[n] = g[n] ELSE g[n] + s[i] = f[n] + t[i]
           T == {n \in 0 .. L : ~Good(n)}
<1>5. T = {}
  <2> SUFFICES ASSUME T # {} PROVE FALSE
    OBVIOUS
  <2>1. PICK m \in T : \A k \in T : m <= k
    <3>1. T \subseteq Nat
      OBVIOUS
    <3> HIDE DEF T
    <3> QED
      BY <3>1, LeastNumber
  <2>2. m # 0
    <3>1. Good(0)
      BY <1>2, <1>3, <1>4
    <3> QED
      BY <2>1, <3>1
  <2>3. m - 1 \in 0 .. L /\ m \in 1 .. L /\ m \in 0 .. L /\ m - 1 \notin T /\ ~Good(m)
    BY <1>1, <2>1, <2>2
  <2>4. Good(m - 1)
    BY <2>3
  <2>5. /\ f[m] = f[m - 1] + s[m] /\ g[m] = g[m - 1] + t[m]
        /\ f[m] \in Nat /\ f[m - 1] \in Nat /\ g[m] \in Nat /\ g[m - 1] \in Nat
        /\ s[m] \in Nat /\ t[m] \in Nat /\ s[i] \in Nat /\ t[i] \in Nat
        /\ m # i => s[m] = t[m]
    BY <1>1, <1>2, <1>3, <1>4, <2>3
  <2>6. m \in Nat /\ i \in Nat
    BY <1>4, <2>3
  <2> DEFINE fm == f[m - 1]
             gm == g[m - 1]
             sm == s[m]
             tm == t[m]
             x == s[i]
             y == t[i]
  <2>8. /\ f[m] = fm + sm /\ g[m] = gm + tm
        /\ fm \in Nat /\ gm \in Nat /\ sm \in Nat /\ tm \in Nat /\ x \in Nat /\ y \in Nat
    BY <2>5, Zenon
  <2>7. Good(m)
    <3>1. CASE m < i
      BY <2>4, <2>5, <2>6, <3>1
    <3>2. CASE m = i
      <4>1. f[m - 1] = g[m - 1]
        BY <2>4, <2>6, <3>2
      <4>2. g[m] + s[m] = f[m] + t[m]
        <5>1. fm = gm
          BY <4>1
        <5> HIDE DEF fm, gm, sm, tm
        <5>2. (gm + tm) + sm = (fm + sm) + tm
          BY <2>8, <5>1
        <5> QED
          BY <2>8, <5>2, Zenon DEF sm, tm
      <4> QED
        BY <2>6, <3>2, <4>2
    <3>3. CASE m > i
      <4>1. g[m - 1] + s[i] = f[m - 1] + t[i] /\ s[m] = t[m]
        BY <2>4, <2>5, <2>6, <3>3
      <4>2. g[m] + s[i] = f[m] + t[i]
        <5>1. gm + x = fm + y /\ sm = tm
          BY <4>1
        <5> HIDE DEF fm, gm, sm, tm, x, y
        <5>2. (gm + tm) + x = (fm + sm) + y
          BY <2>8, <5>1
        <5> QED
          BY <2>8, <5>2, Zenon DEF x, y
      <4> QED
        BY <2>6, <3>3, <4>2
    <3> QED
      BY <2>6, <3>1, <3>2, <3>3
  <2> QED
    BY <2>3, <2>7
<1>6. Good(L) /\ ~(L < i)
  <2>1. L \in 0 .. L /\ L \notin T /\ ~(L < i)
    BY <1>1, <1>4, <1>5
  <2> QED
    BY <2>1
<1> QED
  BY <1>1, <1>2, <1>3, <1>6
-----------------------------------------------------------------------------
(* What the bytes of a packet make of its sum. *)
LEMMA WordsAre ==
  ASSUME NEW s \in Seq(Octets)
  PROVE  /\ Words(s) \in Seq(Nat) /\ Len(Words(s)) = (Len(s) + 1) \div 2
         /\ \A k \in 1 .. Len(Words(s)) :
              /\ 2 * k - 1 \in 1 .. Len(s)
              /\ Words(s)[k] = s[2 * k - 1] * Octet + (IF 2 * k > Len(s) THEN 0 ELSE s[2 * k])
<1> DEFINE N == (Len(s) + 1) \div 2
           at(k) == s[2 * k - 1] * Octet + (IF 2 * k > Len(s) THEN 0 ELSE s[2 * k])
<1>1. N \in Nat /\ Len(s) \in Nat /\ (Len(s) = 2 * N \/ Len(s) = 2 * N - 1)
  OBVIOUS
<1>2. \A k \in 1 .. Len(s) : s[k] \in Octets
  OBVIOUS
<1>3. Words(s) = [k \in 1 .. N |-> at(k)]
  BY Zenon DEF Words
<1> HIDE DEF N
<1>4. ASSUME NEW k \in 1 .. N PROVE 2 * k - 1 \in 1 .. Len(s) /\ at(k) \in Nat
  <2>1. 2 * k - 1 \in 1 .. Len(s) /\ (2 * k > Len(s) \/ 2 * k \in 1 .. Len(s))
    BY <1>1
  <2>2. s[2 * k - 1] \in Nat /\ (2 * k > Len(s) \/ s[2 * k] \in Nat) /\ Octet \in Nat
    BY <1>2, <2>1, WordIs DEF Octets
  <2>3. s[2 * k - 1] * Octet \in Nat
    BY <2>2
  <2> QED
    BY <2>1, <2>2, <2>3
<1> HIDE DEF at
<1>5. Words(s) \in [1 .. N -> Nat]
  BY <1>3, <1>4
<1>6. Words(s) \in Seq(Nat) /\ Len(Words(s)) = N
  BY <1>1, <1>5
<1>7. \A k \in 1 .. N : Words(s)[k] = at(k)
  BY <1>3
<1> QED
  BY <1>4, <1>6, <1>7 DEF N, at

(* Two packets that differ in the bytes of one word. *)
LEMMA WordChanged ==
  ASSUME NEW s \in Seq(Octets), NEW t \in Seq(Octets), Len(s) = Len(t),
         NEW i \in 1 .. Len(Words(s)),
         \A k \in 1 .. Len(s) : k # 2 * i - 1 /\ k # 2 * i => s[k] = t[k]
  PROVE  /\ Total(Words(s)) \in Nat /\ Total(Words(t)) \in Nat
         /\ Total(Words(t)) + Words(s)[i] = Total(Words(s)) + Words(t)[i]
<1> DEFINE v == Words(s)
           w == Words(t)
<1>1. /\ v \in Seq(Nat) /\ Len(v) = (Len(s) + 1) \div 2
      /\ \A k \in 1 .. Len(v) :
              /\ 2 * k - 1 \in 1 .. Len(s)
              /\ v[k] = s[2 * k - 1] * Octet + (IF 2 * k > Len(s) THEN 0 ELSE s[2 * k])
  BY WordsAre
<1>2. /\ w \in Seq(Nat) /\ Len(w) = (Len(t) + 1) \div 2
      /\ \A k \in 1 .. Len(w) :
              /\ 2 * k - 1 \in 1 .. Len(t)
              /\ w[k] = t[2 * k - 1] * Octet + (IF 2 * k > Len(t) THEN 0 ELSE t[2 * k])
  BY WordsAre
<1>3. i \in 1 .. Len(v) /\ Len(v) = Len(w) /\ Len(v) \in Nat /\ Len(s) \in Nat
  BY <1>1, <1>2
<1> HIDE DEF v, w
<1>4. ASSUME NEW k \in 1 .. Len(v), k # i PROVE v[k] = w[k]
  <2>1. /\ 2 * k - 1 \in 1 .. Len(s) /\ (2 * k > Len(s) \/ 2 * k \in 1 .. Len(s))
        /\ 2 * k - 1 # 2 * i - 1 /\ 2 * k - 1 # 2 * i /\ 2 * k # 2 * i - 1 /\ 2 * k # 2 * i
    <3>1. k \in Nat /\ i \in Nat /\ 2 * k - 1 \in 1 .. Len(s)
      BY <1>1, <1>3
    <3> QED
      BY <1>3, <1>4, <3>1
  <2>2. s[2 * k - 1] = t[2 * k - 1] /\ (2 * k > Len(s) \/ s[2 * k] = t[2 * k])
    BY <2>1
  <2>3. v[k] = s[2 * k - 1] * Octet + (IF 2 * k > Len(s) THEN 0 ELSE s[2 * k])
    BY <1>1
  <2>4. w[k] = t[2 * k - 1] * Octet + (IF 2 * k > Len(t) THEN 0 ELSE t[2 * k])
    BY <1>2, <1>3
  <2> QED
    BY <2>2, <2>3, <2>4, Zenon
<1> QED
  BY <1>1, <1>2, <1>3, <1>4, TotalDiffers DEF v, w

(* A packet verifies when its sum is a multiple of the largest word. *)
SumOf(type, bytes) == Pseudo(type, bytes) + Total(Words(bytes))

LEMMA VerifiesIs ==
  ASSUME NEW type, NEW s, SumOf(type, s) \in Nat
  PROVE  Verifies(type, s) <=> \E k \in Nat : SumOf(type, s) = Ones * k
<1> DEFINE n == SumOf(type, s)
<1>1. Ones \in Nat \ {0} /\ n \in Nat
  BY WordIs
<1>2. Verifies(type, s) <=> n % Ones = 0
  BY Zenon DEF Verifies, SumOf, Ones
<1> HIDE DEF n
<1>3. ASSUME n % Ones = 0 PROVE \E k \in Nat : n = Ones * k
  <2>1. n \div Ones \in Nat /\ n = Ones * (n \div Ones) + (n % Ones)
    BY <1>1, DivMod
  <2>2. n = Ones * (n \div Ones)
    BY <1>1, <1>3, <2>1
  <2> QED
    BY <2>1, <2>2
<1>4. ASSUME NEW k \in Nat, n = Ones * k PROVE n % Ones = 0
  <2>1. (Ones * k + 0) % Ones = 0
    BY <1>1, DivModIs
  <2>2. Ones * k + 0 = n
    BY <1>1, <1>4
  <2> QED
    BY <2>1, <2>2
<1> QED
  BY <1>2, <1>3, <1>4 DEF n
-----------------------------------------------------------------------------
(* A packet the device sums up is a multiple: what is missing is its checksum. *)
LEMMA FilledVerifies ==
  ASSUME NEW type, NEW data \in Seq(Octets)
  PROVE  Verifies(type, Filled(type, data))
<1> DEFINE z == <<0, 0>> \o data
           ck == checksum(type, z)
           b == <<ck \div Octet, ck % Octet>> \o data
           e == EndAround(SumOf(type, z))
<1>1. 0 \in Octets /\ Octets \subseteq Nat
  BY WordIs DEF Octets
<1>2. /\ z \in Seq(Octets) /\ Len(z) = Len(data) + 2 /\ z[1] = 0 /\ z[2] = 0 /\ Len(data) \in Nat
      /\ \A k \in 3 .. Len(z) : z[k] = data[k - 2]
  BY <1>1
<1> HIDE DEF z
<1>3. Words(z) \in Seq(Nat) /\ 1 \in 1 .. Len(Words(z)) /\ Words(z)[1] = 0
  <2>1. Len(Words(z)) = (Len(z) + 1) \div 2 /\ Words(z) \in Seq(Nat)
    BY <1>2, WordsAre
  <2>2. 1 \in 1 .. Len(Words(z))
    BY <1>2, <2>1
  <2>3. Words(z)[1] = z[2 * 1 - 1] * Octet + (IF 2 * 1 > Len(z) THEN 0 ELSE z[2 * 1])
    BY <1>2, <2>2, WordsAre
  <2>4. 2 * 1 - 1 = 1 /\ 2 * 1 = 2 /\ ~(2 > Len(z)) /\ 0 * Octet + 0 = 0
    BY <1>2, WordIs
  <2> QED
    BY <1>2, <2>1, <2>2, <2>3, <2>4, Zenon
<1>4. Pseudo(type, z) \in Nat
  BY <1>2, PacketsAssumption DEF Pseudo
<1>5. Total(Words(z)) \in Nat /\ SumOf(type, z) \in Nat
  BY <1>3, <1>4, TotalDiffers DEF SumOf
<1>6. /\ e \in 0 .. Ones /\ ck = Ones - e
      /\ \E k \in Nat : SumOf(type, z) = e + Ones * k
  BY <1>5, EndAroundIs DEF checksum, SumOf, Ones
<1> HIDE DEF ck, e
<1>7. ck \in Nat /\ ck < Word
  BY <1>6, WordIs
<1>8. /\ ck \div Octet \in Octets /\ ck % Octet \in Octets
      /\ (ck \div Octet) * Octet + (ck % Octet) = ck
  <2>1. /\ ck \div Octet \in Nat /\ ck % Octet \in Nat /\ ck % Octet < Octet
        /\ ck = Octet * (ck \div Octet) + (ck % Octet)
    BY <1>7, WordIs, DivMod
  <2> DEFINE q == ck \div Octet
             r == ck % Octet
  <2> HIDE DEF q, r
  <2>2. q \in Nat /\ r \in Nat /\ r < Octet /\ ck = Octet * q + r
    BY <2>1 DEF q, r
  <2>3. q < Octet
    <3> SUFFICES ASSUME ~(q < Octet) PROVE FALSE
      OBVIOUS
    <3>1. Octet * q >= Octet * Octet
      BY <2>2, WordIs
    <3> QED
      BY <1>7, <2>2, <3>1, WordIs DEF Word
  <2>4. q \in Octets /\ r \in Octets /\ q * Octet + r = ck
    BY <2>2, <2>3, WordIs DEF Octets
  <2> QED
    BY <2>4 DEF q, r
<1>9. /\ b \in Seq(Octets) /\ Len(b) = Len(z)
      /\ b[1] = ck \div Octet /\ b[2] = ck % Octet
      /\ \A k \in 3 .. Len(z) : b[k] = z[k]
  BY <1>2, <1>8
<1>10. Filled(type, data) = b
  BY Zenon DEF Filled, ck, z
<1> HIDE DEF b
<1>11. Words(b)[1] = ck
  <2>1. 1 \in 1 .. Len(Words(b))
    <3>1. Len(Words(b)) = (Len(b) + 1) \div 2
      BY <1>9, WordsAre
    <3> QED
      BY <1>2, <1>9, <3>1
  <2>2. Words(b)[1] = b[2 * 1 - 1] * Octet + (IF 2 * 1 > Len(b) THEN 0 ELSE b[2 * 1])
    BY <1>9, <2>1, WordsAre
  <2>3. 2 * 1 - 1 = 1 /\ 2 * 1 = 2 /\ ~(2 > Len(b))
    BY <1>2, <1>9
  <2> QED
    BY <1>8, <1>9, <2>2, <2>3, Zenon
<1>12. Total(Words(b)) \in Nat /\ Total(Words(b)) + 0 = Total(Words(z)) + ck
  <2>1. \A k \in 1 .. Len(z) : k # 2 * 1 - 1 /\ k # 2 * 1 => z[k] = b[k]
    BY <1>2, <1>9
  <2>2. Total(Words(b)) \in Nat /\ Total(Words(b)) + Words(z)[1] = Total(Words(z)) + Words(b)[1]
    BY <1>2, <1>3, <1>9, <2>1, WordChanged
  <2> QED
    BY <1>3, <1>11, <2>2
<1>13. Pseudo(type, b) = Pseudo(type, z)
  BY <1>9 DEF Pseudo
<1>14. SumOf(type, b) \in Nat /\ SumOf(type, b) = SumOf(type, z) + ck
  BY <1>4, <1>5, <1>7, <1>12, <1>13 DEF SumOf
<1>15. PICK k \in Nat : SumOf(type, z) = e + Ones * k
  BY <1>6
<1>16. Ones * k + Ones = Ones * (k + 1) /\ k + 1 \in Nat /\ Ones * k \in Nat
  BY <1>15, WordIs
<1>17. SumOf(type, b) = Ones * (k + 1)
  <2>1. e \in Nat /\ Ones \in Nat
    BY <1>6, WordIs
  <2> DEFINE sb == SumOf(type, b)
             sz == SumOf(type, z)
             m == Ones * k
  <2>2. m \in Nat /\ sz = e + m /\ sb = sz + ck /\ ck = Ones - e
    BY <1>6, <1>14, <1>15, <1>16
  <2> HIDE DEF sb, sz, m
  <2>3. sb = m + Ones
    BY <2>1, <2>2
  <2> QED
    BY <1>16, <2>3 DEF sb, m
<1>18. Verifies(type, b)
  BY <1>14, <1>16, <1>17, VerifiesIs
<1> QED
  BY <1>10, <1>18
-----------------------------------------------------------------------------
(* A ping that verifies is answered by a reply that does, unless a carry is  *)
(* lost.  The type leaves the first word; the second takes it, and the carry *)
(* out of it is worth one, as it is when it goes around.                     *)
IsPing(s) ==
  /\ s \in Seq(Octets) /\ Len(s) >= 4
  /\ s[1] = Echo /\ s[2] = 0
  /\ Verifies("icmp", s)

ReplyTo(s) == <<0, 0>> \o Corrected(s[3], s[4]) \o SubSeq(s, 5, Len(s))

LEMMA ReplyBytes ==
  ASSUME NEW s, IsPing(s)
  PROVE  /\ ReplyTo(s) \in Seq(Octets) /\ Len(ReplyTo(s)) = Len(s)
         /\ ReplyTo(s)[1] = 0 /\ ReplyTo(s)[2] = 0
         /\ ReplyTo(s)[3] = (s[3] + Echo) % Octet
         /\ ReplyTo(s)[4] = IF s[3] > Octet - 1 - Echo THEN (s[4] + 1) % Octet ELSE s[4]
         /\ \A k \in 5 .. Len(s) : ReplyTo(s)[k] = s[k]
<1> DEFINE hi == (s[3] + Echo) % Octet
           lo == IF s[3] > Octet - 1 - Echo THEN (s[4] + 1) % Octet ELSE s[4]
           rest == SubSeq(s, 5, Len(s))
<1>1. s \in Seq(Octets) /\ Len(s) \in Nat /\ Len(s) >= 4
  BY DEF IsPing
<1>2. s[3] \in Octets /\ s[4] \in Octets
  BY <1>1
<1>3. /\ rest \in Seq(Octets) /\ Len(rest) = Len(s) - 4
      /\ \A k \in 1 .. Len(rest) : rest[k] = s[k + 4]
  <2>1. 5 \in Int /\ Len(s) \in Int /\ \A k \in 5 .. Len(s) : s[k] \in Octets
    BY <1>1
  <2>2. /\ rest \in Seq(Octets)
        /\ Len(rest) = IF 5 <= Len(s) THEN Len(s) - 5 + 1 ELSE 0
        /\ \A i \in 1 .. Len(s) - 5 + 1 : rest[i] = s[5 + i - 1]
    BY <2>1, SubSeqProperties
  <2> HIDE DEF rest
  <2>3. Len(rest) = Len(s) - 4
    <3>1. Len(rest) = IF 5 <= Len(s) THEN Len(s) - 5 + 1 ELSE 0
      BY <2>2, Zenon
    <3>2. CASE 5 <= Len(s)
      <4>1. Len(rest) = Len(s) - 5 + 1 /\ Len(s) - 5 + 1 = Len(s) - 4
        BY <1>1, <3>1, <3>2
      <4> QED
        BY <4>1, Zenon
    <3>3. CASE ~(5 <= Len(s))
      <4>1. Len(rest) = 0
        BY <3>1, <3>3, Zenon
      <4>2. \A n \in Nat : n >= 4 /\ ~(5 <= n) => 0 = n - 4
        OBVIOUS
      <4> QED
        BY <1>1, <3>3, <4>1, <4>2, Zenon
    <3> QED
      BY <3>2, <3>3, Zenon
  <2>4. ASSUME NEW k \in 1 .. Len(rest) PROVE rest[k] = s[k + 4]
    <3>1. k \in 1 .. Len(s) - 5 + 1 /\ 5 + k - 1 = k + 4
      BY <1>1, <2>3
    <3> QED
      BY <2>2, <3>1
  <2> QED
    BY <2>2, <2>3, <2>4
<1>4. 0 \in Octets /\ hi \in Octets /\ lo \in Octets
  <2>1. s[3] \in Nat /\ s[4] \in Nat /\ Octet \in Nat \ {0} /\ Echo \in Nat
    BY <1>2, WordIs, PacketsAssumption DEF Octets
  <2>2. s[3] + Echo \in Nat /\ s[4] + 1 \in Nat
    BY <2>1
  <2>3. /\ (s[3] + Echo) % Octet \in Nat /\ (s[3] + Echo) % Octet < Octet
        /\ (s[4] + 1) % Octet \in Nat /\ (s[4] + 1) % Octet < Octet
    BY <2>1, <2>2, DivMod
  <2> QED
    BY <1>2, <2>1, <2>3 DEF Octets
<1>5. ReplyTo(s) = (<<0, 0>> \o <<hi, lo>>) \o rest
  BY Zenon DEF ReplyTo, Corrected
<1> HIDE DEF hi, lo, rest
<1> DEFINE zeros == <<0, 0>>
           sum == <<hi, lo>>
           head == zeros \o sum
<1>6. /\ zeros \in Seq(Octets) /\ Len(zeros) = 2 /\ zeros[1] = 0 /\ zeros[2] = 0
      /\ sum \in Seq(Octets) /\ Len(sum) = 2 /\ sum[1] = hi /\ sum[2] = lo
  BY <1>4
<1> HIDE DEF zeros, sum
<1>7. /\ head \in Seq(Octets) /\ Len(head) = 4
      /\ head[1] = 0 /\ head[2] = 0 /\ head[3] = hi /\ head[4] = lo
  <2>1. /\ head \in Seq(Octets) /\ Len(head) = Len(zeros) + Len(sum)
        /\ \A i \in 1 .. Len(zeros) + Len(sum) :
             head[i] = IF i <= Len(zeros) THEN zeros[i] ELSE sum[i - Len(zeros)]
    BY <1>6, ConcatProperties
  <2> HIDE DEF head
  <2> QED
    BY <1>6, <2>1
<1> HIDE DEF head
<1> DEFINE t == head \o rest
<1>8. /\ t \in Seq(Octets) /\ Len(t) = Len(head) + Len(rest)
      /\ \A i \in 1 .. Len(head) + Len(rest) :
           t[i] = IF i <= Len(head) THEN head[i] ELSE rest[i - Len(head)]
  <2>1. head \in Seq(Octets) /\ rest \in Seq(Octets)
    BY <1>3, <1>7, Zenon
  <2> QED
    BY <2>1, ConcatProperties
<1>9. ReplyTo(s) = t
  BY <1>5, Zenon DEF zeros, sum, head
<1> HIDE DEF t
<1>10. Len(t) = Len(s) /\ t[1] = 0 /\ t[2] = 0 /\ t[3] = hi /\ t[4] = lo
  <2>1. Len(rest) \in Nat /\ Len(head) = 4 /\ Len(rest) = Len(s) - 4
    BY <1>3, <1>7
  <2>2. Len(t) = Len(s)
    BY <1>1, <1>8, <2>1
  <2>3. \A i \in 1 .. 4 : i \in 1 .. Len(head) + Len(rest) /\ i <= Len(head)
    BY <2>1
  <2>4. \A i \in 1 .. 4 : t[i] = head[i]
    BY <1>8, <2>3, Zenon
  <2>5. 1 \in 1 .. 4 /\ 2 \in 1 .. 4 /\ 3 \in 1 .. 4 /\ 4 \in 1 .. 4
    OBVIOUS
  <2> QED
    BY <1>7, <2>2, <2>4, <2>5, Zenon
<1>11. ASSUME NEW k \in 5 .. Len(s) PROVE t[k] = s[k]
  <2>1. k - 4 \in 1 .. Len(rest) /\ (k - 4) + 4 = k /\ k \in 1 .. 4 + Len(rest) /\ ~(k <= 4)
    BY <1>1, <1>3
  <2>2. t[k] = rest[k - 4]
    BY <1>7, <1>8, <2>1
  <2> QED
    BY <1>3, <2>1, <2>2
<1> QED
  BY <1>8, <1>9, <1>10, <1>11, Zenon DEF hi, lo

(* The first two words, of a packet that has them. *)
LEMMA FirstWords ==
  ASSUME NEW s \in Seq(Octets), Len(s) >= 4
  PROVE  /\ 1 \in 1 .. Len(Words(s)) /\ 2 \in 1 .. Len(Words(s))
         /\ Words(s)[1] = s[1] * Octet + s[2] /\ Words(s)[2] = s[3] * Octet + s[4]
<1>1. 1 \in 1 .. Len(Words(s)) /\ 2 \in 1 .. Len(Words(s))
  <2>1. Len(Words(s)) = (Len(s) + 1) \div 2 /\ Len(s) \in Nat
    BY WordsAre
  <2> QED
    BY <2>1
<1>2. /\ Words(s)[1] = s[2 * 1 - 1] * Octet + (IF 2 * 1 > Len(s) THEN 0 ELSE s[2 * 1])
      /\ Words(s)[2] = s[2 * 2 - 1] * Octet + (IF 2 * 2 > Len(s) THEN 0 ELSE s[2 * 2])
  BY <1>1, WordsAre
<1>3. 2 * 1 - 1 = 1 /\ 2 * 1 = 2 /\ 2 * 2 - 1 = 3 /\ 2 * 2 = 4 /\ ~(2 > Len(s)) /\ ~(4 > Len(s))
  OBVIOUS
<1> QED
  BY <1>1, <1>2, <1>3, Zenon

(* What the two words sum up to, before and after. *)
LEMMA TwoWords ==
  ASSUME NEW hi \in Octets, NEW lo \in Octets,
         ~(hi > Octet - 1 - Echo /\ lo = Octet - 1)
  PROVE  LET was == (Echo * Octet + 0) + (hi * Octet + lo)
             c == Corrected(hi, lo)
             is == (0 * Octet + 0) + (c[1] * Octet + c[2])
         IN  was \in Nat /\ is \in Nat /\ (is = was \/ is + Ones = was)
<1>1. /\ Octet \in Nat \ {0} /\ Echo \in Nat /\ Echo < Octet /\ hi \in Nat /\ lo \in Nat
      /\ hi < Octet /\ lo < Octet
  BY WordIs, PacketsAssumption DEF Octets
<1>2. (hi + Echo) * Octet = hi * Octet + Echo * Octet /\ hi * Octet \in Nat /\ Echo * Octet \in Nat
  BY <1>1
<1>3. CASE ~(hi > Octet - 1 - Echo)
  <2>1. (hi + Echo) % Octet = hi + Echo
    <3>1. hi + Echo \in Nat /\ hi + Echo < Octet
      BY <1>1, <1>3
    <3>2. (Octet * 0 + (hi + Echo)) % Octet = hi + Echo
      BY <1>1, <3>1, DivModIs
    <3> QED
      BY <1>1, <3>2
  <2>2. Corrected(hi, lo)[1] = hi + Echo /\ Corrected(hi, lo)[2] = lo
    BY <1>3, <2>1 DEF Corrected
  <2> QED
    BY <1>1, <1>2, <2>2
<1>4. CASE hi > Octet - 1 - Echo
  <2> DEFINE h == hi + Echo - Octet
  <2>1. h \in Nat /\ h < Octet /\ hi + Echo = h + Octet
    BY <1>1, <1>4
  <2>2. (hi + Echo) % Octet = h
    <3>1. (Octet * 1 + h) % Octet = h
      BY <1>1, <2>1, DivModIs
    <3> QED
      BY <1>1, <2>1, <3>1
  <2>3. (lo + 1) % Octet = lo + 1
    <3>1. lo + 1 \in Nat /\ lo + 1 < Octet
      BY <1>1, <1>4
    <3>2. (Octet * 0 + (lo + 1)) % Octet = lo + 1
      BY <1>1, <3>1, DivModIs
    <3> QED
      BY <1>1, <3>2
  <2>4. Corrected(hi, lo)[1] = h /\ Corrected(hi, lo)[2] = lo + 1
    BY <1>4, <2>2, <2>3 DEF Corrected
  <2> HIDE DEF h
  <2>5. (h + Octet) * Octet = h * Octet + Word /\ h * Octet \in Nat
    BY <1>1, <2>1 DEF Word
  <2>6. h * Octet + Word = hi * Octet + Echo * Octet
    BY <1>2, <2>1, <2>5, Zenon
  <2> QED
    BY <1>1, <1>2, <2>1, <2>4, <2>5, <2>6, WordIs
<1> QED
  BY <1>3, <1>4
LEMMA ReplyVerifies ==
  ASSUME NEW s, IsPing(s), ~(s[3] > Octet - 1 - Echo /\ s[4] = Octet - 1)
  PROVE  Verifies("icmp", ReplyTo(s))
<1> DEFINE t == ReplyTo(s)
           hi == s[3]
           lo == s[4]
           c == Corrected(hi, lo)
           u == <<0, 0, hi, lo>> \o SubSeq(s, 5, Len(s))
<1>1. s \in Seq(Octets) /\ Len(s) \in Nat /\ Len(s) >= 4 /\ s[1] = Echo /\ s[2] = 0
  BY DEF IsPing
<1>2. /\ t \in Seq(Octets) /\ Len(t) = Len(s) /\ t[1] = 0 /\ t[2] = 0
      /\ t[3] = (hi + Echo) % Octet
      /\ t[4] = IF hi > Octet - 1 - Echo THEN (lo + 1) % Octet ELSE lo
      /\ \A k \in 5 .. Len(s) : t[k] = s[k]
  BY ReplyBytes
<1>3. t[3] = c[1] /\ t[4] = c[2]
  BY <1>2 DEF Corrected
<1>4. hi \in Octets /\ lo \in Octets
  BY <1>1
(* The packet between: the type has left, the checksum is the old one. *)
<1> DEFINE between == [k \in 1 .. Len(s) |-> IF k < 3 THEN 0 ELSE s[k]]
<1> HIDE DEF t, c
<1>5. /\ between \in Seq(Octets) /\ Len(between) = Len(s)
      /\ between[1] = 0 /\ between[2] = 0 /\ between[3] = hi /\ between[4] = lo
      /\ \A k \in 5 .. Len(s) : between[k] = s[k]
  <2>1. 0 \in Octets /\ \A k \in 1 .. Len(s) : s[k] \in Octets
    BY <1>1, WordIs DEF Octets
  <2>2. between \in [1 .. Len(s) -> Octets]
    BY <2>1
  <2>3. between \in Seq(Octets) /\ Len(between) = Len(s)
    BY <1>1, <2>2
  <2>4. \A k \in 1 .. Len(s) : between[k] = IF k < 3 THEN 0 ELSE s[k]
    OBVIOUS
  <2> HIDE DEF between
  <2> QED
    BY <1>1, <2>3, <2>4
<1> HIDE DEF between
<1> DEFINE S == Total(Words(s))
           T == Total(Words(t))
           B == Total(Words(between))
<1>6. /\ Words(s)[1] = Echo * Octet + 0 /\ Words(s)[2] = hi * Octet + lo
      /\ 1 \in 1 .. Len(Words(s))
  BY <1>1, FirstWords
<1>7. /\ Words(between)[1] = 0 * Octet + 0 /\ Words(between)[2] = hi * Octet + lo
      /\ 2 \in 1 .. Len(Words(between))
  BY <1>1, <1>5, FirstWords
<1>8. Words(t)[1] = 0 * Octet + 0 /\ Words(t)[2] = c[1] * Octet + c[2]
  BY <1>1, <1>2, <1>3, FirstWords
<1>9. S \in Nat /\ B \in Nat /\ B + (Echo * Octet + 0) = S + (0 * Octet + 0)
  <2>1. \A k \in 1 .. Len(s) : k # 2 * 1 - 1 /\ k # 2 * 1 => s[k] = between[k]
    <3> SUFFICES ASSUME NEW k \in 1 .. Len(s), k # 2 * 1 - 1, k # 2 * 1 PROVE s[k] = between[k]
      OBVIOUS
    <3>1. k = 3 \/ k = 4 \/ k \in 5 .. Len(s)
      BY <1>1
    <3> QED
      BY <1>5, <3>1, Zenon
  <2>2. S \in Nat /\ B \in Nat /\ B + Words(s)[1] = S + Words(between)[1]
    BY <1>1, <1>5, <1>6, <2>1, WordChanged
  <2> QED
    BY <1>6, <1>7, <2>2, Zenon
<1>10. T \in Nat /\ T + (hi * Octet + lo) = B + (c[1] * Octet + c[2])
  <2>1. \A k \in 1 .. Len(between) : k # 2 * 2 - 1 /\ k # 2 * 2 => between[k] = t[k]
    <3> SUFFICES ASSUME NEW k \in 1 .. Len(s), k # 2 * 2 - 1, k # 2 * 2 PROVE between[k] = t[k]
      BY <1>5, Zenon
    <3>1. k = 1 \/ k = 2 \/ k \in 5 .. Len(s)
      BY <1>1
    <3> QED
      BY <1>2, <1>5, <3>1, Zenon
  <2>2. T \in Nat /\ B \in Nat /\ T + Words(between)[2] = B + Words(t)[2]
    BY <1>2, <1>5, <1>7, <2>1, WordChanged
  <2> QED
    BY <1>7, <1>8, <2>2, Zenon
<1>11. T = S \/ T + Ones = S
  <2> DEFINE e == Echo * Octet + 0
             o == hi * Octet + lo
             n == c[1] * Octet + c[2]
             z == 0 * Octet + 0
  <2>1. /\ e + o \in Nat /\ z + n \in Nat
        /\ z + n = e + o \/ (z + n) + Ones = e + o
    BY <1>4, TwoWords DEF c
  <2>2. /\ z = 0 /\ e \in Nat /\ o \in Nat /\ n \in Nat /\ Ones \in Nat
    <3>1. /\ Octet \in Nat /\ Echo \in Nat /\ hi \in Nat /\ lo \in Nat
          /\ c[1] \in Nat /\ c[2] \in Nat
      <4>1. t[3] \in Octets /\ t[4] \in Octets
        BY <1>1, <1>2
      <4> QED
        BY <1>3, <1>4, <4>1, WordIs, PacketsAssumption DEF Octets
    <3> HIDE DEF hi, lo
    <3> QED
      BY <3>1, WordIs
  <2> HIDE DEF e, o, n, z, S, T, B
  <2>3. B + e = S + z /\ T + o = B + n /\ S \in Nat /\ T \in Nat /\ B \in Nat
    BY <1>9, <1>10 DEF e, o, n, z
  <2> QED
    BY <2>1, <2>2, <2>3
<1>12. SumOf("icmp", s) = S /\ SumOf("icmp", t) = T
  <2>1. Pseudo("icmp", s) = 0 /\ Pseudo("icmp", t) = 0
    BY DEF Pseudo
  <2> HIDE DEF S, T
  <2>2. 0 + S = S /\ 0 + T = T
    BY <1>9, <1>10
  <2> QED
    BY <2>1, <2>2, Zenon DEF SumOf, S, T
<1> HIDE DEF S, T, B
<1>13. PICK k \in Nat : S = Ones * k
  BY <1>9, <1>12, VerifiesIs DEF IsPing
<1>14. \E j \in Nat : T = Ones * j
  <2>1. CASE T = S
    BY <1>13, <2>1
  <2>2. CASE T + Ones = S
    <3>1. Ones \in Nat /\ Ones > 0
      BY WordIs
    <3>2. k # 0
      BY <1>10, <1>13, <2>2, <3>1
    <3>3. Ones * k = Ones * (k - 1) + Ones /\ k - 1 \in Nat
      BY <3>1, <3>2
    <3>4. Ones * (k - 1) \in Nat
      BY <3>1, <3>3
    <3>5. T = Ones * (k - 1)
      BY <1>10, <1>13, <2>2, <3>1, <3>3, <3>4
    <3> QED
      BY <3>3, <3>5
  <2> QED
    BY <1>11, <2>1, <2>2
<1>15. Verifies("icmp", t)
  BY <1>10, <1>12, <1>14, VerifiesIs
<1> QED
  BY <1>15 DEF t
(* When the carry is lost the reply shows it. *)
LEMMA LostShows ==
  ASSUME NEW s, IsPing(s), s[3] > Octet - 1 - Echo /\ s[4] = Octet - 1
  PROVE  ReplyTo(s)[3] < Echo /\ ReplyTo(s)[4] = 0
<1>1. s \in Seq(Octets) /\ Len(s) \in Nat /\ Len(s) >= 4
  BY DEF IsPing
<1>2. s[3] \in Nat /\ s[3] < Octet
  <2>1. s[3] \in Octets
    BY <1>1
  <2> QED
    BY <2>1, WordIs DEF Octets
<1>3. /\ ReplyTo(s)[3] = (s[3] + Echo) % Octet
      /\ ReplyTo(s)[4] = (s[4] + 1) % Octet
  BY ReplyBytes
<1> DEFINE h == s[3] + Echo - Octet
<1>4. Octet \in Nat \ {0} /\ Echo \in Nat /\ Echo < Octet
  BY WordIs, PacketsAssumption
<1>5. h \in Nat /\ h < Octet /\ h < Echo /\ Octet * 1 + h = s[3] + Echo
  BY <1>2, <1>4
<1> HIDE DEF h
<1>6. (s[3] + Echo) % Octet = h
  <2>1. (Octet * 1 + h) % Octet = h
    BY <1>4, <1>5, DivModIs
  <2> QED
    BY <1>5, <2>1
<1>7. (s[4] + 1) % Octet = 0
  <2>1. (Octet * 1 + 0) % Octet = 0
    BY <1>4, DivModIs
  <2>2. Octet * 1 + 0 = s[4] + 1
    BY <1>4
  <2> QED
    BY <2>1, <2>2
<1> QED
  BY <1>3, <1>5, <1>6, <1>7

-----------------------------------------------------------------------------
(* What is under way: a ping that verifies, or what the device has sent. *)
PacketInv ==
  /\ packet = [from |-> packet.from, type |-> packet.type, bytes |-> packet.bytes]
  /\ packet.from = "host" => packet.type = "icmp" /\ IsPing(packet.bytes)
  /\ SentIsTaken

LEMMA QuietPacket ==
  ASSUME NEW p, p = Quiet
  PROVE  /\ p = [from |-> p.from, type |-> p.type, bytes |-> p.bytes]
         /\ p.from # "host" /\ p.from # "device"
BY DEF Quiet

LEMMA DataAreBytes == Data \subseteq Seq(Octets)
<1> SUFFICES ASSUME NEW d \in Data PROVE d \in Seq(Octets)
  OBVIOUS
<1>1. PICK n \in 0 .. MaxData : d \in [1 .. n -> Octets]
  BY DEF Data
<1> QED
  BY <1>1, PacketsAssumption

LEMMA PingComes ==
  ASSUME NEW hi \in Octets, NEW lo \in Octets, NEW data \in Data, Ping(hi, lo, data)
  PROVE  PacketInv'
<1> DEFINE head == <<Echo, 0, hi, lo>>
           bytes == head \o data
<1>1. /\ packet' = [from |-> "host", type |-> "icmp", bytes |-> bytes]
      /\ Verifies("icmp", bytes)
  BY Zenon DEF Ping
<1>2. head \in Seq(Octets) /\ Len(head) = 4 /\ head[1] = Echo /\ head[2] = 0
  <2>1. Echo \in Octets /\ 0 \in Octets
    BY PacketsAssumption, WordIs DEF Octets
  <2> QED
    BY <2>1
<1>3. data \in Seq(Octets)
  BY DataAreBytes
<1> HIDE DEF head
<1>4. /\ bytes \in Seq(Octets) /\ Len(bytes) = Len(head) + Len(data)
      /\ \A i \in 1 .. Len(head) + Len(data) :
           bytes[i] = IF i <= Len(head) THEN head[i] ELSE data[i - Len(head)]
  BY <1>2, <1>3, ConcatProperties
<1> HIDE DEF bytes
<1>5. IsPing(bytes)
  <2>1. Len(data) \in Nat
    BY <1>3
  <2>2. 1 \in 1 .. Len(head) + Len(data) /\ 2 \in 1 .. Len(head) + Len(data) /\ Len(bytes) >= 4
    BY <1>2, <1>4, <2>1
  <2>3. bytes[1] = head[1] /\ bytes[2] = head[2]
    BY <1>2, <1>4, <2>2
  <2> QED
    BY <1>1, <1>2, <1>4, <2>2, <2>3, Zenon DEF IsPing
<1>6. packet'.from = "host" /\ packet'.type = "icmp" /\ packet'.bytes = bytes
  BY <1>1
<1> QED
  BY <1>1, <1>5, <1>6 DEF PacketInv, SentIsTaken

LEMMA ReplyGoes ==
  ASSUME PacketInv, make_echo_reply_from_request
  PROVE  PacketInv'
<1> DEFINE s == packet.bytes
           t == ReplyTo(s)
<1>1. packet.type = "icmp" /\ IsPing(s)
  BY DEF PacketInv, make_echo_reply_from_request
<1>2. packet' = [packet EXCEPT !.from = "device", !.bytes = t]
  BY Zenon DEF make_echo_reply_from_request, ReplyTo
<1>3. packet = [from |-> packet.from, type |-> packet.type, bytes |-> s]
  BY DEF PacketInv
<1> HIDE DEF t
<1>4. packet' = [from |-> "device", type |-> packet.type, bytes |-> t]
  BY <1>2, <1>3
<1> HIDE DEF s
<1>5. packet'.from = "device" /\ packet'.type = "icmp" /\ packet'.bytes = t
  BY <1>1, <1>4
<1>6. packet' = [from |-> packet'.from, type |-> packet'.type, bytes |-> packet'.bytes]
  BY <1>4
<1>7. CASE s[3] > Octet - 1 - Echo /\ s[4] = Octet - 1
  <2>1. t[3] < Echo /\ t[4] = 0
    BY <1>1, <1>7, LostShows DEF t
  <2>2. CarryLost'
    BY <1>5, <2>1 DEF CarryLost, IsReply
  <2> QED
    BY <1>5, <1>6, <2>2 DEF PacketInv, SentIsTaken
<1>8. CASE ~(s[3] > Octet - 1 - Echo /\ s[4] = Octet - 1)
  <2>1. Verifies("icmp", t)
    BY <1>1, <1>8, ReplyVerifies DEF t
  <2>2. SentIsTaken'
    BY <1>5, <2>1, Zenon DEF SentIsTaken
  <2> QED
    BY <1>5, <1>6, <2>2 DEF PacketInv
<1> QED
  BY <1>7, <1>8

LEMMA SumGoes ==
  ASSUME NEW type, NEW data \in Data, SendPacket(type, data)
  PROVE  PacketInv'
<1> DEFINE bytes == Filled(type, data)
<1>1. packet' = [from |-> "device", type |-> type, bytes |-> bytes]
  BY Zenon DEF SendPacket
<1>2. Verifies(type, bytes)
  BY DataAreBytes, FilledVerifies
<1> HIDE DEF bytes
<1>3. packet'.from = "device" /\ packet'.type = type /\ packet'.bytes = bytes
  BY <1>1
<1>4. packet' = [from |-> packet'.from, type |-> packet'.type, bytes |-> packet'.bytes]
  BY <1>1
<1>5. SentIsTaken'
  BY <1>2, <1>3, Zenon DEF SentIsTaken
<1> QED
  BY <1>3, <1>4, <1>5 DEF PacketInv

LEMMA PacketStep == PacketInv /\ [PacketsNext]_packetVars => PacketInv'
<1> SUFFICES ASSUME PacketInv, [PacketsNext]_packetVars PROVE PacketInv'
  OBVIOUS
<1>1. CASE \E hi, lo \in Octets, data \in Data : Ping(hi, lo, data)
  BY <1>1, PingComes
<1>2. CASE make_echo_reply_from_request
  BY <1>2, ReplyGoes
<1>3. CASE \E type \in {"ip", "udp", "tcp"}, data \in Data : SendPacket(type, data)
  BY <1>3, SumGoes
<1>4. CASE Taken
  <2>1. packet' = Quiet
    BY <1>4 DEF Taken
  <2>2. /\ packet' = [from |-> packet'.from, type |-> packet'.type, bytes |-> packet'.bytes]
        /\ packet'.from # "host" /\ packet'.from # "device"
    BY <2>1, QuietPacket
  <2> QED
    BY <2>2, Zenon DEF PacketInv, SentIsTaken
<1>5. CASE UNCHANGED packetVars
  BY <1>5 DEF packetVars, PacketInv, SentIsTaken, CarryLost, IsReply
<1> QED
  BY <1>1, <1>2, <1>3, <1>4, <1>5, Zenon DEF PacketsNext

(* Whoever gets what the device sends takes it, for bytes of any number of    *)
(* values and data of any length: its own packets, and the replies whose      *)
(* carry is not lost.                                                        *)
THEOREM ChecksumsAreTaken == PacketsSpec => []SentIsTaken
<1>1. PacketsInit => PacketInv
  <2> SUFFICES ASSUME PacketsInit PROVE PacketInv
    OBVIOUS
  <2>1. packet = Quiet
    BY DEF PacketsInit
  <2>2. /\ packet = [from |-> packet.from, type |-> packet.type, bytes |-> packet.bytes]
        /\ packet.from # "host" /\ packet.from # "device"
    BY <2>1, QuietPacket
  <2> QED
    BY <2>2, Zenon DEF PacketInv, SentIsTaken
<1>2. PacketInv => SentIsTaken
  BY DEF PacketInv
<1> QED
  BY <1>1, PacketStep, <1>2, PTL DEF PacketsSpec
=============================================================================
