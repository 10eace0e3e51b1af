--------------------------- MODULE NetTraceProofs ---------------------------
(***************************************************************************)
(* Proofs about blktrace over the network, for any clients, machines, CPUs *)
(* and devices: the scan of the server handles the connections poll spoke  *)
(* of, the files are beginnings of what the clients read, and, with one    *)
(* client per machine, a client is served for as long as it traces and has *)
(* all its data in the files when it ends.                                 *)
(*                                                                         *)
(* A stream is a device on a CPU of a client.  All that concerns it on     *)
(* both sides (its connection, the messages on their way, its file, the    *)
(* client's phase) is its View; Sound says what is known of a view, and    *)
(* what a step does to it is proved on views, away from the model's        *)
(* functions.  The code keeps no record of which devices it has heard of,  *)
(* only a count: the invariant NetInv says that there is such a record,    *)
(* heard, which the count, the messages and the clients agree with.        *)
(*                                                                         *)
(* The last part adds that the server drops the connections of a client    *)
(* only when the client is over (DroppedOver): at the close that brings    *)
(* the count of its machine to zero every device of it was announced       *)
(* (open_ios), so that none is left to come.  Two clients on a machine     *)
(* share the count, which is why this part asks for one.                   *)
(***************************************************************************)
EXTENDS NetTrace, SequenceTheorems, FiniteSetTheorems,
        WellFoundedInduction, TLAPS

-----------------------------------------------------------------------------
(* Streams, lanes and connections.                                         *)

\* The CPU a stream is of, a device of a CPU, and the connection a stream goes
\* by.
LaneOf(s) == <<s[1], s[2]>>
On(l, d)  == <<l[1], l[2], d>>
Of(s)     == ConnOf(LaneOf(s), s[3])

\* What a stream is.
LEMMA StreamIs ==
    /\ \A s : s \in Streams <=>
          \E c \in Clients : \E p \in 1..NCpus[c], d \in 1..NDevs[c] :
              s = <<c, p, d>>
    /\ \A l : l \in Lanes <=>
          \E c \in Clients : \E p \in 1..NCpus[c] : l = <<c, p>>
<1>1. ASSUME NEW s
      PROVE  s \in Streams <=>
          \E c \in Clients : \E p \in 1..NCpus[c], d \in 1..NDevs[c] :
              s = <<c, p, d>>
  <2>1. s \in Streams <=> \E c \in Clients :
             s \in {c} \X (1..NCpus[c]) \X DevsOf(c)
    BY DEF Streams
  <2>2. ASSUME NEW c \in Clients
        PROVE s \in {c} \X (1..NCpus[c]) \X DevsOf(c) <=>
              \E p \in 1..NCpus[c], d \in 1..NDevs[c] : s = <<c, p, d>>
    BY SMT DEF DevsOf
  <2> QED BY <2>1, <2>2
<1>2. ASSUME NEW l
      PROVE  l \in Lanes <=>
          \E c \in Clients : \E p \in 1..NCpus[c] : l = <<c, p>>
  BY DEF Lanes, LanesOf
<1> QED BY <1>1, <1>2

\* A stream belongs to a lane, and is one of the devices of its client.
LEMMA StreamParts ==
    ASSUME NEW s \in Streams
    PROVE  /\ s[1] \in Clients /\ s[2] \in 1..NCpus[s[1]]
           /\ s[3] \in DevsOf(s[1]) /\ s[3] \in Devs
           /\ s[3] \in Nat /\ NDevs[s[1]] \in Nat /\ s[3] >= 1
           /\ s[3] <= NDevs[s[1]]
           /\ LaneOf(s) \in Lanes /\ LaneOf(s) \in LanesOf(s[1])
           /\ LaneOf(s)[1] = s[1] /\ LaneOf(s)[2] = s[2]
           /\ On(LaneOf(s), s[3]) = s
<1>0. PICK c \in Clients :
          \E p \in 1..NCpus[c], d \in 1..NDevs[c] : s = <<c, p, d>>
    BY StreamIs
<1>1. PICK p \in 1..NCpus[c], d \in 1..NDevs[c] : s = <<c, p, d>>
    BY <1>0
<1>2. s[1] = c /\ s[2] = p /\ s[3] = d /\ LaneOf(s) = <<c, p>>
    BY <1>1 DEF LaneOf
<1>3. NDevs[c] \in Nat
    BY NetAssumption
<1>4. s[3] \in Devs
    BY <1>1, <1>2 DEF Devs, DevsOf
<1>5. LaneOf(s) \in Lanes /\ LaneOf(s) \in LanesOf(s[1])
    BY <1>1, <1>2 DEF Lanes, LanesOf
<1> QED BY <1>1, <1>2, <1>3, <1>4, <1>5 DEF DevsOf, On

\* A device of a lane is a stream.
LEMMA LaneParts ==
    ASSUME NEW l \in Lanes
    PROVE  /\ l[1] \in Clients /\ l[2] \in 1..NCpus[l[1]]
           /\ NDevs[l[1]] \in Nat /\ NDevs[l[1]] >= 1
           /\ l \in LanesOf(l[1])
           /\ \A d \in DevsOf(l[1]) :
                 /\ On(l, d) \in Streams /\ d \in Nat /\ d \in Devs
                 /\ LaneOf(On(l, d)) = l
                 /\ On(l, d)[1] = l[1] /\ On(l, d)[3] = d
<1>0. PICK c \in Clients : \E p \in 1..NCpus[c] : l = <<c, p>>
    BY StreamIs
<1>1. PICK p \in 1..NCpus[c] : l = <<c, p>>
    BY <1>0
<1>2. l[1] = c /\ l[2] = p
    BY <1>1
<1>3. NDevs[c] \in Nat \ {0}
    BY NetAssumption
<1>4. ASSUME NEW d \in DevsOf(l[1])
      PROVE  /\ On(l, d) \in Streams /\ d \in Nat /\ d \in Devs
             /\ LaneOf(On(l, d)) = l
             /\ On(l, d)[1] = l[1] /\ On(l, d)[3] = d
  <2>1. d \in 1..NDevs[c] /\ On(l, d) = <<c, p, d>>
    BY <1>2 DEF DevsOf, On
  <2>2. On(l, d) \in Streams
    BY <2>1, StreamIs
  <2> QED BY <1>1, <1>2, <2>1, <2>2 DEF LaneOf, Devs, DevsOf
<1> QED BY <1>1, <1>2, <1>3, <1>4 DEF LanesOf

\* Which stream of a lane a device is.
LEMMA StreamOn ==
    ASSUME NEW l \in Lanes, NEW s \in Streams, LaneOf(s) = l
    PROVE  /\ s = On(l, s[3]) /\ s[1] = l[1]
BY StreamParts

\* The connection of a stream.
LEMMA OfParts ==
    ASSUME NEW s \in Streams
    PROVE  /\ Of(s) \in Conns /\ Of(s)[1] = s[1] /\ LaneOf(Of(s)) = LaneOf(s)
           /\ HostOfConn(Of(s)) = HostOf[s[1]]
           /\ Of(s) \in ConnsOf(s[1])
           /\ Of(s) = IF sendfile[s[1]] THEN s ELSE On(LaneOf(s), 1)
<1>0. PICK c \in Clients :
          \E p \in 1..NCpus[c], d \in 1..NDevs[c] : s = <<c, p, d>>
    BY StreamIs
<1>1. PICK p \in 1..NCpus[c], d \in 1..NDevs[c] : s = <<c, p, d>>
    BY <1>0
<1>2. s[1] = c /\ s[2] = p /\ s[3] = d /\ LaneOf(s) = <<c, p>>
    BY <1>1 DEF LaneOf
<1>3. Of(s) = <<c, p, IF sendfile[c] THEN d ELSE 1>>
    BY <1>2 DEF Of, ConnOf
<1>4. 1 \in 1..NDevs[c]
    BY NetAssumption
<1>5. Of(s) \in Streams
    BY <1>3, <1>4, StreamIs
<1>6. LaneOf(s) \in LanesOf(c) /\ s[3] \in DevsOf(c)
    BY <1>2, StreamParts
<1>7. Of(s) \in ConnsOf(s[1])
    BY <1>2, <1>6 DEF Of, ConnsOf
<1> QED BY <1>1, <1>2, <1>3, <1>5, <1>7 DEF Conns, LaneOf, On, HostOfConn

\* Two streams with one connection are of one lane, and the same if they are
\* of one device or use sendfile.
LEMMA OfSame ==
    ASSUME NEW s \in Streams, NEW t \in Streams, Of(s) = Of(t)
    PROVE  /\ LaneOf(s) = LaneOf(t) /\ s[1] = t[1]
           /\ s[3] = t[3] => s = t
           /\ sendfile[s[1]] => s = t
<1>1. LaneOf(s) = LaneOf(t)
    BY OfParts
<1>2. s = On(LaneOf(s), s[3]) /\ t = On(LaneOf(t), t[3]) /\ LaneOf(s)[1] = s[1]
      /\ LaneOf(t)[1] = t[1]
    BY StreamParts
<1>3. Of(s) = IF sendfile[s[1]] THEN s ELSE On(LaneOf(s), 1)
    BY OfParts
<1>4. Of(t) = IF sendfile[t[1]] THEN t ELSE On(LaneOf(t), 1)
    BY OfParts
<1> QED BY <1>1, <1>2, <1>3, <1>4

\* The streams of a lane share a connection unless it uses sendfile.
LEMMA OfLane ==
    ASSUME NEW s \in Streams, NEW t \in Streams, LaneOf(s) = LaneOf(t),
           ~sendfile[s[1]]
    PROVE  Of(s) = Of(t)
<1>1. s[1] = t[1]
    BY StreamParts
<1> QED BY <1>1, OfParts

\* The connection a lane uses is that of the stream it is at.
LEMMA ConnIs ==
    ASSUME NEW l \in Lanes, NEW d \in DevsOf(l[1])
    PROVE  /\ ConnOf(l, d) = Of(On(l, d))
           /\ dev[l] \in DevsOf(l[1]) => Conn(l) = Of(On(l, dev[l]))
BY LaneParts DEF Of, Conn

\* Nobody changes the way data are sent.
LEMMA OfStays ==
    ASSUME sendfile' = sendfile
    PROVE  \A s : Of(s)' = Of(s)
BY DEF Of, ConnOf

-----------------------------------------------------------------------------
(* What is known of one stream, on both sides.                             *)

\* The stages and phases of a client, and what a view of a stream consists of.
Stages == {"starting", "tracing", "stopping", "killed", "absent"}
Pieces == [n : Nat, whole : BOOLEAN]
Early  == {"fresh", "joined", "waiting"}
Phases == Early \cup {"opening", "opened", "ended"}

Views == [q : Seq(Messages), acks : Nat, fd : {"none", "open", "closed"},
          net : {"up", "lost", "silent", "short"}, end : {"open", "closed"},
          stage : Stages, phase : Phases, sent : Nat, file : Seq(Pieces),
          heard : {"new", "open", "over"}]

\* The connection reaches the server, and somebody may be there.
Reaches(v) == v.net \in {"up", "short"} /\ v.end = "open" /\ v.stage # "killed"

\* The client is there and its connection reaches the server.
Up(v) == Reaches(v) /\ v.stage # "absent"

\* Where a send fell short: nothing was torn so far, in the file or in the first
\* m messages on their way.
Intact(v, m) ==
    v.net = "short" =>
        /\ \A j \in 1..m : v.q[j].torn = "no"
        /\ \A j \in 1..Len(v.file) : v.file[j].whole

\* What is on its way about device d: its open alone, before the server has
\* heard of it, or data and then perhaps its close.
QueueOk(d, v) ==
    \A i \in 1..Len(v.q) :
        /\ v.q[i].torn # "no" =>
              v.net = "short" \/ (i = Len(v.q) /\ v.net # "up")
        /\ v.q[i].dev = d /\ v.q[i].kind = "open" =>
              /\ v.heard = "new"
              /\ \A j \in 1..Len(v.q) : v.q[j].dev = d => j = i
        /\ v.q[i].dev = d /\ v.q[i].kind # "open" => v.heard = "open"
        /\ v.q[i].dev = d /\ v.q[i].kind = "close" =>
              /\ v.stage \in {"stopping", "killed"}
              /\ \A j \in 1..Len(v.q) : v.q[j].dev = d => j <= i

\* The i-th message on its way is piece n of device d.
PieceAt(d, v, i, n) ==
    v.q[i].dev = d /\ v.q[i].kind = "data" /\ v.q[i].n = n

\* The pieces on their way follow those in the file, without a gap up to the
\* first that was torn, and as long as nothing happened up to the last that was
\* sent.
DataOk(d, v) ==
    /\ \A i \in 1..Len(v.q), n \in Nat : PieceAt(d, v, i, n) =>
          /\ Len(v.file) < n /\ n <= v.sent
          /\ Intact(v, i - 1) =>
                \A m \in Len(v.file) + 1..n - 1 :
                    \E j \in 1..i - 1 : PieceAt(d, v, j, m)
          /\ \A j \in 1..i - 1, m \in Nat : PieceAt(d, v, j, m) => m < n
    /\ Reaches(v) /\ Intact(v, Len(v.q)) =>
          \A m \in Len(v.file) + 1..v.sent :
              \E j \in 1..Len(v.q) : PieceAt(d, v, j, m)

\* The file is a beginning of what was read, up to the first piece that is a
\* part; without a short send that is the last one, of a connection that was
\* lost.
FileOk(v) ==
    /\ Len(v.file) <= v.sent
    /\ \A j \in 1..Len(v.file) :
          /\ (\A m \in 1..j - 1 : v.file[m].whole) => v.file[j].n = j
          /\ \/ v.file[j].whole \/ v.net = "short"
             \/ j = Len(v.file) /\ v.net # "up" /\ v.q = <<>>

\* What the client knows of the server: it goes on when its open was heard.
PhaseOk(d, v) ==
    /\ v.phase \in Early \cup {"opening"} => v.sent = 0
    /\ v.stage = "absent" => v.sent = 0
    /\ Up(v) =>
          /\ v.phase \in Early =>
                v.heard = "new" /\ \A i \in 1..Len(v.q) : v.q[i].dev # d
          /\ v.phase \in {"fresh", "joined"} => v.acks = 0
          /\ v.phase = "opening" =>
                /\ v.acks <= 1 /\ v.heard # "over"
                /\ v.acks = 1 => v.heard = "open"
          /\ v.phase = "opened" =>
                /\ v.heard = "open"
                /\ \A i \in 1..Len(v.q) :
                      v.q[i].dev = d => v.q[i].kind # "close"
          /\ v.phase = "ended" => v.heard # "new"
          /\ v.phase \in {"joined", "opening", "opened"} => v.fd = "open"

\* All that is known of one stream.
Sound(d, v) == QueueOk(d, v) /\ DataOk(d, v) /\ FileOk(v) /\ PhaseOk(d, v)

\* The client can no longer reach the server.
Down(v) == v.net \in {"lost", "silent"} \/ v.end = "closed" \/ v.stage = "killed"

\* Only the client's side moves.
SameQueue(v, w) ==
    /\ w.q = v.q /\ w.net = v.net /\ w.end = v.end /\ w.file = v.file
    /\ w.heard = v.heard
\* Only the server's side moves.
SameClient(v, w) ==
    /\ w.fd = v.fd /\ w.net = v.net /\ w.stage = v.stage
    /\ w.phase = v.phase /\ w.sent = v.sent

\* A stage that allows for closes is followed by such a stage.
Onward(v, w) ==
    /\ v.stage \in {"stopping", "killed"} => w.stage \in {"stopping", "killed"}
    /\ v.stage = "killed" => w.stage = "killed"
    /\ w.stage = "absent" => v.stage = "absent"

\* The client's side moves, and what it knows is right.
LEMMA MoveSound ==
    ASSUME NEW d, NEW v \in Views, NEW w \in Views, Sound(d, v),
           SameQueue(v, w), Onward(v, w), w.sent = v.sent, PhaseOk(d, w)
    PROVE  Sound(d, w)
<1>1. QueueOk(d, w)
    BY DEF Sound, SameQueue, Onward, QueueOk
<1>2. DataOk(d, w)
  <2>1. \A m : Intact(w, m) <=> Intact(v, m)
    BY DEF SameQueue, Intact
  <2>2. \A i, n : PieceAt(d, w, i, n) <=> PieceAt(d, v, i, n)
    BY DEF SameQueue, PieceAt
  <2>3. Reaches(w) => Reaches(v)
    BY DEF SameQueue, Onward, Reaches
  <2> QED BY <2>1, <2>2, <2>3 DEF Sound, SameQueue, DataOk
<1>3. FileOk(w)
    BY DEF Sound, SameQueue, FileOk
<1> QED BY <1>1, <1>2, <1>3 DEF Sound

\* A client that cannot reach the server knows nothing of it.
LEMMA DownSound ==
    ASSUME NEW d, NEW v \in Views, NEW w \in Views, Sound(d, v),
           w.q = v.q, w.net = v.net, w.file = v.file, w.heard = v.heard,
           Onward(v, w), w.sent >= v.sent, Down(w),
           w.phase \in Early \cup {"opening"} => w.sent = 0,
           w.stage = "absent" => w.sent = v.sent
    PROVE  Sound(d, w)
<1>1. QueueOk(d, w)
    BY DEF Sound, Onward, QueueOk
<1>2. DataOk(d, w)
  <2>1. v.sent \in Nat /\ w.sent \in Nat
    BY DEF Views
  <2>2. ~Reaches(w)
    BY DEF Down, Reaches
  <2>3. \A m : Intact(w, m) <=> Intact(v, m)
    BY DEF Intact
  <2>4. \A i, n : PieceAt(d, w, i, n) <=> PieceAt(d, v, i, n)
    BY DEF PieceAt
  <2>5. Len(v.file) \in Nat
    BY DEF Views
  <2> QED BY <2>1, <2>2, <2>3, <2>4, <2>5 DEF Sound, DataOk
<1>3. FileOk(w)
  <2>1. v.sent \in Nat /\ w.sent \in Nat /\ Len(v.file) \in Nat
    BY DEF Views
  <2> QED BY <2>1 DEF Sound, FileOk
<1>4. PhaseOk(d, w)
    BY DEF Sound, Down, Up, Reaches, PhaseOk, Onward
<1> QED BY <1>1, <1>2, <1>3, <1>4 DEF Sound

\* What is sent comes behind what is on its way.
LEMMA AppendParts ==
    ASSUME NEW q \in Seq(Messages), NEW msg \in Messages
    PROVE  /\ Append(q, msg) \in Seq(Messages) /\ Len(q) \in Nat
           /\ Len(Append(q, msg)) = Len(q) + 1
           /\ \A i \in 1..Len(q) : Append(q, msg)[i] = q[i]
           /\ Append(q, msg)[Len(q) + 1] = msg
           /\ \A i \in 1..Len(q) + 1 : i \in 1..Len(q) \/ i = Len(q) + 1
OBVIOUS

\* A message is sent, or a part of one.
Puts(v, w, msg) ==
    /\ w.q = Append(v.q, msg) /\ msg \in Messages
    /\ w.end = v.end /\ w.stage = v.stage
    /\ w.file = v.file /\ w.heard = v.heard /\ w.fd = v.fd /\ w.acks = v.acks
Sends(v, w, msg) == Puts(v, w, msg) /\ msg.torn = "no" /\ w.net = v.net
SendsPart(v, w, msg) == Puts(v, w, msg) /\ msg.torn # "no" /\ w.net = "short"

\* A message that is no piece of the device leaves its pieces as they are.
LEMMA AppendKeepsData ==
    ASSUME NEW d, NEW v \in Views, NEW w \in Views, NEW msg, Sound(d, v),
           Sends(v, w, msg), Up(v), w.sent = v.sent,
           msg.dev # d \/ msg.kind # "data"
    PROVE  DataOk(d, w)
<1>0. /\ Len(w.q) = Len(v.q) + 1 /\ Len(v.q) \in Nat
      /\ \A i \in 1..Len(v.q) : w.q[i] = v.q[i]
      /\ w.q[Len(v.q) + 1] = msg
      /\ \A i \in 1..Len(w.q) : i \in 1..Len(v.q) \/ i = Len(v.q) + 1
  <2>1. v.q \in Seq(Messages) /\ msg \in Messages /\ w.q = Append(v.q, msg)
    BY DEF Views, Sends, Puts
  <2> QED BY <2>1, AppendParts
<1>1. \A i \in 1..Len(v.q), n \in Nat : PieceAt(d, w, i, n) <=> PieceAt(d, v, i, n)
    BY <1>0 DEF PieceAt
<1>2. \A n \in Nat : ~PieceAt(d, w, Len(v.q) + 1, n)
    BY <1>0 DEF PieceAt
<1>3. Len(v.file) \in Nat /\ v.sent \in Nat /\ w.file = v.file
      /\ w.net = v.net /\ w.end = v.end /\ w.stage = v.stage
    BY DEF Views, Sends, Puts
<1>7. ASSUME NEW m \in 0..Len(v.q), Intact(w, m) PROVE Intact(v, m)
  <2>1. \A j \in 1..m : w.q[j] = v.q[j]
    BY <1>0
  <2> QED BY <1>3, <1>7, <2>1 DEF Intact
<1>8. Intact(w, Len(w.q)) => Intact(v, Len(v.q))
    BY <1>0, <1>3 DEF Intact
<1>4. \A i \in 1..Len(v.q) : \A j \in 1..i - 1 : j \in 1..Len(v.q)
    BY <1>0
<1>5. ASSUME NEW i \in 1..Len(w.q), NEW n \in Nat, PieceAt(d, w, i, n)
      PROVE  /\ Len(w.file) < n /\ n <= w.sent
             /\ Intact(w, i - 1) =>
                   \A m \in Len(w.file) + 1..n - 1 :
                       \E j \in 1..i - 1 : PieceAt(d, w, j, m)
             /\ \A j \in 1..i - 1, m \in Nat : PieceAt(d, w, j, m) => m < n
  <2>1. i \in 1..Len(v.q) /\ PieceAt(d, v, i, n)
    BY <1>0, <1>1, <1>2, <1>5
  <2>2. /\ Len(v.file) < n /\ n <= v.sent
        /\ Intact(v, i - 1) =>
              \A m \in Len(v.file) + 1..n - 1 :
                  \E j \in 1..i - 1 : PieceAt(d, v, j, m)
        /\ \A j \in 1..i - 1, m \in Nat : PieceAt(d, v, j, m) => m < n
    BY <2>1 DEF Sound, DataOk
  <2>3. \A m \in Len(v.file) + 1..n - 1 : m \in Nat
    BY <1>3
  <2>4. Intact(w, i - 1) => Intact(v, i - 1)
    BY <1>0, <1>7, <2>1
  <2> QED BY <1>1, <1>3, <1>4, <2>1, <2>2, <2>3, <2>4
<1>6. ASSUME Intact(w, Len(w.q)), NEW m \in Len(w.file) + 1..w.sent
      PROVE  \E j \in 1..Len(w.q) : PieceAt(d, w, j, m)
  <2>1. \E j \in 1..Len(v.q) : PieceAt(d, v, j, m)
    BY <1>3, <1>6, <1>8 DEF Sound, DataOk, Up
  <2>2. m \in Nat
    BY <1>3
  <2> QED BY <1>0, <1>1, <2>1, <2>2
<1> QED BY <1>5, <1>6 DEF DataOk

\* A message about another device is sent.
LEMMA SendOther ==
    ASSUME NEW d, NEW v \in Views, NEW w \in Views, NEW msg, Sound(d, v),
           Sends(v, w, msg), Up(v), msg.dev # d, w.sent = v.sent,
           \/ w.phase = v.phase
           \/ v.phase = "fresh" /\ w.phase = "waiting"
    PROVE  Sound(d, w)
<1>0. /\ v.q \in Seq(Messages) /\ msg \in Messages
      /\ Len(w.q) = Len(v.q) + 1 /\ Len(v.q) \in Nat
      /\ \A i \in 1..Len(v.q) : w.q[i] = v.q[i]
      /\ w.q[Len(v.q) + 1] = msg
      /\ \A i \in 1..Len(w.q) : i \in 1..Len(v.q) \/ i = Len(v.q) + 1
  <2>1. v.q \in Seq(Messages) /\ msg \in Messages /\ w.q = Append(v.q, msg)
    BY DEF Views, Sends, Puts
  <2> QED BY <2>1, AppendParts
<1>1. QueueOk(d, w)
    BY <1>0 DEF Sound, Sends, Puts, QueueOk, Up, Reaches
<1>2. DataOk(d, w)
    BY AppendKeepsData
<1>3. FileOk(w)
    BY DEF Sound, Sends, Puts, FileOk, Up, Reaches
<1>4. PhaseOk(d, w)
    BY <1>0 DEF Sound, Sends, Puts, PhaseOk, Up, Reaches, Early
<1> QED BY <1>1, <1>2, <1>3, <1>4 DEF Sound

\* The open of a device is sent on a connection that has just been made or
\* that other devices have been opened on.
LEMMA SendFirst ==
    ASSUME NEW d, NEW v \in Views, NEW w \in Views, NEW msg, Sound(d, v),
           Sends(v, w, msg), Up(v), msg.dev = d, msg.kind = "open",
           w.sent = v.sent, v.phase = "joined", w.phase = "opening"
    PROVE  Sound(d, w)
<1>0. /\ Len(w.q) = Len(v.q) + 1 /\ Len(v.q) \in Nat
      /\ \A i \in 1..Len(v.q) : w.q[i] = v.q[i]
      /\ w.q[Len(v.q) + 1] = msg
      /\ \A i \in 1..Len(w.q) : i \in 1..Len(v.q) \/ i = Len(v.q) + 1
  <2>1. v.q \in Seq(Messages) /\ msg \in Messages /\ w.q = Append(v.q, msg)
    BY DEF Views, Sends, Puts
  <2> QED BY <2>1, AppendParts
<1>1. /\ v.heard = "new" /\ v.acks = 0 /\ v.sent = 0 /\ v.fd = "open"
      /\ \A i \in 1..Len(v.q) : v.q[i].dev # d
    BY DEF Sound, PhaseOk, Up, Early
<1>2. QueueOk(d, w)
    BY <1>0, <1>1 DEF Sound, Sends, Puts, QueueOk, Up, Reaches
<1>3. DataOk(d, w)
  <2>1. \A i \in 1..Len(w.q), n \in Nat : ~PieceAt(d, w, i, n)
    BY <1>0, <1>1 DEF PieceAt
  <2>2. Len(v.file) \in Nat /\ w.sent = 0 /\ w.file = v.file
    BY <1>1 DEF Views, Sends, Puts
  <2> QED BY <2>1, <2>2 DEF DataOk
<1>4. FileOk(w)
    BY DEF Sound, Sends, Puts, FileOk, Up, Reaches
<1>5. PhaseOk(d, w)
    BY <1>0, <1>1 DEF Sends, Puts, PhaseOk, Early, Up, Reaches
<1> QED BY <1>2, <1>3, <1>4, <1>5 DEF Sound

\* The next piece is sent, or a part of it.
LEMMA SendNext ==
    ASSUME NEW d, NEW v \in Views, NEW w \in Views, NEW msg, Sound(d, v),
           Sends(v, w, msg) \/ SendsPart(v, w, msg), Up(v),
           msg.dev = d, msg.kind = "data",
           w.sent = v.sent + 1, msg.n = w.sent,
           v.phase = "opened", w.phase = "opened"
    PROVE  Sound(d, w)
<1>a. Puts(v, w, msg) /\ (w.net = v.net \/ w.net = "short")
      /\ (msg.torn # "no" => w.net = "short")
    BY DEF Sends, SendsPart
<1>0. /\ Len(w.q) = Len(v.q) + 1 /\ Len(v.q) \in Nat
      /\ \A i \in 1..Len(v.q) : w.q[i] = v.q[i]
      /\ w.q[Len(v.q) + 1] = msg
      /\ \A i \in 1..Len(w.q) : i \in 1..Len(v.q) \/ i = Len(v.q) + 1
  <2>1. v.q \in Seq(Messages) /\ msg \in Messages /\ w.q = Append(v.q, msg)
    BY <1>a DEF Views, Puts
  <2> QED BY <2>1, AppendParts
<1>1. /\ v.heard = "open" /\ v.fd = "open"
      /\ \A i \in 1..Len(v.q) : v.q[i].dev = d => v.q[i].kind # "close"
    BY DEF Sound, PhaseOk, Up, Early
<1>2. QueueOk(d, w)
    BY <1>0, <1>1, <1>a DEF Sound, Puts, QueueOk, Up, Reaches
<1>3. DataOk(d, w)
  <2>1. \A i \in 1..Len(v.q), n \in Nat : PieceAt(d, w, i, n) <=> PieceAt(d, v, i, n)
    BY <1>0 DEF PieceAt
  <2>2. \A n \in Nat : PieceAt(d, w, Len(v.q) + 1, n) <=> n = v.sent + 1
    BY <1>0 DEF PieceAt
  <2>3. Len(v.file) \in Nat /\ v.sent \in Nat /\ w.file = v.file
        /\ Len(v.file) <= v.sent
    BY <1>a DEF Views, Puts, Sound, FileOk
  <2>4. \A i \in 1..Len(v.q) : \A j \in 1..i - 1 : j \in 1..Len(v.q)
    BY <1>0
  <2>5. Intact(v, Len(v.q)) =>
            \A m \in Len(v.file) + 1..v.sent :
                \E j \in 1..Len(v.q) : PieceAt(d, v, j, m)
    BY DEF Sound, DataOk, Up
  <2>8. \A m \in 0..Len(v.q) : Intact(w, m) => Intact(v, m)
    BY <1>0, <1>a, <2>3 DEF Intact
  <2>9. Intact(w, Len(w.q)) => Intact(v, Len(v.q))
    BY <1>0, <1>a, <2>3 DEF Intact
  <2>6. ASSUME NEW i \in 1..Len(w.q), NEW n \in Nat, PieceAt(d, w, i, n)
        PROVE  /\ Len(w.file) < n /\ n <= w.sent
               /\ Intact(w, i - 1) =>
                     \A m \in Len(w.file) + 1..n - 1 :
                         \E j \in 1..i - 1 : PieceAt(d, w, j, m)
               /\ \A j \in 1..i - 1, m \in Nat : PieceAt(d, w, j, m) => m < n
    <3>1. CASE i \in 1..Len(v.q)
      <4>1. PieceAt(d, v, i, n)
        BY <2>1, <2>6, <3>1
      <4>2. /\ Len(v.file) < n /\ n <= v.sent
            /\ Intact(v, i - 1) =>
                  \A m \in Len(v.file) + 1..n - 1 :
                      \E j \in 1..i - 1 : PieceAt(d, v, j, m)
            /\ \A j \in 1..i - 1, m \in Nat : PieceAt(d, v, j, m) => m < n
        BY <3>1, <4>1 DEF Sound, DataOk
      <4>3. \A m \in Len(v.file) + 1..n - 1 : m \in Nat
        BY <2>3
      <4>4. Intact(w, i - 1) => Intact(v, i - 1)
        BY <1>0, <2>8, <3>1
      <4> QED BY <2>1, <2>3, <2>4, <3>1, <4>2, <4>3, <4>4
    <3>2. CASE i = Len(v.q) + 1
      <4>1. n = v.sent + 1
        BY <2>2, <2>6, <3>2
      <4>2. \A m \in Len(v.file) + 1..v.sent : m \in Nat
        BY <2>3
      <4>6. Intact(w, i - 1) => Intact(v, Len(v.q))
        BY <1>0, <2>8, <3>2
      <4>3. Intact(w, i - 1) =>
                \A m \in Len(w.file) + 1..n - 1 :
                    \E j \in 1..i - 1 : PieceAt(d, w, j, m)
        BY <1>0, <2>1, <2>3, <2>5, <3>2, <4>1, <4>2, <4>6
      <4>4. \A j \in 1..i - 1, m \in Nat : PieceAt(d, w, j, m) => m <= v.sent
        BY <1>0, <2>1, <3>2 DEF Sound, DataOk
      <4>5. \A j \in 1..i - 1, m \in Nat : PieceAt(d, w, j, m) => m < n
        BY <2>3, <4>1, <4>4
      <4> QED BY <2>3, <4>1, <4>3, <4>5
    <3> QED BY <1>0, <3>1, <3>2
  <2>7. ASSUME Intact(w, Len(w.q)), NEW m \in Len(w.file) + 1..w.sent
        PROVE  \E j \in 1..Len(w.q) : PieceAt(d, w, j, m)
    <3>1. m \in Nat /\ (m = v.sent + 1 \/ m \in Len(v.file) + 1..v.sent)
      BY <2>3, <2>7
    <3>2. CASE m = v.sent + 1
      BY <1>0, <2>2, <3>1, <3>2
    <3>3. CASE m \in Len(v.file) + 1..v.sent
      BY <1>0, <2>1, <2>5, <2>7, <2>9, <3>1, <3>3
    <3> QED BY <3>1, <3>2, <3>3
  <2> QED BY <2>6, <2>7 DEF DataOk
<1>4. FileOk(w)
  <2>1. v.sent \in Nat /\ Len(v.file) \in Nat
    BY DEF Views
  <2> QED BY <1>a, <2>1 DEF Sound, Puts, FileOk, Up, Reaches
<1>5. PhaseOk(d, w)
    BY <1>0, <1>1, <1>a DEF Sound, Puts, PhaseOk, Early, Up, Reaches
<1> QED BY <1>2, <1>3, <1>4, <1>5 DEF Sound

\* The close of a device is sent after its data.
LEMMA SendLast ==
    ASSUME NEW d, NEW v \in Views, NEW w \in Views, NEW msg, Sound(d, v),
           Sends(v, w, msg), Up(v), msg.dev = d, msg.kind = "close",
           w.sent = v.sent, v.phase = "opened", w.phase = "ended",
           v.stage = "stopping"
    PROVE  Sound(d, w)
<1>0. /\ Len(w.q) = Len(v.q) + 1 /\ Len(v.q) \in Nat
      /\ \A i \in 1..Len(v.q) : w.q[i] = v.q[i]
      /\ w.q[Len(v.q) + 1] = msg
      /\ \A i \in 1..Len(w.q) : i \in 1..Len(v.q) \/ i = Len(v.q) + 1
  <2>1. v.q \in Seq(Messages) /\ msg \in Messages /\ w.q = Append(v.q, msg)
    BY DEF Views, Sends, Puts
  <2> QED BY <2>1, AppendParts
<1>1. /\ v.heard = "open"
      /\ \A i \in 1..Len(v.q) : v.q[i].dev = d => v.q[i].kind # "close"
    BY DEF Sound, PhaseOk, Up, Early
<1>2. QueueOk(d, w)
    BY <1>0, <1>1 DEF Sound, Sends, Puts, QueueOk, Up, Reaches
<1>3. DataOk(d, w)
    BY AppendKeepsData
<1>4. FileOk(w)
    BY DEF Sound, Sends, Puts, FileOk, Up, Reaches
<1>5. PhaseOk(d, w)
    BY <1>0, <1>1 DEF Sound, Sends, Puts, PhaseOk, Early, Up, Reaches
<1> QED BY <1>2, <1>3, <1>4, <1>5 DEF Sound

\* What is left when the first is taken.
LEMMA TailParts ==
    ASSUME NEW q \in Seq(Messages), q # <<>>
    PROVE  /\ Tail(q) \in Seq(Messages) /\ Len(q) \in Nat /\ Len(q) >= 1
           /\ Len(Tail(q)) = Len(q) - 1
           /\ \A i \in 1..Len(q) - 1 :
                 Tail(q)[i] = q[i + 1] /\ i + 1 \in 1..Len(q)
           /\ \A j \in 1..Len(q) :
                 j = 1 \/ (j - 1 \in 1..Len(q) - 1 /\ j = (j - 1) + 1
                           /\ q[j] = Tail(q)[j - 1])
           /\ Head(q) = q[1] /\ Head(q) \in Messages /\ 1 \in 1..Len(q)
<1>1. Len(q) \in Nat /\ Len(q) >= 1 /\ Head(q) = q[1] /\ 1 \in 1..Len(q)
    BY EmptySeq
<1>2. Tail(q) \in Seq(Messages) /\ Len(Tail(q)) = Len(q) - 1 /\ Head(q) \in Messages
    BY <1>1
<1>3. ASSUME NEW i \in 1..Len(q) - 1
      PROVE  Tail(q)[i] = q[i + 1] /\ i + 1 \in 1..Len(q)
    BY <1>1
<1>4. \A j \in 1..Len(q) : j = 1 \/ (j - 1 \in 1..Len(q) - 1 /\ j = (j - 1) + 1)
    BY <1>1
<1> QED BY <1>1, <1>2, <1>3, <1>4

\* The server takes the next message of the connection.
Takes(v, w) ==
    /\ v.q # <<>> /\ w.q = Tail(v.q) /\ SameClient(v, w) /\ w.end = v.end

\* Pieces move up; those behind the first stay what they are.
LEMMA TakeParts ==
    ASSUME NEW d, NEW v \in Views, NEW w \in Views, Takes(v, w)
    PROVE  /\ Len(v.q) \in Nat /\ Len(w.q) = Len(v.q) - 1
           /\ Len(v.q) >= 1 /\ 1 \in 1..Len(v.q)
           /\ \A i \in 1..Len(w.q) : w.q[i] = v.q[i + 1] /\ i + 1 \in 1..Len(v.q)
           /\ \A j \in 1..Len(v.q) : j = 1 \/ (j - 1 \in 1..Len(w.q) /\ j = (j - 1) + 1)
           /\ \A i \in 1..Len(w.q), n \in Nat :
                 PieceAt(d, w, i, n) <=> PieceAt(d, v, i + 1, n)
           /\ \A i \in 1..Len(w.q) : i \in Nat /\ i >= 1
<1>1. v.q \in Seq(Messages) /\ v.q # <<>> /\ w.q = Tail(v.q)
    BY DEF Views, Takes
<1>2. /\ Len(v.q) \in Nat /\ Len(w.q) = Len(v.q) - 1
      /\ Len(v.q) >= 1 /\ 1 \in 1..Len(v.q)
      /\ \A i \in 1..Len(w.q) : w.q[i] = v.q[i + 1] /\ i + 1 \in 1..Len(v.q)
      /\ \A j \in 1..Len(v.q) : j = 1 \/ (j - 1 \in 1..Len(w.q) /\ j = (j - 1) + 1)
    BY <1>1, TailParts
<1>3. \A i \in 1..Len(w.q), n \in Nat :
          PieceAt(d, w, i, n) <=> PieceAt(d, v, i + 1, n)
    BY <1>2 DEF PieceAt
<1> QED BY <1>2, <1>3

\* What is behind the first message stays as QueueOk has it.
LEMMA TakeKeepsQueue ==
    ASSUME NEW d, NEW v \in Views, NEW w \in Views, Sound(d, v), Takes(v, w),
           w.heard = v.heard
    PROVE  QueueOk(d, w)
<1>1. /\ Len(v.q) \in Nat /\ Len(w.q) = Len(v.q) - 1 /\ Len(v.q) >= 1
      /\ \A i \in 1..Len(w.q) : w.q[i] = v.q[i + 1] /\ i + 1 \in 1..Len(v.q)
      /\ \A i \in 1..Len(w.q) : i \in Nat /\ i >= 1
    BY TakeParts
<1>2. w.net = v.net /\ w.stage = v.stage
    BY DEF Takes, SameClient
<1>3. ASSUME NEW i \in 1..Len(w.q)
      PROVE  /\ w.q[i].torn # "no" =>
                   w.net = "short" \/ (i = Len(w.q) /\ w.net # "up")
             /\ w.q[i].dev = d /\ w.q[i].kind = "open" =>
                   /\ w.heard = "new"
                   /\ \A j \in 1..Len(w.q) : w.q[j].dev = d => j = i
             /\ w.q[i].dev = d /\ w.q[i].kind # "open" => w.heard = "open"
             /\ w.q[i].dev = d /\ w.q[i].kind = "close" =>
                   /\ w.stage \in {"stopping", "killed"}
                   /\ \A j \in 1..Len(w.q) : w.q[j].dev = d => j <= i
  <2>1. w.q[i] = v.q[i + 1] /\ i + 1 \in 1..Len(v.q)
    BY <1>1
  <2>2. /\ v.q[i + 1].torn # "no" =>
              v.net = "short" \/ (i + 1 = Len(v.q) /\ v.net # "up")
        /\ v.q[i + 1].dev = d /\ v.q[i + 1].kind = "open" =>
              /\ v.heard = "new"
              /\ \A j \in 1..Len(v.q) : v.q[j].dev = d => j = i + 1
        /\ v.q[i + 1].dev = d /\ v.q[i + 1].kind # "open" => v.heard = "open"
        /\ v.q[i + 1].dev = d /\ v.q[i + 1].kind = "close" =>
              /\ v.stage \in {"stopping", "killed"}
              /\ \A j \in 1..Len(v.q) : v.q[j].dev = d => j <= i + 1
    BY <2>1 DEF Sound, QueueOk
  <2>3. \A j \in 1..Len(w.q) : j + 1 = i + 1 => j = i
    BY <1>1
  <2>4. \A j \in 1..Len(w.q) : j + 1 <= i + 1 => j <= i
    BY <1>1
  <2>5. w.q[i].torn # "no" =>
            w.net = "short" \/ (i = Len(w.q) /\ w.net # "up")
    BY <1>1, <1>2, <2>1, <2>2
  <2>6. w.q[i].dev = d /\ w.q[i].kind = "open" =>
            /\ w.heard = "new"
            /\ \A j \in 1..Len(w.q) : w.q[j].dev = d => j = i
    BY <1>1, <2>1, <2>2, <2>3
  <2>7. w.q[i].dev = d /\ w.q[i].kind # "open" => w.heard = "open"
    BY <2>1, <2>2
  <2>8. w.q[i].dev = d /\ w.q[i].kind = "close" =>
            /\ w.stage \in {"stopping", "killed"}
            /\ \A j \in 1..Len(w.q) : w.q[j].dev = d => j <= i
    BY <1>1, <1>2, <2>1, <2>2, <2>4
  <2> QED BY <2>5, <2>6, <2>7, <2>8
<1> QED BY <1>3 DEF QueueOk

\* A file that is written to has only whole pieces so far, unless a send fell
\* short.
LEMMA WholeSoFar ==
    ASSUME NEW d, NEW v \in Views, Sound(d, v), v.q # <<>>
    PROVE  \A j \in 1..Len(v.file) :
              /\ (\A m \in 1..j - 1 : v.file[m].whole) => v.file[j].n = j
              /\ v.file[j].whole \/ v.net = "short"
BY DEF Sound, FileOk

\* A message that is taken leaves intact what was intact with it.
LEMMA TakeIntact ==
    ASSUME NEW v \in Views, NEW w \in Views, Takes(v, w),
           NEW m \in 0..Len(w.q), Intact(w, m),
           v.net = "short" /\ (\A j \in 1..Len(w.file) : w.file[j].whole) =>
               /\ v.q[1].torn = "no"
               /\ \A j \in 1..Len(v.file) : v.file[j].whole
    PROVE  Intact(v, m + 1)
<1>0. /\ Len(v.q) \in Nat /\ Len(w.q) = Len(v.q) - 1
      /\ \A i \in 1..Len(w.q) : w.q[i] = v.q[i + 1]
      /\ \A j \in 1..Len(v.q) : j = 1 \/ (j - 1 \in 1..Len(w.q) /\ j = (j - 1) + 1)
    BY TakeParts
<1>1. SUFFICES ASSUME v.net = "short" PROVE Intact(v, m + 1)
    BY DEF Intact
<1>2. /\ \A j \in 1..m : w.q[j].torn = "no"
      /\ \A j \in 1..Len(w.file) : w.file[j].whole
    BY <1>1 DEF Intact, Takes, SameClient
<1>3. ASSUME NEW j \in 1..m + 1 PROVE v.q[j].torn = "no"
  <2>1. CASE j = 1
    BY <1>1, <1>2, <2>1
  <2>2. CASE j # 1
    <3>1. j - 1 \in 1..m /\ j - 1 \in 1..Len(w.q) /\ j = (j - 1) + 1
      BY <1>0, <2>2
    <3> QED BY <1>0, <1>2, <3>1
  <2> QED BY <2>1, <2>2
<1> QED BY <1>1, <1>2, <1>3 DEF Intact

\* The first message is about another device.
LEMMA TakeOther ==
    ASSUME NEW d, NEW v \in Views, NEW w \in Views, Sound(d, v), Takes(v, w),
           v.q[1].dev # d, w.file = v.file, w.heard = v.heard,
           v.net = "short" => v.q[1].torn = "no",
           w.acks = v.acks \/ (Up(v) => v.phase \in {"waiting", "opened", "ended"})
    PROVE  Sound(d, w)
<1>0. /\ Len(v.q) \in Nat /\ Len(w.q) = Len(v.q) - 1 /\ Len(v.q) >= 1
      /\ \A i \in 1..Len(w.q) : w.q[i] = v.q[i + 1] /\ i + 1 \in 1..Len(v.q)
      /\ \A j \in 1..Len(v.q) : j = 1 \/ (j - 1 \in 1..Len(w.q) /\ j = (j - 1) + 1)
      /\ \A i \in 1..Len(w.q), n \in Nat :
            PieceAt(d, w, i, n) <=> PieceAt(d, v, i + 1, n)
      /\ \A i \in 1..Len(w.q) : i \in Nat /\ i >= 1
    BY TakeParts
<1>1. QueueOk(d, w)
    BY TakeKeepsQueue
<1>2. DataOk(d, w)
  <2>1. \A n \in Nat : ~PieceAt(d, v, 1, n)
    BY DEF PieceAt
  <2>2. Len(v.file) \in Nat /\ v.sent \in Nat /\ w.file = v.file /\ w.sent = v.sent
        /\ w.net = v.net /\ w.end = v.end /\ w.stage = v.stage
    BY DEF Views, Takes, SameClient
  <2>3. ASSUME NEW i \in 1..Len(w.q), NEW n \in Nat, PieceAt(d, w, i, n)
        PROVE  /\ Len(w.file) < n /\ n <= w.sent
               /\ Intact(w, i - 1) =>
                     \A m \in Len(w.file) + 1..n - 1 :
                         \E j \in 1..i - 1 : PieceAt(d, w, j, m)
               /\ \A j \in 1..i - 1, m \in Nat : PieceAt(d, w, j, m) => m < n
    <3>1. i + 1 \in 1..Len(v.q) /\ PieceAt(d, v, i + 1, n) /\ i \in Nat
      BY <1>0, <2>3
    <3>2. /\ Len(v.file) < n /\ n <= v.sent
          /\ Intact(v, (i + 1) - 1) =>
                \A m \in Len(v.file) + 1..n - 1 :
                    \E j \in 1..(i + 1) - 1 : PieceAt(d, v, j, m)
          /\ \A j \in 1..(i + 1) - 1, m \in Nat : PieceAt(d, v, j, m) => m < n
      BY <3>1 DEF Sound, DataOk
    <3>3. ASSUME Intact(w, i - 1), NEW m \in Len(w.file) + 1..n - 1
          PROVE  \E j \in 1..i - 1 : PieceAt(d, w, j, m)
      <4>1. m \in Nat
        BY <2>2
      <4>0. Intact(v, (i + 1) - 1)
        <5>1. i - 1 \in 0..Len(w.q) /\ (i - 1) + 1 = (i + 1) - 1
          BY <1>0, <3>1
        <5> QED BY <3>3, <5>1, TakeIntact DEF Intact
      <4>2. PICK j \in 1..(i + 1) - 1 : PieceAt(d, v, j, m)
        BY <2>2, <3>2, <3>3, <4>0
      <4>3. j # 1 /\ j \in 1..Len(v.q)
        BY <1>0, <2>1, <4>1, <4>2, <3>1
      <4>4. j - 1 \in 1..i - 1 /\ j = (j - 1) + 1 /\ j - 1 \in 1..Len(w.q)
        BY <1>0, <3>1, <4>3
      <4> QED BY <1>0, <4>1, <4>2, <4>4
    <3>4. ASSUME NEW j \in 1..i - 1, NEW m \in Nat, PieceAt(d, w, j, m)
          PROVE  m < n
      <4>1. j \in 1..Len(w.q) /\ j + 1 \in 1..(i + 1) - 1
        BY <1>0, <3>1
      <4> QED BY <1>0, <3>2, <3>4, <4>1
    <3> QED BY <2>2, <3>2, <3>3, <3>4
  <2>4. ASSUME Reaches(w), Intact(w, Len(w.q)),
               NEW m \in Len(w.file) + 1..w.sent
        PROVE  \E j \in 1..Len(w.q) : PieceAt(d, w, j, m)
    <3>1. m \in Nat
      BY <2>2
    <3>4. Intact(v, Len(v.q))
      <4>1. Len(w.q) \in 0..Len(w.q) /\ Len(w.q) + 1 = Len(v.q)
        BY <1>0
      <4> QED BY <2>2, <2>4, <4>1, TakeIntact DEF Intact
    <3>2. PICK j \in 1..Len(v.q) : PieceAt(d, v, j, m)
      BY <2>2, <2>4, <3>4 DEF Sound, DataOk, Reaches
    <3>3. j - 1 \in 1..Len(w.q) /\ j = (j - 1) + 1
      BY <1>0, <2>1, <3>1, <3>2
    <3> QED BY <1>0, <3>1, <3>2, <3>3
  <2> QED BY <2>3, <2>4 DEF DataOk
<1>3. FileOk(w)
    BY WholeSoFar DEF Sound, FileOk, Takes, SameClient
<1>4. PhaseOk(d, w)
    BY <1>0 DEF Sound, PhaseOk, Takes, SameClient, Up, Reaches, Early
<1> QED BY <1>1, <1>2, <1>3, <1>4 DEF Sound

\* The server hears of the device, and may start its file anew.
LEMMA TakeFirst ==
    ASSUME NEW d, NEW v \in Views, NEW w \in Views, Sound(d, v), Takes(v, w),
           v.q[1].dev = d, v.q[1].kind = "open", w.heard = "open",
           w.acks = v.acks + 1, w.file = v.file \/ w.file = <<>>
    PROVE  Sound(d, w)
<1>0. /\ Len(v.q) \in Nat /\ Len(w.q) = Len(v.q) - 1 /\ Len(v.q) >= 1 /\ 1 \in 1..Len(v.q)
      /\ \A i \in 1..Len(w.q) : w.q[i] = v.q[i + 1] /\ i + 1 \in 1..Len(v.q)
      /\ \A i \in 1..Len(w.q) : i \in Nat /\ i >= 1
    BY TakeParts
<1>1. v.heard = "new" /\ \A j \in 1..Len(v.q) : v.q[j].dev = d => j = 1
    BY <1>0 DEF Sound, QueueOk
<1>2. ASSUME NEW i \in 1..Len(w.q)
      PROVE  /\ w.q[i].dev # d
             /\ w.q[i].torn # "no" =>
                   w.net = "short" \/ (i = Len(w.q) /\ w.net # "up")
  <2>1. w.q[i] = v.q[i + 1] /\ i + 1 \in 1..Len(v.q) /\ i + 1 # 1
    BY <1>0
  <2>2. v.q[i + 1].torn # "no" =>
            v.net = "short" \/ (i + 1 = Len(v.q) /\ v.net # "up")
    BY <2>1 DEF Sound, QueueOk
  <2>3. i + 1 = Len(v.q) => i = Len(w.q)
    BY <1>0
  <2> QED BY <1>1, <2>1, <2>2, <2>3 DEF Takes, SameClient
<1>3. QueueOk(d, w)
    BY <1>2 DEF QueueOk
<1>4. w.sent = v.sent /\ w.net = v.net /\ w.end = v.end /\ w.stage = v.stage
      /\ w.fd = v.fd /\ w.phase = v.phase /\ v.sent \in Nat
      /\ v.acks \in Nat
      /\ Len(v.file) \in Nat /\ Len(<<>>) = 0
    BY DEF Takes, SameClient, Views
<1>5. Up(v) => v.phase = "opening" /\ v.acks = 0 /\ v.sent = 0
  <2>1. v.q[1].dev = d /\ 1 \in 1..Len(v.q)
    BY <1>0
  <2>2. v.phase \in Early \cup {"opening", "opened", "ended"}
    BY DEF Views, Phases
  <2> QED BY <1>1, <1>4, <2>1, <2>2 DEF Sound, PhaseOk
<1>6. DataOk(d, w)
  <2>1. \A i \in 1..Len(w.q), n \in Nat : ~PieceAt(d, w, i, n)
    BY <1>2 DEF PieceAt
  <2>2. ASSUME Reaches(w)
        PROVE  w.sent = 0
    BY <1>4, <1>5, <2>2 DEF Up, Reaches, Sound, PhaseOk
  <2>3. Len(w.file) \in Nat
    BY <1>4
  <2> QED BY <2>1, <2>2, <2>3 DEF DataOk
<1>7. FileOk(w)
    BY <1>4, WholeSoFar DEF Sound, FileOk, Takes
<1>8. PhaseOk(d, w)
    BY <1>2, <1>4, <1>5 DEF Sound, PhaseOk, Up, Reaches, Early
<1> QED BY <1>3, <1>6, <1>7, <1>8 DEF Sound

\* The server hears the last of the device.
LEMMA TakeLast ==
    ASSUME NEW d, NEW v \in Views, NEW w \in Views, Sound(d, v), Takes(v, w),
           v.q[1].dev = d, v.q[1].kind = "close", v.q[1].torn = "no",
           w.heard = "over",
           w.acks = v.acks + 1, w.file = v.file,
           v.stage = "stopping" => v.phase \in {"opened", "ended"}
    PROVE  Sound(d, w)
<1>0. /\ Len(v.q) \in Nat /\ Len(w.q) = Len(v.q) - 1 /\ Len(v.q) >= 1 /\ 1 \in 1..Len(v.q)
      /\ \A i \in 1..Len(w.q) : w.q[i] = v.q[i + 1] /\ i + 1 \in 1..Len(v.q)
      /\ \A j \in 1..Len(v.q) : j = 1 \/ (j - 1 \in 1..Len(w.q) /\ j = (j - 1) + 1)
      /\ \A i \in 1..Len(w.q) : i \in Nat /\ i >= 1
    BY TakeParts
<1>1. v.heard = "open" /\ v.stage \in {"stopping", "killed"}
      /\ \A j \in 1..Len(v.q) : v.q[j].dev = d => j <= 1
    BY <1>0 DEF Sound, QueueOk
<1>2. ASSUME NEW i \in 1..Len(w.q)
      PROVE  /\ w.q[i].dev # d
             /\ w.q[i].torn # "no" =>
                   w.net = "short" \/ (i = Len(w.q) /\ w.net # "up")
  <2>1. w.q[i] = v.q[i + 1] /\ i + 1 \in 1..Len(v.q) /\ ~(i + 1 <= 1)
    BY <1>0
  <2>2. v.q[i + 1].torn # "no" =>
            v.net = "short" \/ (i + 1 = Len(v.q) /\ v.net # "up")
    BY <2>1 DEF Sound, QueueOk
  <2>3. i + 1 = Len(v.q) => i = Len(w.q)
    BY <1>0
  <2> QED BY <1>1, <2>1, <2>2, <2>3 DEF Takes, SameClient
<1>3. QueueOk(d, w)
    BY <1>2 DEF QueueOk
<1>4. w.sent = v.sent /\ w.net = v.net /\ w.end = v.end /\ w.stage = v.stage
      /\ w.fd = v.fd /\ w.phase = v.phase /\ v.sent \in Nat
      /\ Len(v.file) \in Nat
    BY DEF Takes, SameClient, Views
<1>5. Up(v) => v.phase = "ended"
  <2>1. v.q[1].dev = d /\ 1 \in 1..Len(v.q)
    BY <1>0
  <2>2. Up(v) => v.stage = "stopping"
    BY <1>1 DEF Up, Reaches
  <2> QED BY <1>1, <2>1, <2>2 DEF Sound, PhaseOk
<1>6. DataOk(d, w)
  <2>1. \A i \in 1..Len(w.q), n \in Nat : ~PieceAt(d, w, i, n)
    BY <1>2 DEF PieceAt
  <2>2. ASSUME Reaches(w), Intact(w, Len(w.q)),
               NEW m \in Len(w.file) + 1..w.sent
        PROVE  FALSE
    <3>1. m \in Nat
      BY <1>4
    <3>4. Intact(v, Len(v.q))
      <4>1. Len(w.q) \in 0..Len(w.q) /\ Len(w.q) + 1 = Len(v.q)
        BY <1>0
      <4> QED BY <2>2, <4>1, TakeIntact DEF Intact
    <3>2. PICK j \in 1..Len(v.q) : PieceAt(d, v, j, m)
      BY <1>4, <2>2, <3>4 DEF Sound, DataOk, Reaches
    <3>3. j = 1
      BY <1>0, <1>1, <3>2 DEF PieceAt
    <3> QED BY <3>2, <3>3 DEF PieceAt
  <2> QED BY <2>1, <2>2 DEF DataOk
<1>7. FileOk(w)
    BY <1>4, WholeSoFar DEF Sound, FileOk, Takes
<1>8. PhaseOk(d, w)
    BY <1>2, <1>4, <1>5 DEF Sound, PhaseOk, Up, Reaches, Early
<1> QED BY <1>3, <1>6, <1>7, <1>8 DEF Sound

\* The server writes what it has got of the next piece.
LEMMA TakeNext ==
    ASSUME NEW d, NEW v \in Views, NEW w \in Views, Sound(d, v), Takes(v, w),
           v.q[1].dev = d, v.q[1].kind = "data", w.heard = v.heard,
           w.acks = v.acks, NEW piece \in Pieces,
           w.file = Append(v.file, piece), piece.n = v.q[1].n,
           piece.whole <=> v.q[1].torn = "no"
    PROVE  Sound(d, w)
<1>0. /\ Len(v.q) \in Nat /\ Len(w.q) = Len(v.q) - 1 /\ Len(v.q) >= 1 /\ 1 \in 1..Len(v.q)
      /\ \A i \in 1..Len(w.q) : w.q[i] = v.q[i + 1] /\ i + 1 \in 1..Len(v.q)
      /\ \A j \in 1..Len(v.q) : j = 1 \/ (j - 1 \in 1..Len(w.q) /\ j = (j - 1) + 1)
      /\ \A i \in 1..Len(w.q), n \in Nat :
            PieceAt(d, w, i, n) <=> PieceAt(d, v, i + 1, n)
      /\ \A i \in 1..Len(w.q) : i \in Nat /\ i >= 1
    BY TakeParts
<1>1. QueueOk(d, w)
    BY TakeKeepsQueue
<1>2. /\ v.file \in Seq(Pieces) /\ Len(v.file) \in Nat /\ v.sent \in Nat
      /\ Len(w.file) = Len(v.file) + 1
      /\ \A j \in 1..Len(v.file) : w.file[j] = v.file[j]
      /\ w.file[Len(v.file) + 1] = piece
      /\ \A j \in 1..Len(w.file) : j \in 1..Len(v.file) \/ j = Len(v.file) + 1
      /\ w.sent = v.sent
      /\ w.net = v.net /\ w.end = v.end /\ w.stage = v.stage
      /\ piece.n \in Nat
    BY DEF Views, Takes, SameClient, Pieces
<1>3. PieceAt(d, v, 1, piece.n)
    BY DEF PieceAt
<1>4. /\ Len(v.file) < piece.n /\ piece.n <= v.sent
      /\ Intact(v, 0) => piece.n = Len(v.file) + 1
  <2>1. /\ Len(v.file) < piece.n /\ piece.n <= v.sent
        /\ Intact(v, 1 - 1) =>
              \A m \in Len(v.file) + 1..piece.n - 1 :
                  \E j \in 1..1 - 1 : PieceAt(d, v, j, m)
    BY <1>0, <1>2, <1>3 DEF Sound, DataOk
  <2>2. \A j \in 1..1 - 1 : FALSE
    OBVIOUS
  <2>3. Intact(v, 0) => \A m \in Len(v.file) + 1..piece.n - 1 : FALSE
    BY <2>1, <2>2
  <2> QED BY <1>2, <2>1, <2>3
<1>8. ASSUME NEW m \in 0..Len(w.q), Intact(w, m)
      PROVE  Intact(v, m + 1) /\ Intact(v, 0)
  <2>1. (\A j \in 1..Len(w.file) : w.file[j].whole) =>
            /\ v.q[1].torn = "no"
            /\ \A j \in 1..Len(v.file) : v.file[j].whole
    <3>1. SUFFICES ASSUME \A j \in 1..Len(w.file) : w.file[j].whole
          PROVE  /\ v.q[1].torn = "no"
                 /\ \A j \in 1..Len(v.file) : v.file[j].whole
      OBVIOUS
    <3>2. Len(v.file) + 1 \in 1..Len(w.file)
          /\ \A j \in 1..Len(v.file) : j \in 1..Len(w.file)
      BY <1>2
    <3> QED BY <1>2, <3>1, <3>2
  <2>2. Intact(v, m + 1)
    BY <1>8, <2>1, TakeIntact
  <2>3. \A j \in 1..0 : FALSE
    OBVIOUS
  <2> QED BY <2>2, <2>3 DEF Intact
<1>5. DataOk(d, w)
  <2>1. ASSUME NEW i \in 1..Len(w.q), NEW n \in Nat, PieceAt(d, w, i, n)
        PROVE  /\ Len(w.file) < n /\ n <= w.sent
               /\ Intact(w, i - 1) =>
                     \A m \in Len(w.file) + 1..n - 1 :
                         \E j \in 1..i - 1 : PieceAt(d, w, j, m)
               /\ \A j \in 1..i - 1, m \in Nat : PieceAt(d, w, j, m) => m < n
    <3>1. i + 1 \in 1..Len(v.q) /\ PieceAt(d, v, i + 1, n) /\ i \in Nat
          /\ 1 \in 1..(i + 1) - 1
      BY <1>0, <2>1
    <3>2. /\ Len(v.file) < n /\ n <= v.sent
          /\ Intact(v, (i + 1) - 1) =>
                \A m \in Len(v.file) + 1..n - 1 :
                    \E j \in 1..(i + 1) - 1 : PieceAt(d, v, j, m)
          /\ \A j \in 1..(i + 1) - 1, m \in Nat : PieceAt(d, v, j, m) => m < n
      BY <3>1 DEF Sound, DataOk
    <3>3. piece.n < n
      BY <1>2, <1>3, <3>1, <3>2
    <3>4. ASSUME Intact(w, i - 1), NEW m \in Len(w.file) + 1..n - 1
          PROVE  \E j \in 1..i - 1 : PieceAt(d, w, j, m)
      <4>0. Intact(v, (i + 1) - 1) /\ Intact(v, 0)
        <5>1. i - 1 \in 0..Len(w.q) /\ (i - 1) + 1 = (i + 1) - 1
          BY <1>0, <3>1
        <5>2. Intact(v, (i - 1) + 1) /\ Intact(v, 0)
          BY <1>8, <3>4, <5>1
        <5> QED BY <5>1, <5>2
      <4>1. m \in Nat /\ m \in Len(v.file) + 1..n - 1 /\ m # piece.n
        BY <1>2, <1>4, <4>0
      <4>2. PICK j \in 1..(i + 1) - 1 : PieceAt(d, v, j, m)
        BY <3>2, <4>0, <4>1
      <4>3. j # 1 /\ j \in 1..Len(v.q)
        BY <1>0, <3>1, <4>1, <4>2 DEF PieceAt
      <4>4. j - 1 \in 1..i - 1 /\ j = (j - 1) + 1 /\ j - 1 \in 1..Len(w.q)
        BY <1>0, <3>1, <4>3
      <4> QED BY <1>0, <4>1, <4>2, <4>4
    <3>5. ASSUME NEW j \in 1..i - 1, NEW m \in Nat, PieceAt(d, w, j, m)
          PROVE  m < n
      <4>1. j \in 1..Len(w.q) /\ j + 1 \in 1..(i + 1) - 1
        BY <1>0, <3>1
      <4> QED BY <1>0, <3>2, <3>5, <4>1
    <3> QED BY <1>2, <1>4, <3>2, <3>3, <3>4, <3>5
  <2>2. ASSUME Reaches(w), Intact(w, Len(w.q)),
               NEW m \in Len(w.file) + 1..w.sent
        PROVE  \E j \in 1..Len(w.q) : PieceAt(d, w, j, m)
    <3>0. Intact(v, Len(v.q)) /\ Intact(v, 0)
      <4>1. Len(w.q) \in 0..Len(w.q) /\ Len(w.q) + 1 = Len(v.q)
        BY <1>0
      <4>2. Intact(v, Len(w.q) + 1) /\ Intact(v, 0)
        BY <1>8, <2>2, <4>1
      <4> QED BY <4>1, <4>2
    <3>1. m \in Nat /\ m \in Len(v.file) + 1..v.sent /\ m # piece.n
      BY <1>2, <1>4, <3>0
    <3>2. PICK j \in 1..Len(v.q) : PieceAt(d, v, j, m)
      BY <1>2, <2>2, <3>0, <3>1 DEF Sound, DataOk, Reaches
    <3>3. j # 1
      BY <3>1, <3>2 DEF PieceAt
    <3>4. j - 1 \in 1..Len(w.q) /\ j = (j - 1) + 1
      BY <1>0, <3>2, <3>3
    <3> QED BY <1>0, <3>1, <3>2, <3>4
  <2> QED BY <2>1, <2>2 DEF DataOk
<1>6. FileOk(w)
  <2>1. piece.whole \/ w.net = "short" \/ (w.net # "up" /\ w.q = <<>>)
    <3>1. SUFFICES ASSUME v.q[1].torn # "no", w.net # "short"
          PROVE w.net # "up" /\ w.q = <<>>
      OBVIOUS
    <3>2. Len(v.q) = 1 /\ v.net # "up"
      BY <1>0, <1>2, <3>1 DEF Sound, QueueOk
    <3>3. w.q \in Seq(Messages)
      BY DEF Views
    <3> QED BY <1>0, <1>2, <3>2, <3>3, EmptySeq
  <2>2. \A j \in 1..Len(v.file) :
            /\ (\A m \in 1..j - 1 : v.file[m].whole) => v.file[j].n = j
            /\ v.file[j].whole \/ v.net = "short"
    BY WholeSoFar DEF Takes
  <2>3. Len(w.file) <= w.sent
    BY <1>2, <1>4
  <2>4. ASSUME NEW j \in 1..Len(w.file)
        PROVE  /\ (\A m \in 1..j - 1 : w.file[m].whole) => w.file[j].n = j
               /\ \/ w.file[j].whole \/ w.net = "short"
                  \/ j = Len(w.file) /\ w.net # "up" /\ w.q = <<>>
    <3>1. CASE j \in 1..Len(v.file)
      <4>1. \A m \in 1..j - 1 : w.file[m] = v.file[m]
        BY <1>2, <3>1
      <4> QED BY <1>2, <2>2, <3>1, <4>1
    <3>2. CASE j = Len(v.file) + 1
      <4>1. (\A m \in 1..j - 1 : w.file[m].whole) => Intact(v, 0)
        BY <1>2, <3>2 DEF Intact
      <4> QED BY <1>2, <1>4, <2>1, <3>2, <4>1
    <3> QED BY <1>2, <3>1, <3>2
  <2> QED BY <2>3, <2>4 DEF FileOk
<1>7. PhaseOk(d, w)
    BY <1>0 DEF Sound, PhaseOk, Takes, SameClient, Up, Reaches, Early
<1> QED BY <1>1, <1>5, <1>6, <1>7 DEF Sound

\* A file of a device the server does not know of is started anew.
LEMMA ResetSound ==
    ASSUME NEW d, NEW v \in Views, NEW w \in Views, Sound(d, v),
           w.q = v.q, SameClient(v, w), w.end = v.end, w.acks = v.acks,
           w.heard = v.heard, v.heard = "new", w.file = <<>>
    PROVE  Sound(d, w)
<1>1. QueueOk(d, w)
    BY DEF Sound, SameClient, QueueOk
<1>2. PhaseOk(d, w)
    BY DEF Sound, PhaseOk, SameClient, Up, Reaches, Early
<1>3. v.sent \in Nat /\ w.sent = v.sent /\ Len(<<>>) = 0 /\ w.net = v.net
      /\ w.stage = v.stage
    BY DEF Views, SameClient
<1>4. DataOk(d, w)
  <2>1. \A i \in 1..Len(w.q), n \in Nat : ~PieceAt(d, w, i, n)
    BY DEF Sound, QueueOk, PieceAt
  <2>2. ASSUME Reaches(w)
        PROVE  w.sent = 0
    <3>1. v.phase \in Early \cup {"opening", "opened", "ended"}
      BY DEF Views, Phases
    <3> QED BY <1>3, <2>2, <3>1 DEF Sound, PhaseOk, Up, Reaches
  <2> QED BY <1>3, <2>1, <2>2 DEF DataOk
<1>5. FileOk(w)
    BY <1>3 DEF FileOk
<1> QED BY <1>1, <1>2, <1>4, <1>5 DEF Sound

\* The connection is closed by the server with all that has come in.
LEMMA DropSound ==
    ASSUME NEW d, NEW v \in Views, NEW w \in Views, Sound(d, v),
           w.q = <<>>, SameClient(v, w), w.end = "closed", w.file = v.file
    PROVE  Sound(d, w)
<1>1. Len(w.q) = 0
    OBVIOUS
<1>2. QueueOk(d, w) /\ DataOk(d, w)
    BY <1>1 DEF QueueOk, DataOk, Reaches
<1>3. FileOk(w)
    BY DEF Sound, FileOk, SameClient
<1>4. PhaseOk(d, w)
    BY DEF Sound, PhaseOk, SameClient, Up, Reaches
<1> QED BY <1>2, <1>3, <1>4 DEF Sound

\* The network cuts the connection: what arrives is a beginning of what was on
\* its way, and the last of it perhaps a part.
LEMMA CutSound ==
    ASSUME NEW d, NEW v \in Views, NEW w \in Views, Sound(d, v),
           v.net = "up", w.net \in {"lost", "silent"}, w.end = v.end, w.stage = v.stage,
           w.phase = v.phase, w.sent = v.sent, w.file = v.file,
           w.heard = v.heard, Len(w.q) <= Len(v.q),
           \A i \in 1..Len(w.q) :
               /\ w.q[i].dev = v.q[i].dev /\ w.q[i].kind = v.q[i].kind
               /\ w.q[i].n = v.q[i].n
               /\ w.q[i].torn = v.q[i].torn \/ i = Len(w.q)
    PROVE  Sound(d, w)
<1>1. Len(v.q) \in Nat /\ Len(w.q) \in Nat
    BY DEF Views
<1>2. \A i \in 1..Len(w.q) : i \in 1..Len(v.q)
    BY <1>1
<1>3. QueueOk(d, w)
    BY <1>2 DEF Sound, QueueOk
<1>4. DataOk(d, w)
  <2>1. \A i \in 1..Len(w.q), n \in Nat : PieceAt(d, w, i, n) <=> PieceAt(d, v, i, n)
    BY DEF PieceAt
  <2>2. \A i \in 1..Len(w.q) : \A j \in 1..i - 1 : j \in 1..Len(w.q)
    BY <1>1
  <2>3. Len(v.file) \in Nat
    BY DEF Views
  <2>4. ASSUME NEW i \in 1..Len(w.q), NEW n \in Nat, PieceAt(d, w, i, n)
        PROVE  /\ Len(w.file) < n /\ n <= w.sent
               /\ Intact(w, i - 1) =>
                     \A m \in Len(w.file) + 1..n - 1 :
                         \E j \in 1..i - 1 : PieceAt(d, w, j, m)
               /\ \A j \in 1..i - 1, m \in Nat : PieceAt(d, w, j, m) => m < n
    <3>1. /\ Len(v.file) < n /\ n <= v.sent
          /\ \A m \in Len(v.file) + 1..n - 1 :
                \E j \in 1..i - 1 : PieceAt(d, v, j, m)
          /\ \A j \in 1..i - 1, m \in Nat : PieceAt(d, v, j, m) => m < n
      BY <1>2, <2>1, <2>4 DEF Sound, DataOk, Intact
    <3>2. \A m \in Len(v.file) + 1..n - 1 : m \in Nat
      BY <2>3
    <3> QED BY <2>1, <2>2, <3>1, <3>2
  <2> QED BY <2>4 DEF DataOk, Reaches
<1>5. FileOk(w)
    BY DEF Sound, FileOk
<1>6. PhaseOk(d, w)
    BY DEF Sound, PhaseOk, Up, Reaches
<1> QED BY <1>3, <1>4, <1>5, <1>6 DEF Sound

\* Messages behind a torn one are gone: the server has taken them for data.
LEMMA ThinSound ==
    ASSUME NEW d, NEW v \in Views, NEW w \in Views, Sound(d, v),
           v.net = "short", SameClient(v, w), w.end = v.end, w.file = v.file,
           w.heard = v.heard, w.acks = v.acks,
           NEW f \in [1..Len(w.q) -> 1..Len(v.q)],
           \A i, j \in 1..Len(w.q) : i < j => f[i] < f[j],
           \A i \in 1..Len(w.q) :
               /\ w.q[i].dev = v.q[f[i]].dev /\ w.q[i].kind = v.q[f[i]].kind
               /\ w.q[i].n = v.q[f[i]].n
               /\ Intact(w, i - 1) => i = 1 /\ f[1] = 1 /\ Intact(v, 0),
           ~Intact(w, Len(w.q))
    PROVE  Sound(d, w)
<1>1. Len(v.q) \in Nat /\ Len(w.q) \in Nat /\ w.net = "short"
      /\ w.stage = v.stage /\ w.sent = v.sent
    BY DEF Views, SameClient
<1>2. \A i \in 1..Len(w.q) : f[i] \in 1..Len(v.q)
    OBVIOUS
<1>3. \A i, j \in 1..Len(w.q) : (f[j] = f[i] => j = i) /\ (f[j] <= f[i] => j <= i)
    BY <1>1, <1>2
<1>4. QueueOk(d, w)
  <2>1. ASSUME NEW i \in 1..Len(w.q), w.q[i].dev = d, w.q[i].kind = "open"
        PROVE  w.heard = "new" /\ \A j \in 1..Len(w.q) : w.q[j].dev = d => j = i
    <3>1. v.heard = "new" /\ \A j \in 1..Len(v.q) : v.q[j].dev = d => j = f[i]
      BY <1>2, <2>1 DEF Sound, QueueOk
    <3>2. ASSUME NEW j \in 1..Len(w.q), w.q[j].dev = d PROVE j = i
      <4>1. f[j] \in 1..Len(v.q) /\ v.q[f[j]].dev = d
        BY <1>2, <3>2
      <4> QED BY <1>3, <3>1, <4>1
    <3> QED BY <3>1, <3>2
  <2>2. ASSUME NEW i \in 1..Len(w.q), w.q[i].dev = d, w.q[i].kind # "open"
        PROVE  w.heard = "open"
    BY <1>2, <2>2 DEF Sound, QueueOk
  <2>3. ASSUME NEW i \in 1..Len(w.q), w.q[i].dev = d, w.q[i].kind = "close"
        PROVE  /\ w.stage \in {"stopping", "killed"}
               /\ \A j \in 1..Len(w.q) : w.q[j].dev = d => j <= i
    <3>1. /\ v.stage \in {"stopping", "killed"}
          /\ \A j \in 1..Len(v.q) : v.q[j].dev = d => j <= f[i]
      BY <1>2, <2>3 DEF Sound, QueueOk
    <3>2. ASSUME NEW j \in 1..Len(w.q), w.q[j].dev = d PROVE j <= i
      <4>1. f[j] \in 1..Len(v.q) /\ v.q[f[j]].dev = d
        BY <1>2, <3>2
      <4> QED BY <1>3, <3>1, <4>1
    <3> QED BY <1>1, <3>1, <3>2
  <2> QED BY <1>1, <2>1, <2>2, <2>3 DEF QueueOk
<1>5. DataOk(d, w)
  <2>1. \A i \in 1..Len(w.q), n \in Nat :
            PieceAt(d, w, i, n) <=> PieceAt(d, v, f[i], n)
    BY DEF PieceAt
  <2>2. ASSUME NEW i \in 1..Len(w.q), NEW n \in Nat, PieceAt(d, w, i, n)
        PROVE  /\ Len(w.file) < n /\ n <= w.sent
               /\ Intact(w, i - 1) =>
                     \A m \in Len(w.file) + 1..n - 1 :
                         \E j \in 1..i - 1 : PieceAt(d, w, j, m)
               /\ \A j \in 1..i - 1, m \in Nat : PieceAt(d, w, j, m) => m < n
    <3>1. f[i] \in 1..Len(v.q) /\ PieceAt(d, v, f[i], n)
      BY <2>1, <2>2
    <3>2. /\ Len(v.file) < n /\ n <= v.sent
          /\ Intact(v, f[i] - 1) =>
                \A m \in Len(v.file) + 1..n - 1 :
                    \E j \in 1..f[i] - 1 : PieceAt(d, v, j, m)
          /\ \A j \in 1..f[i] - 1, m \in Nat : PieceAt(d, v, j, m) => m < n
      BY <3>1 DEF Sound, DataOk
    <3>3. ASSUME Intact(w, i - 1), NEW m \in Len(w.file) + 1..n - 1
          PROVE  \E j \in 1..i - 1 : PieceAt(d, w, j, m)
      <4>1. i = 1 /\ f[i] = 1 /\ Intact(v, f[i] - 1)
        BY <3>3
      <4>2. PICK j \in 1..f[i] - 1 : PieceAt(d, v, j, m)
        BY <3>2, <3>3, <4>1
      <4> QED BY <4>1, <4>2
    <3>4. ASSUME NEW j \in 1..i - 1, NEW m \in Nat, PieceAt(d, w, j, m)
          PROVE  m < n
      <4>1. j \in 1..Len(w.q) /\ j < i
        BY <1>1
      <4>2. f[j] \in 1..f[i] - 1
        BY <1>1, <1>2, <4>1
      <4> QED BY <2>1, <3>2, <3>4, <4>1, <4>2
    <3> QED BY <1>1, <3>2, <3>3, <3>4
  <2> QED BY <2>2 DEF DataOk
<1>6. FileOk(w)
    BY <1>1 DEF Sound, FileOk
<1>7. PhaseOk(d, w)
    BY <1>2 DEF Sound, PhaseOk, SameClient, Up, Reaches, Early
<1> QED BY <1>4, <1>5, <1>6, <1>7 DEF Sound

-----------------------------------------------------------------------------
(* The invariant.                                                          *)

\* How far the client is with a device of one of its CPUs.
Phase(s) ==
    LET p == pc[LaneOf(s)]  at == dev[LaneOf(s)]  d == s[3]
        later == IF sendfile[s[1]] THEN d < at ELSE d > at
    IN IF p \in {"connect", "open", "ack"}
       THEN IF d < at THEN "opened"
            ELSE IF p = "open" /\ d = at THEN "joined"
            ELSE IF p = "ack" /\ d = at THEN "opening"
            ELSE IF p = "ack" /\ ~sendfile[s[1]] THEN "waiting"
            ELSE "fresh"
       ELSE IF \/ p \in {"ready", "trace"}
               \/ p = "close" /\ d = at
               \/ p \in {"close", "test", "recv"} /\ later
            THEN "opened"
       ELSE "ended"

\* What there is of a stream, on both sides.
View(heard, s) ==
    [q     |-> toServer[Of(s)],
     acks  |-> acks[Of(s)],
     fd    |-> fd[Of(s)],
     net   |-> net[Of(s)],
     end   |-> IF dropped[Of(s)] THEN "closed" ELSE "open",
     stage |-> stage[s[1]],
     phase |-> Phase(s),
     sent  |-> sent[s],
     file  |-> files[s],
     heard |-> heard[s]]

\* What the server has heard of each device on each CPU.
Hearings == [Streams -> {"new", "open", "over"}]

\* Where the CPUs of a client are in its life; a send falls short only in a
\* sendfile.
StageInv ==
    /\ \A l \in Lanes :
          /\ stage[l[1]] = "starting" =>
                pc[l] \in {"connect", "open", "ack", "ready"}
          /\ stage[l[1]] = "tracing" => pc[l] = "trace"
          /\ stage[l[1]] = "stopping" =>
                pc[l] \in {"trace", "close", "test", "recv", "gone"}
          /\ stage[l[1]] \in {"killed", "absent"} => pc[l] = "gone"
          /\ dev[l] \in DevsOf(l[1])
    /\ \A k \in Conns : net[k] = "short" =>
          sendfile[k[1]] /\ stage[k[1]] \in {"tracing", "stopping"}

\* Messages go by the connection of their device.
RouteInv ==
    \A k \in Conns : \A i \in 1..Len(toServer[k]) :
        /\ toServer[k][i].dev \in DevsOf(k[1])
        /\ Of(On(LaneOf(k), toServer[k][i].dev)) = k

\* What cl_opens counts.
Counted(heard, h) ==
    {s \in Streams : heard[s] = "open" /\ HostOf[s[1]] = h}

\* What the server has heard agrees with what it counts and lists.
HeardInv(heard) ==
    /\ \A h \in Hosts : /\ IsFiniteSet(Counted(heard, h))
                        /\ cl_opens[h] = Cardinality(Counted(heard, h))
    /\ \A s \in Streams : heard[s] # "new" =>
          /\ \E j \in 1..Len(conn_list) : conn_list[j] = Of(s)
          /\ Known(Of(s), s[3])

\* All streams.
SoundAll(heard) == \A s \in Streams : Sound(s[3], View(heard, s))

\* The scan: what poll said is of the beginning of the list, and it has yet to
\* find as many as are ready from where it is.
ReadyFrom(said, p) == {j \in 1..Len(said) : j >= p /\ said[j].in}
ScanInv ==
    srv = "scan" =>
        /\ Len(pfds) <= Len(conn_list)
        /\ \A j \in 1..Len(pfds) : pfds[j].nc = conn_list[j]
        /\ pos \in 1..Len(pfds) /\ pfds[pos].in
        /\ events = Cardinality(ReadyFrom(pfds, pos))

\* The part of the invariant that needs to know what the server has heard.
Told(heard) == HeardInv(heard) /\ SoundAll(heard)

\* The invariant: there is an account of what the server has heard that is told
\* right.
NetInv ==
    /\ TypeOK /\ StageInv /\ RouteInv /\ ScanInv /\ OneDirectory
    /\ \E heard \in Hearings : Told(heard)

-----------------------------------------------------------------------------
(* Views.                                                                  *)

\* What the fields of a view are.
LEMMA ViewParts ==
    ASSUME NEW heard, NEW s
    PROVE  /\ View(heard, s).q = toServer[Of(s)]
           /\ View(heard, s).acks = acks[Of(s)]
           /\ View(heard, s).fd = fd[Of(s)]
           /\ View(heard, s).net = net[Of(s)]
           /\ View(heard, s).end = IF dropped[Of(s)] THEN "closed" ELSE "open"
           /\ View(heard, s).stage = stage[s[1]]
           /\ View(heard, s).phase = Phase(s)
           /\ View(heard, s).sent = sent[s]
           /\ View(heard, s).file = files[s]
           /\ View(heard, s).heard = heard[s]
BY DEF View

\* The same in the next state.
LEMMA NextParts ==
    ASSUME NEW heard, NEW s
    PROVE  /\ View(heard, s)'.q = toServer'[Of(s)']
           /\ View(heard, s)'.acks = acks'[Of(s)']
           /\ View(heard, s)'.fd = fd'[Of(s)']
           /\ View(heard, s)'.net = net'[Of(s)']
           /\ View(heard, s)'.end = IF dropped'[Of(s)'] THEN "closed" ELSE "open"
           /\ View(heard, s)'.stage = stage'[s[1]]
           /\ View(heard, s)'.phase = Phase(s)'
           /\ View(heard, s)'.sent = sent'[s]
           /\ View(heard, s)'.file = files'[s]
           /\ View(heard, s)'.heard = heard[s]
BY DEF View

\* A phase is one of those.
LEMMA PhaseIs == ASSUME NEW s PROVE Phase(s) \in Phases /\ Phase(s)' \in Phases
<1>1. Phase(s) \in Phases
    BY DEF Phase, Phases, Early
<1>2. Phase(s)' \in Phases
    BY DEF Phase, Phases, Early
<1> QED BY <1>1, <1>2

\* A view of a state of the right types is one of Views.
LEMMA ViewIs ==
    ASSUME TypeOK, NEW heard \in Hearings, NEW s \in Streams
    PROVE  View(heard, s) \in Views
<1>1. Of(s) \in Conns /\ s[1] \in Clients
    BY OfParts, StreamParts
<1>2. /\ toServer[Of(s)] \in Seq(Messages) /\ acks[Of(s)] \in Nat
      /\ fd[Of(s)] \in {"none", "open", "closed"}
      /\ net[Of(s)] \in {"up", "lost", "silent", "short"}
    BY <1>1 DEF TypeOK
<1>3. /\ stage[s[1]] \in Stages /\ sent[s] \in Nat
      /\ files[s] \in Seq(Pieces) /\ heard[s] \in {"new", "open", "over"}
    BY <1>1 DEF TypeOK, Hearings, Stages, Pieces
<1> QED BY <1>2, <1>3, PhaseIs DEF View, Views

\* So is the view in the next state.
LEMMA NextIs ==
    ASSUME TypeOK', NEW heard \in Hearings, NEW s \in Streams, sendfile' = sendfile
    PROVE  View(heard, s)' \in Views
<1>1. Of(s) \in Conns /\ s[1] \in Clients /\ Of(s)' = Of(s)
    BY OfParts, StreamParts, OfStays
<1>2. /\ toServer'[Of(s)] \in Seq(Messages) /\ acks'[Of(s)] \in Nat
      /\ fd'[Of(s)] \in {"none", "open", "closed"}
      /\ net'[Of(s)] \in {"up", "lost", "silent", "short"}
    BY <1>1 DEF TypeOK
<1>3. /\ stage'[s[1]] \in Stages /\ sent'[s] \in Nat
      /\ files'[s] \in Seq(Pieces) /\ heard[s] \in {"new", "open", "over"}
    BY <1>1 DEF TypeOK, Hearings, Stages, Pieces
<1> QED BY <1>1, <1>2, <1>3, PhaseIs DEF View, Views

\* A stream whose lane stays is in the phase it was in.
LEMMA PhaseStays ==
    ASSUME NEW s, sendfile' = sendfile, pc'[LaneOf(s)] = pc[LaneOf(s)],
           dev'[LaneOf(s)] = dev[LaneOf(s)]
    PROVE  Phase(s)' = Phase(s)
BY DEF Phase, LaneOf

\* Nothing that matters to the stream has changed.
Still(s) ==
    /\ toServer'[Of(s)] = toServer[Of(s)] /\ acks'[Of(s)] = acks[Of(s)]
    /\ fd'[Of(s)] = fd[Of(s)] /\ net'[Of(s)] = net[Of(s)]
    /\ dropped'[Of(s)] = dropped[Of(s)] /\ sendfile' = sendfile
    /\ stage'[s[1]] = stage[s[1]] /\ Phase(s)' = Phase(s)
    /\ sent'[s] = sent[s] /\ files'[s] = files[s]

\* A stream of which no part moves is as sound as before.
LEMMA StillSound ==
    ASSUME NEW heard, NEW s, Sound(s[3], View(heard, s)), Still(s)
    PROVE  Sound(s[3], View(heard, s)')
<1>1. Of(s)' = Of(s)
    BY OfStays DEF Still
<1>2. View(heard, s)' = View(heard, s)
    BY <1>1 DEF View, Still
<1> QED BY <1>2

-----------------------------------------------------------------------------
(* Types and stages.                                                       *)

\* The part of the invariant the types of a step need.
Typed == TypeOK /\ StageInv

\* What is sent is a message.
LEMMA MessagesAre ==
    /\ \A l \in Lanes : dev[l] \in Devs => Opens(l) \in Messages /\ Closes(l) \in Messages
    /\ \A d \in Devs, n \in Nat : Piece(d, n) \in Messages
BY DEF Messages, Opens, Closes, Piece

\* The connections of a lane.
LEMMA LaneConns ==
    ASSUME Typed, NEW l \in Lanes
    PROVE  /\ Conn(l) \in Conns /\ Conn(l) = Of(On(l, dev[l]))
           /\ l[1] \in Clients /\ On(l, dev[l]) \in Streams
           /\ dev[l] \in DevsOf(l[1]) /\ dev[l] \in Nat /\ dev[l] \in Devs
           /\ dev[l] >= 1 /\ dev[l] <= NDevs[l[1]]
           /\ LaneOf(On(l, dev[l])) = l /\ On(l, dev[l])[3] = dev[l]
           /\ On(l, dev[l])[1] = l[1]
<1>1. dev[l] \in DevsOf(l[1])
    BY DEF Typed, StageInv
<1>2. /\ On(l, dev[l]) \in Streams /\ dev[l] \in Nat /\ dev[l] \in Devs
      /\ LaneOf(On(l, dev[l])) = l /\ On(l, dev[l])[3] = dev[l]
      /\ On(l, dev[l])[1] = l[1] /\ l[1] \in Clients /\ NDevs[l[1]] \in Nat
    BY <1>1, LaneParts
<1>3. Conn(l) = Of(On(l, dev[l]))
    BY <1>1, ConnIs
<1> QED BY <1>1, <1>2, <1>3, OfParts DEF DevsOf

\* Sending keeps the queues sequences of messages.
LEMMA SendTypes ==
    ASSUME TypeOK, NEW k \in Conns, NEW msg \in Messages, Send(k, msg)
    PROVE  toServer' \in [Conns -> Seq(Messages)]
<1>1. toServer \in [Conns -> Seq(Messages)]
    BY DEF TypeOK
<1>2. CASE UNCHANGED toServer
    BY <1>1, <1>2
<1>3. CASE toServer' = [toServer EXCEPT ![k] = Append(@, msg)]
  <2>1. Append(toServer[k], msg) \in Seq(Messages)
    BY <1>1
  <2> QED BY <1>1, <1>3, <2>1
<1> QED BY <1>2, <1>3 DEF Send

\* Each step of a client keeps the types and the order of its stages: here the
\* connecting of a CPU.
LEMMA ConnectTypes ==
    ASSUME Typed, NEW l \in Lanes, Connect(l) PROVE Typed'
<1>1. Conn(l) \in Conns
    BY LaneConns
<1>2. TypeOK'
  <2>1. Append(backlog, Conn(l)) \in Seq(Conns) /\ Len(Append(backlog, Conn(l))) <= Backlog
    BY <1>1, NetAssumption DEF Typed, TypeOK, Connect
  <2> QED BY <1>1, <2>1 DEF Typed, TypeOK, Connect, Goto, Pcs, server
<1>3. StageInv'
    BY DEF Typed, TypeOK, StageInv, Connect, Goto
<1> QED BY <1>2, <1>3 DEF Typed

\* Types and stages: the open of a device is sent.
LEMMA OpenTypes ==
    ASSUME Typed, NEW l \in Lanes, Open(l) PROVE Typed'
<1>1. Conn(l) \in Conns /\ Opens(l) \in Messages
    BY LaneConns, MessagesAre
<1>2. toServer' \in [Conns -> Seq(Messages)]
    BY <1>1, SendTypes DEF Typed, Open
<1>3. TypeOK'
    BY <1>2 DEF Typed, TypeOK, Open, Goto, Pcs, server
<1>4. StageInv'
    BY DEF Typed, TypeOK, StageInv, Open, Goto
<1> QED BY <1>3, <1>4 DEF Typed

\* Receiving keeps the counts of acknowledgements numbers.
LEMMA ReceiveTypes ==
    ASSUME TypeOK, NEW k \in Conns, Receive(k)
    PROVE  acks' \in [Conns -> Nat]
<1>1. acks \in [Conns -> Nat]
    BY DEF TypeOK
<1>2. CASE acks[k] > 0
  <2>1. acks[k] - 1 \in Nat /\ acks' = [acks EXCEPT ![k] = acks[k] - 1]
    BY <1>1, <1>2 DEF Receive
  <2> QED BY <1>1, <2>1
<1>3. CASE ~(acks[k] > 0)
    BY <1>1, <1>3 DEF Receive
<1> QED BY <1>2, <1>3

\* Types and stages: the open is acknowledged.
LEMMA OpenAckedTypes ==
    ASSUME Typed, NEW l \in Lanes, OpenAcked(l) PROVE Typed'
<1>1. /\ Conn(l) \in Conns /\ dev[l] \in Nat /\ NDevs[l[1]] \in Nat
      /\ l[1] \in Clients /\ dev[l] >= 1
    BY LaneConns, LaneParts
<1>2. acks' \in [Conns -> Nat]
    BY <1>1, ReceiveTypes DEF Typed, OpenAcked
<1>3. dev[l] < NDevs[l[1]] => dev[l] + 1 \in DevsOf(l[1]) /\ dev[l] + 1 \in Devs
    BY <1>1 DEF DevsOf, Devs
<1>4. TypeOK'
    BY <1>2, <1>3 DEF Typed, TypeOK, OpenAcked, ToDev, Goto, Pcs, server
<1>5. StageInv'
  <2>1. \A k \in Conns : net'[k] = "short" =>
            sendfile'[k[1]] /\ stage'[k[1]] \in {"tracing", "stopping"}
    BY DEF Typed, StageInv, OpenAcked
  <2>2. stage' = stage /\ pc[l] = "ack"
        /\ pc' = [pc EXCEPT ![l] = pc'[l]] /\ dev' = [dev EXCEPT ![l] = dev'[l]]
        /\ pc'[l] \in {"connect", "open", "ready"} /\ dev'[l] \in DevsOf(l[1])
    BY <1>3, LaneConns DEF Typed, TypeOK, OpenAcked, ToDev, Goto
  <2>3. \A q \in Lanes :
            /\ stage'[q[1]] = "starting" =>
                  pc'[q] \in {"connect", "open", "ack", "ready"}
            /\ stage'[q[1]] = "tracing" => pc'[q] = "trace"
            /\ stage'[q[1]] = "stopping" =>
                  pc'[q] \in {"trace", "close", "test", "recv", "gone"}
            /\ stage'[q[1]] \in {"killed", "absent"} => pc'[q] = "gone"
            /\ dev'[q] \in DevsOf(q[1])
    BY <2>2 DEF Typed, TypeOK, StageInv
  <2> QED BY <2>1, <2>3 DEF StageInv
<1> QED BY <1>4, <1>5 DEF Typed

\* Types and stages: all CPUs start to trace.
LEMMA StartTracingTypes ==
    ASSUME Typed, NEW c \in Clients, StartTracing(c) PROVE Typed'
<1>1. TypeOK'
    BY DEF Typed, TypeOK, StartTracing, Pcs, server
<1>2. /\ \A l \in Lanes : l[1] \in Clients /\ l \in LanesOf(l[1])
      /\ \A k \in Conns : k[1] \in Clients
    BY LaneParts, StreamParts DEF Conns
<1>3. StageInv'
    BY <1>2 DEF Typed, TypeOK, StageInv, StartTracing
<1> QED BY <1>1, <1>3 DEF Typed

\* Types and stages: the client is told to stop.
LEMMA StopTypes ==
    ASSUME Typed, NEW c \in Clients, Stop(c) PROVE Typed'
<1>1. TypeOK'
    BY DEF Typed, TypeOK, Stop, server
<1>2. /\ \A l \in Lanes : l[1] \in Clients
      /\ \A k \in Conns : k[1] \in Clients
    BY LaneParts, StreamParts DEF Conns
<1>3. StageInv'
    BY <1>2 DEF Typed, TypeOK, StageInv, Stop
<1> QED BY <1>1, <1>3 DEF Typed

\* Types and stages: a piece of data is sent.
LEMMA SendDataTypes ==
    ASSUME Typed, NEW l \in Lanes, NEW d \in DevsOf(l[1]), SendData(l, d)
    PROVE  Typed'
<1> DEFINE k == ConnOf(l, d)
           s == <<l[1], l[2], d>>
<1>1. s \in Streams /\ k \in Conns /\ d \in Devs
  <2>1. s = On(l, d)
    BY DEF On
  <2>2. On(l, d) \in Streams /\ d \in Devs
    BY LaneParts
  <2>3. k = Of(On(l, d))
    BY ConnIs
  <2> QED BY <2>1, <2>2, <2>3, OfParts
<1>2. sent[s] + 1 \in Nat /\ Piece(d, sent[s] + 1) \in Messages
    BY <1>1, MessagesAre DEF Typed, TypeOK
<1>3. toServer' \in [Conns -> Seq(Messages)]
  <2>1. CASE fd[k] = "open"
    BY <1>1, <1>2, <2>1, SendTypes DEF Typed, SendData
  <2>2. CASE fd[k] # "open"
    BY <2>2 DEF Typed, TypeOK, SendData
  <2> QED BY <2>1, <2>2
<1>4. sent' \in [Streams -> Nat]
    BY <1>1, <1>2 DEF Typed, TypeOK, SendData
<1>5. fd' \in [Conns -> {"none", "open", "closed"}]
    BY <1>1 DEF Typed, TypeOK, SendData
<1>6. TypeOK'
    BY <1>3, <1>4, <1>5 DEF Typed, TypeOK, SendData, server
<1>7. StageInv'
    BY DEF Typed, TypeOK, StageInv, SendData
<1> QED BY <1>6, <1>7 DEF Typed

\* Types and stages: of a piece only a part is sent.
LEMMA SendPartTypes ==
    ASSUME Typed, NEW l \in Lanes, NEW d \in DevsOf(l[1]), SendPart(l, d)
    PROVE  Typed'
<1> DEFINE k == ConnOf(l, d)
           s == <<l[1], l[2], d>>
           msg == [Piece(d, sent[s] + 1) EXCEPT !.torn = "payload"]
<1>1. s \in Streams /\ k \in Conns /\ d \in Devs /\ k[1] = l[1]
      /\ l[1] \in Clients
  <2>1. s = On(l, d)
    BY DEF On
  <2>2. On(l, d) \in Streams /\ d \in Devs /\ On(l, d)[1] = l[1] /\ l[1] \in Clients
    BY LaneParts
  <2>3. k = Of(On(l, d))
    BY ConnIs
  <2> QED BY <2>1, <2>2, <2>3, OfParts
<1>2. sent[s] + 1 \in Nat /\ msg \in Messages
  <2>1. msg = [kind |-> "data", dev |-> d, n |-> sent[s] + 1, torn |-> "payload"]
    BY DEF Piece
  <2>2. sent[s] + 1 \in Nat
    BY <1>1 DEF Typed, TypeOK
  <2> QED BY <1>1, <2>1, <2>2 DEF Messages
<1>3. toServer' \in [Conns -> Seq(Messages)]
    BY <1>1, <1>2, SendTypes DEF Typed, SendPart
<1>4. sent' \in [Streams -> Nat]
    BY <1>1, <1>2 DEF Typed, TypeOK, SendPart
<1>5. /\ net' \in [Conns -> {"up", "lost", "silent", "short"}]
      /\ \A j \in Conns : j # k => net'[j] = net[j]
      /\ sendfile' = sendfile /\ stage' = stage /\ pc' = pc /\ dev' = dev
      /\ sendfile[l[1]] /\ pc[l] = "trace"
    BY <1>1 DEF Typed, TypeOK, SendPart
<1>6. TypeOK'
    BY <1>3, <1>4, <1>5 DEF Typed, TypeOK, SendPart, server
<1>7. stage[l[1]] \in {"tracing", "stopping"}
  <2>1. stage[l[1]] \in {"starting", "tracing", "stopping", "killed", "absent"}
    BY <1>1 DEF Typed, TypeOK
  <2>2. pc[l] = "trace"
    BY <1>5
  <2> HIDE DEF k, s, msg
  <2> QED BY <2>1, <2>2 DEF Typed, StageInv
<1> HIDE DEF k, s, msg
<1>8. StageInv'
    BY <1>1, <1>5, <1>7 DEF Typed, StageInv
<1> QED BY <1>6, <1>8 DEF Typed

\* Types and stages: a CPU has read all its data.
LEMMA StartCloseTypes ==
    ASSUME Typed, NEW l \in Lanes, StartClose(l) PROVE Typed'
<1>1. /\ NDevs[l[1]] \in DevsOf(l[1]) /\ 1 \in DevsOf(l[1])
      /\ NDevs[l[1]] \in Devs /\ 1 \in Devs /\ l[1] \in Clients
  <2>1. NDevs[l[1]] \in Nat /\ NDevs[l[1]] >= 1 /\ l[1] \in Clients
    BY LaneParts
  <2> QED BY <2>1 DEF Devs, DevsOf
<1>2. TypeOK'
    BY <1>1 DEF Typed, TypeOK, StartClose, ToDev, Goto, Pcs, server
<1>3. StageInv'
    BY <1>1 DEF Typed, TypeOK, StageInv, StartClose, ToDev, Goto
<1> QED BY <1>2, <1>3 DEF Typed

\* Types and stages: the close of a device is sent.
LEMMA SendCloseTypes ==
    ASSUME Typed, NEW l \in Lanes, SendClose(l) PROVE Typed'
<1>1. Conn(l) \in Conns /\ Closes(l) \in Messages /\ l[1] \in Clients
    BY LaneConns, MessagesAre
<1>2. toServer' \in [Conns -> Seq(Messages)]
    BY <1>1, SendTypes DEF Typed, SendClose
<1>3. TypeOK'
    BY <1>1, <1>2 DEF Typed, TypeOK, SendClose, Goto, Pcs, server
<1>4. StageInv'
    BY DEF Typed, TypeOK, StageInv, SendClose, Goto
<1> QED BY <1>3, <1>4 DEF Typed

\* Types and stages: net_send_close goes on to read.
LEMMA TestDoneTypes ==
    ASSUME Typed, NEW l \in Lanes, TestDone(l) PROVE Typed'
<1>1. TypeOK'
    BY DEF Typed, TypeOK, TestDone, Goto, Pcs, server
<1>2. StageInv'
    BY DEF Typed, TypeOK, StageInv, TestDone, Goto
<1> QED BY <1>1, <1>2 DEF Typed

\* The next device to close is one of the lane's.
LEMMA NextToClose ==
    ASSUME Typed, NEW l \in Lanes, CloseAcked(l),
           ~(dev[l] = IF sendfile[l[1]] THEN 1 ELSE NDevs[l[1]])
    PROVE  LET d == IF sendfile[l[1]] THEN dev[l] - 1 ELSE dev[l] + 1
           IN  d \in DevsOf(l[1]) /\ d \in Devs
<1>1. /\ dev[l] \in Nat /\ NDevs[l[1]] \in Nat /\ l[1] \in Clients
      /\ dev[l] >= 1 /\ dev[l] <= NDevs[l[1]]
    BY LaneConns, LaneParts
<1> QED BY <1>1 DEF DevsOf, Devs

\* Types and stages: the close is acknowledged.
LEMMA CloseAckedTypes ==
    ASSUME Typed, NEW l \in Lanes, CloseAcked(l) PROVE Typed'
<1>1. Conn(l) \in Conns /\ l[1] \in Clients
    BY LaneConns
<1>2. acks' \in [Conns -> Nat]
    BY <1>1, ReceiveTypes DEF Typed, TypeOK, CloseAcked
<1>3. fd' \in [Conns -> {"none", "open", "closed"}]
    BY <1>1 DEF Typed, TypeOK, CloseAcked
<1>4. CASE dev[l] = IF sendfile[l[1]] THEN 1 ELSE NDevs[l[1]]
  <2>1. pc' = [pc EXCEPT ![l] = "gone"] /\ dev' = dev
    BY <1>4 DEF CloseAcked, Goto
  <2>2. TypeOK'
    BY <1>2, <1>3, <2>1 DEF Typed, TypeOK, CloseAcked, Pcs, server
  <2>3. StageInv'
    BY <2>1 DEF Typed, TypeOK, StageInv, CloseAcked
  <2> QED BY <2>2, <2>3 DEF Typed
<1>5. CASE ~(dev[l] = IF sendfile[l[1]] THEN 1 ELSE NDevs[l[1]])
  <2>1. PICK d \in DevsOf(l[1]) : d \in Devs /\ ToDev(l, "close", d)
    BY <1>5, NextToClose DEF CloseAcked
  <2>2. pc' = [pc EXCEPT ![l] = "close"] /\ dev' = [dev EXCEPT ![l] = d]
    BY <2>1 DEF ToDev, Goto
  <2>3. TypeOK'
    BY <1>2, <1>3, <2>1, <2>2 DEF Typed, TypeOK, CloseAcked, Pcs, server
  <2>4. StageInv'
    BY <2>1, <2>2 DEF Typed, TypeOK, StageInv, CloseAcked
  <2> QED BY <2>3, <2>4 DEF Typed
<1> QED BY <1>4, <1>5

\* Types and stages: the client is killed.
LEMMA KillTypes ==
    ASSUME Typed, NEW c \in Clients, Kill(c) PROVE Typed'
<1>1. TypeOK'
    BY DEF Typed, TypeOK, Kill, Pcs, server
<1>2. /\ \A l \in Lanes : l[1] \in Clients
      /\ \A k \in Conns : k[1] \in Clients
    BY LaneParts, StreamParts DEF Conns
<1>3. StageInv'
    BY <1>2 DEF Typed, TypeOK, StageInv, Kill, Undamaged
<1> QED BY <1>1, <1>3 DEF Typed

\* What arrives of a connection that is cut: a beginning, whose last message
\* may be a part.
LEMMA BreakLeaves ==
    ASSUME TypeOK, NEW k \in Conns, Break(k)
    PROVE  /\ toServer' \in [Conns -> Seq(Messages)]
           /\ \A j \in Conns : j # k => toServer'[j] = toServer[j]
           /\ Len(toServer'[k]) <= Len(toServer[k])
           /\ \A i \in 1..Len(toServer'[k]) :
                 /\ toServer'[k][i].dev = toServer[k][i].dev
                 /\ toServer'[k][i].kind = toServer[k][i].kind
                 /\ toServer'[k][i].n = toServer[k][i].n
                 /\ toServer'[k][i].torn = toServer[k][i].torn
                       \/ i = Len(toServer'[k])
<1>1. toServer \in [Conns -> Seq(Messages)] /\ Len(toServer[k]) \in Nat
    BY DEF TypeOK
<1>2. PICK m \in 0..Len(toServer[k]) :
          \/ toServer' = [toServer EXCEPT ![k] = SubSeq(toServer[k], 1, m)]
          \/ /\ m < Len(toServer[k])
             /\ \E part \in {"header", "payload"} :
                   toServer' = [toServer EXCEPT ![k] =
                       Append(SubSeq(toServer[k], 1, m),
                              [toServer[k][m + 1] EXCEPT !.torn = part])]
    BY DEF Break
<1> DEFINE whole == SubSeq(toServer[k], 1, m)
<1>3. /\ whole \in Seq(Messages) /\ Len(whole) = m
      /\ \A i \in 1..m : whole[i] = toServer[k][i] /\ i \in 1..Len(toServer[k])
    BY <1>1
<1>4. CASE toServer' = [toServer EXCEPT ![k] = whole]
    BY <1>1, <1>3, <1>4
<1>5. ASSUME m < Len(toServer[k]), NEW part \in {"header", "payload"},
             toServer' = [toServer EXCEPT ![k] =
                 Append(whole, [toServer[k][m + 1] EXCEPT !.torn = part])]
      PROVE  /\ toServer' \in [Conns -> Seq(Messages)]
             /\ \A j \in Conns : j # k => toServer'[j] = toServer[j]
             /\ Len(toServer'[k]) <= Len(toServer[k])
             /\ \A i \in 1..Len(toServer'[k]) :
                   /\ toServer'[k][i].dev = toServer[k][i].dev
                   /\ toServer'[k][i].kind = toServer[k][i].kind
                   /\ toServer'[k][i].n = toServer[k][i].n
                   /\ toServer'[k][i].torn = toServer[k][i].torn
                         \/ i = Len(toServer'[k])
  <2>1. toServer[k][m + 1] \in Messages
    BY <1>1, <1>5
  <2>2. PICK msg \in Messages : msg = [toServer[k][m + 1] EXCEPT !.torn = part]
    BY <2>1 DEF Messages
  <2>3. msg.dev = toServer[k][m + 1].dev /\ msg.kind = toServer[k][m + 1].kind
        /\ msg.n = toServer[k][m + 1].n
    BY <2>1, <2>2 DEF Messages
  <2>4. toServer'[k] = Append(whole, msg)
    BY <1>1, <1>5, <2>2
  <2>5. /\ Append(whole, msg) \in Seq(Messages)
        /\ Len(Append(whole, msg)) = m + 1
        /\ \A i \in 1..m : Append(whole, msg)[i] = whole[i]
        /\ Append(whole, msg)[m + 1] = msg
        /\ \A i \in 1..m + 1 : i \in 1..m \/ i = m + 1
    BY <1>3, AppendParts
  <2> HIDE DEF whole
  <2>6. Len(toServer'[k]) = m + 1 /\ m + 1 <= Len(toServer[k])
    BY <1>1, <1>5, <2>4, <2>5
  <2>7. ASSUME NEW i \in 1..m + 1
        PROVE  /\ toServer'[k][i].dev = toServer[k][i].dev
               /\ toServer'[k][i].kind = toServer[k][i].kind
               /\ toServer'[k][i].n = toServer[k][i].n
               /\ toServer'[k][i].torn = toServer[k][i].torn \/ i = m + 1
    BY <1>3, <2>3, <2>4, <2>5
  <2>8. toServer' \in [Conns -> Seq(Messages)]
        /\ \A j \in Conns : j # k => toServer'[j] = toServer[j]
    BY <1>1, <1>5, <2>2, <2>5
  <2> QED BY <2>6, <2>7, <2>8
<1> QED BY <1>2, <1>4, <1>5

\* Types and stages: a connection is lost.
LEMMA BreakTypes ==
    ASSUME Typed, NEW k \in Conns, Break(k) PROVE Typed'
<1>1. toServer' \in [Conns -> Seq(Messages)]
    BY BreakLeaves DEF Typed
<1>2. PICK how \in {"lost", "silent"} : net' = [net EXCEPT ![k] = how]
    BY DEF Break
<1>3. TypeOK'
    BY <1>1, <1>2 DEF Typed, TypeOK, Break, client, server
<1>4. StageInv'
    BY <1>2 DEF Typed, TypeOK, StageInv, Break, client
<1> QED BY <1>3, <1>4 DEF Typed

-----------------------------------------------------------------------------
(* Phases.                                                                 *)

\* What each step of a client makes of the phases of its streams: connecting
\* joins one that is fresh.
LEMMA ConnectPhase ==
    ASSUME Typed, NEW l \in Lanes, Connect(l), NEW s \in Streams, LaneOf(s) = l
    PROVE  \/ s[3] = dev[l] /\ Phase(s) = "fresh" /\ Phase(s)' = "joined"
           \/ s[3] # dev[l] /\ Phase(s)' = Phase(s) /\ Phase(s) \in {"fresh", "opened"}
<1>1. pc[l] = "connect" /\ pc'[l] = "open" /\ dev' = dev /\ sendfile' = sendfile
    BY DEF Connect, Goto, Typed, TypeOK
<1>2. s[3] \in Nat /\ dev[l] \in Nat
    BY StreamParts, LaneConns
<1> QED BY <1>1, <1>2 DEF Phase

\* Sending the open of a device leaves those behind it waiting.
LEMMA OpenPhase ==
    ASSUME Typed, NEW l \in Lanes, Open(l), NEW s \in Streams, LaneOf(s) = l
    PROVE  \/ s[3] = dev[l] /\ Phase(s) = "joined" /\ Phase(s)' = "opening"
           \/ /\ s[3] # dev[l]
              /\ \/ Phase(s) = "opened" /\ Phase(s)' = "opened"
                 \/ Phase(s) = "fresh" /\ Phase(s)' \in {"fresh", "waiting"}
<1>1. pc[l] = "open" /\ pc'[l] = "ack" /\ dev' = dev /\ sendfile' = sendfile
    BY DEF Open, Goto, Typed, TypeOK
<1>2. s[3] \in Nat /\ dev[l] \in Nat
    BY StreamParts, LaneConns
<1> QED BY <1>1, <1>2 DEF Phase

\* The acknowledgement of an open lets the next device go.
LEMMA OpenAckedPhase ==
    ASSUME Typed, NEW l \in Lanes, OpenAcked(l), NEW s \in Streams, LaneOf(s) = l
    PROVE  \/ s[3] = dev[l] /\ Phase(s) = "opening" /\ Phase(s)' = "opened"
           \/ s[3] # dev[l] /\ Phase(s) = "opened" /\ Phase(s)' = "opened"
           \/ /\ s[3] # dev[l] /\ sendfile[l[1]]
              /\ Phase(s) = "fresh" /\ Phase(s)' = "fresh"
           \/ /\ s[3] # dev[l] /\ ~sendfile[l[1]]
              /\ Phase(s) = "waiting" /\ Phase(s)' \in {"joined", "fresh"}
<1>1. pc[l] = "ack" /\ sendfile' = sendfile /\ s[1] = l[1]
      /\ s[3] \in Nat /\ dev[l] \in Nat /\ s[3] <= NDevs[l[1]] /\ NDevs[l[1]] \in Nat
      /\ dev[l] <= NDevs[l[1]] /\ pc \in [Lanes -> Pcs] /\ dev \in [Lanes -> Devs]
    BY StreamParts, LaneConns DEF OpenAcked, Typed, TypeOK
<1>2. CASE dev[l] < NDevs[l[1]]
  <2>1. dev'[l] = dev[l] + 1
        /\ pc'[l] = IF sendfile[l[1]] THEN "connect" ELSE "open"
    BY <1>1, <1>2 DEF OpenAcked, ToDev, Goto
  <2> QED BY <1>1, <1>2, <2>1 DEF Phase
<1>3. CASE ~(dev[l] < NDevs[l[1]])
  <2>1. dev' = dev /\ pc'[l] = "ready"
    BY <1>1, <1>3 DEF OpenAcked, Goto
  <2>2. s[3] = dev[l] \/ s[3] < dev[l]
    BY <1>1, <1>3
  <2> QED BY <1>1, <2>1, <2>2 DEF Phase
<1> QED BY <1>2, <1>3

\* Starting to trace changes no phase.
LEMMA StartTracingPhase ==
    ASSUME Typed, NEW c \in Clients, StartTracing(c), NEW s \in Streams
    PROVE  Phase(s)' = Phase(s)
<1>1. LaneOf(s) \in Lanes /\ LaneOf(s)[1] = s[1] /\ LaneOf(s) \in LanesOf(s[1])
    BY StreamParts
<1>2. CASE s[1] = c
  <2>1. pc[LaneOf(s)] = "ready" /\ pc'[LaneOf(s)] = "trace"
    BY <1>1, <1>2 DEF StartTracing
  <2> QED BY <2>1 DEF StartTracing, Phase
<1>3. CASE s[1] # c
  <2>1. pc'[LaneOf(s)] = pc[LaneOf(s)]
    BY <1>1, <1>3 DEF StartTracing
  <2> QED BY <2>1, PhaseStays DEF StartTracing
<1> QED BY <1>2, <1>3

\* A CPU without an open connection ends at once; the others send their closes.
LEMMA StartClosePhase ==
    ASSUME Typed, NEW l \in Lanes, StartClose(l), NEW s \in Streams, LaneOf(s) = l
    PROVE  /\ Phase(s) = "opened"
           /\ \/ Phase(s)' = "opened"
              \/ /\ Phase(s)' = "ended" /\ fd[Of(s)] # "open"
<1>1. pc[l] = "trace" /\ sendfile' = sendfile /\ s[1] = l[1]
      /\ s[3] \in Nat /\ s[3] >= 1 /\ s[3] <= NDevs[l[1]] /\ NDevs[l[1]] \in Nat
      /\ pc \in [Lanes -> Pcs] /\ dev \in [Lanes -> Devs]
    BY StreamParts DEF StartClose, Typed, TypeOK
<1>2. CASE sendfile[l[1]]
  <2>1. dev'[l] = NDevs[l[1]] /\ pc'[l] = "close"
    BY <1>1, <1>2 DEF StartClose, ToDev, Goto
  <2> QED BY <1>1, <1>2, <2>1 DEF Phase
<1>3. CASE ~sendfile[l[1]] /\ fd[ConnOf(l, 1)] = "open"
  <2>1. dev'[l] = 1 /\ pc'[l] = "close"
    BY <1>1, <1>3 DEF StartClose, ToDev, Goto
  <2> QED BY <1>1, <1>3, <2>1 DEF Phase
<1>4. CASE ~sendfile[l[1]] /\ fd[ConnOf(l, 1)] # "open"
  <2>1. pc'[l] = "gone"
    BY <1>1, <1>4 DEF StartClose, Goto
  <2>2. Of(s) = ConnOf(l, 1)
    BY <1>1, <1>4 DEF Of, ConnOf
  <2> QED BY <1>1, <1>4, <2>1, <2>2 DEF Phase
<1> QED BY <1>2, <1>3, <1>4

\* Sending the close ends the device.
LEMMA SendClosePhase ==
    ASSUME Typed, NEW l \in Lanes, SendClose(l), NEW s \in Streams, LaneOf(s) = l
    PROVE  \/ s[3] = dev[l] /\ Phase(s) = "opened" /\ Phase(s)' = "ended"
           \/ s[3] # dev[l] /\ Phase(s)' = Phase(s) /\ Phase(s) \in {"opened", "ended"}
<1>1. pc[l] = "close" /\ pc'[l] = "test" /\ dev' = dev /\ sendfile' = sendfile
    BY DEF SendClose, Goto, Typed, TypeOK
<1>2. s[3] \in Nat /\ dev[l] \in Nat
    BY StreamParts, LaneConns
<1> QED BY <1>1, <1>2 DEF Phase

\* Looking at done changes no phase.
LEMMA TestDonePhase ==
    ASSUME Typed, NEW l \in Lanes, TestDone(l), NEW s \in Streams, LaneOf(s) = l
    PROVE  Phase(s)' = Phase(s)
<1>1. pc[l] = "test" /\ pc'[l] = "recv" /\ dev' = dev /\ sendfile' = sendfile
    BY DEF TestDone, Goto, Typed, TypeOK
<1> QED BY <1>1 DEF Phase

\* Nor does the acknowledgement of a close, whose device had ended.
LEMMA CloseAckedPhase ==
    ASSUME Typed, NEW l \in Lanes, CloseAcked(l), NEW s \in Streams, LaneOf(s) = l
    PROVE  /\ Phase(s)' = Phase(s) /\ Phase(s) \in {"opened", "ended"}
           /\ s[3] = dev[l] => Phase(s) = "ended"
           /\ dev[l] = (IF sendfile[l[1]] THEN 1 ELSE NDevs[l[1]]) =>
                 Phase(s) = "ended"
<1>1. pc[l] \in {"test", "recv"} /\ sendfile' = sendfile /\ s[1] = l[1]
      /\ s[3] \in Nat /\ s[3] >= 1 /\ s[3] <= NDevs[l[1]] /\ NDevs[l[1]] \in Nat
      /\ dev[l] \in Nat /\ pc \in [Lanes -> Pcs] /\ dev \in [Lanes -> Devs]
    BY StreamParts, LaneConns DEF CloseAcked, Typed, TypeOK
<1>2. CASE dev[l] = IF sendfile[l[1]] THEN 1 ELSE NDevs[l[1]]
  <2>1. pc'[l] = "gone"
    BY <1>1, <1>2 DEF CloseAcked, Goto
  <2> QED BY <1>1, <1>2, <2>1 DEF Phase
<1>3. CASE ~(dev[l] = IF sendfile[l[1]] THEN 1 ELSE NDevs[l[1]])
  <2>1. /\ dev'[l] = IF sendfile[l[1]] THEN dev[l] - 1 ELSE dev[l] + 1
        /\ pc'[l] = "close"
    BY <1>1, <1>3 DEF CloseAcked, ToDev, Goto
  <2> QED BY <1>1, <1>3, <2>1 DEF Phase
<1> QED BY <1>2, <1>3

\* A client that is killed has ended.
LEMMA KillPhase ==
    ASSUME Typed, NEW c \in Clients, Kill(c), NEW s \in Streams
    PROVE  IF s[1] = c THEN Phase(s)' = "ended" ELSE Phase(s)' = Phase(s)
<1>1. LaneOf(s) \in Lanes /\ LaneOf(s)[1] = s[1]
    BY StreamParts
<1>2. CASE s[1] = c
  <2>1. pc'[LaneOf(s)] = "gone"
    BY <1>1, <1>2 DEF Kill
  <2> QED BY <1>2, <2>1 DEF Phase
<1>3. CASE s[1] # c
  <2>1. pc'[LaneOf(s)] = pc[LaneOf(s)]
    BY <1>1, <1>3 DEF Kill
  <2> QED BY <1>3, <2>1, PhaseStays DEF Kill
<1> QED BY <1>2, <1>3

\* A client that has been told to stop has opened all its devices.
LEMMA StoppingPhase ==
    ASSUME Typed, NEW s \in Streams
    PROVE  /\ stage[s[1]] \in {"tracing", "stopping", "killed", "absent"} =>
                  Phase(s) \in {"opened", "ended"}
           /\ stage[s[1]] = "tracing" => Phase(s) = "opened"
<1>1. LaneOf(s) \in Lanes /\ LaneOf(s)[1] = s[1]
    BY StreamParts
<1>2. stage[s[1]] \in {"tracing", "stopping", "killed", "absent"} =>
          pc[LaneOf(s)] \in {"trace", "close", "test", "recv", "gone"}
    BY <1>1 DEF Typed, StageInv
<1>3. stage[s[1]] = "tracing" => pc[LaneOf(s)] = "trace"
    BY <1>1 DEF Typed, StageInv
<1> QED BY <1>2, <1>3 DEF Phase

-----------------------------------------------------------------------------
(* The clients' steps keep what is known of each stream.                   *)

\* A stream of another lane does not notice what happens on a connection.
LEMMA Elsewhere ==
    ASSUME NEW s \in Streams, NEW t \in Streams, LaneOf(s) # LaneOf(t)
    PROVE  Of(s) # Of(t)
BY OfParts

\* The views of a stream before and after a step, with their fields.
Seen(heard, s, v, w) ==
    /\ v = View(heard, s) /\ w = View(heard, s)'
    /\ v \in Views /\ w \in Views /\ Sound(s[3], v)
    /\ v.q = toServer[Of(s)] /\ w.q = toServer'[Of(s)]
    /\ v.acks = acks[Of(s)] /\ w.acks = acks'[Of(s)]
    /\ v.fd = fd[Of(s)] /\ w.fd = fd'[Of(s)]
    /\ v.net = net[Of(s)] /\ w.net = net'[Of(s)]
    /\ v.end = (IF dropped[Of(s)] THEN "closed" ELSE "open")
    /\ w.end = (IF dropped'[Of(s)] THEN "closed" ELSE "open")
    /\ v.stage = stage[s[1]] /\ w.stage = stage'[s[1]]
    /\ v.phase = Phase(s) /\ w.phase = Phase(s)'
    /\ v.sent = sent[s] /\ w.sent = sent'[s]
    /\ v.file = files[s] /\ w.file = files'[s]
    /\ v.heard = heard[s] /\ w.heard = heard[s]
    /\ Reaches(v) <=> (~Unreachable(Of(s)) /\ v.stage # "killed")

\* The two views of a stream around a step of a client.
LEMMA SeenParts ==
    ASSUME TypeOK, TypeOK', NEW heard \in Hearings, NEW s \in Streams,
           sendfile' = sendfile, Sound(s[3], View(heard, s))
    PROVE  \E v, w : Seen(heard, s, v, w)
<1>1. Of(s)' = Of(s)
    BY OfStays
<1>2. View(heard, s) \in Views /\ View(heard, s)' \in Views
    BY ViewIs, NextIs
<1>3. Reaches(View(heard, s)) <=>
          (~Unreachable(Of(s)) /\ View(heard, s).stage # "killed")
  <2>1. View(heard, s).net \in {"up", "lost", "silent", "short"}
    BY <1>2 DEF Views
  <2> QED BY <2>1, ViewParts DEF Reaches, Unreachable
<1>4. Seen(heard, s, View(heard, s), View(heard, s)')
    BY <1>1, <1>2, <1>3, ViewParts, NextParts DEF Seen
<1> QED BY <1>4

\* Connecting keeps every stream sound.
LEMMA ConnectSound ==
    ASSUME Typed, Typed', NEW heard \in Hearings, SoundAll(heard),
           NEW l \in Lanes, Connect(l)
    PROVE  SoundAll(heard)'
<1> SUFFICES ASSUME NEW s \in Streams PROVE Sound(s[3], View(heard, s)')
    BY DEF SoundAll
<1>1. Sound(s[3], View(heard, s)) /\ sendfile' = sendfile
    BY DEF SoundAll, Connect
<1>2. /\ UNCHANGED <<stage, sent, net, toServer, acks, dropped, files, dev>>
      /\ fd' = [fd EXCEPT ![Conn(l)] = "open"] /\ pc' = [pc EXCEPT ![l] = "open"]
    BY DEF Connect, server, Goto
<1>3. Conn(l) = Of(On(l, dev[l])) /\ On(l, dev[l]) \in Streams
      /\ LaneOf(On(l, dev[l])) = l
    BY LaneConns
<1>4. Of(s) \in Conns /\ LaneOf(s) \in Lanes
    BY OfParts, StreamParts
<1>5. CASE LaneOf(s) # l
  <2>1. Of(s) # Conn(l)
    BY <1>3, <1>5, Elsewhere
  <2>2. Phase(s)' = Phase(s)
    BY <1>1, <1>2, <1>5, PhaseStays
  <2>3. Still(s)
    BY <1>1, <1>2, <1>4, <2>1, <2>2 DEF Still, Typed, TypeOK
  <2> QED BY <1>1, <2>3, StillSound
<1>6. CASE LaneOf(s) = l
  <2>1. \/ s[3] = dev[l] /\ Phase(s) = "fresh" /\ Phase(s)' = "joined"
        \/ s[3] # dev[l] /\ Phase(s)' = Phase(s) /\ Phase(s) \in {"fresh", "opened"}
    BY <1>6, ConnectPhase
  <2>2. s[3] = dev[l] => fd'[Of(s)] = "open"
    <3>1. s = On(l, s[3])
      BY <1>6, StreamOn
    <3> QED BY <1>2, <1>3, <1>4, <3>1 DEF Typed, TypeOK
  <2>3. fd'[Of(s)] = "open" \/ fd'[Of(s)] = fd[Of(s)]
    BY <1>2, <1>4 DEF Typed, TypeOK
  <2>4. PICK v, w : Seen(heard, s, v, w)
    BY <1>1, SeenParts DEF Typed
  <2>5. w.fd = "open" \/ w.fd = v.fd
    BY <2>3, <2>4 DEF Seen
  <2>6. w.phase = "joined" => w.fd = "open"
    BY <2>1, <2>2, <2>4 DEF Seen
  <2>7. w.phase = v.phase \/ (v.phase = "fresh" /\ w.phase = "joined")
    BY <2>1, <2>4 DEF Seen
  <2>8. SameQueue(v, w) /\ w.acks = v.acks /\ w.stage = v.stage /\ w.sent = v.sent
    BY <1>2, <2>4 DEF SameQueue, Seen
  <2>9. PhaseOk(s[3], w)
    BY <2>4, <2>5, <2>6, <2>7, <2>8 DEF Seen, Sound, PhaseOk, SameQueue, Up, Reaches, Early
  <2>10. Sound(s[3], w)
    BY <2>4, <2>8, <2>9, MoveSound DEF Seen, Onward
  <2> QED BY <2>4, <2>10 DEF Seen
<1> QED BY <1>5, <1>6

\* The stage of the client of a lane that is somewhere.
LEMMA StageIs ==
    ASSUME Typed, NEW l \in Lanes
    PROVE  /\ pc[l] \in {"connect", "open", "ack", "ready"} => stage[l[1]] = "starting"
           /\ pc[l] = "trace" => stage[l[1]] \in {"tracing", "stopping"}
           /\ pc[l] \in {"close", "test", "recv"} => stage[l[1]] = "stopping"
<1>1. stage[l[1]] \in Stages
    BY LaneParts DEF Typed, TypeOK, Stages
<1> QED BY <1>1 DEF Typed, StageInv, Stages

\* A message is put on a connection that reaches the server, and nothing else.
LEMMA SendIs ==
    ASSUME TypeOK, NEW k \in Conns, NEW msg, Send(k, msg)
    PROVE  /\ \A j \in Conns : j # k => toServer'[j] = toServer[j]
           /\ IF Unreachable(k) THEN toServer'[k] = toServer[k]
              ELSE toServer'[k] = Append(toServer[k], msg)
BY DEF TypeOK, Send, Unreachable

\* So does sending an open: the server has not heard of the device.
LEMMA OpenSound ==
    ASSUME Typed, Typed', NEW heard \in Hearings, SoundAll(heard),
           NEW l \in Lanes, Open(l)
    PROVE  SoundAll(heard)'
<1> SUFFICES ASSUME NEW s \in Streams PROVE Sound(s[3], View(heard, s)')
    BY DEF SoundAll
<1>1. Sound(s[3], View(heard, s)) /\ sendfile' = sendfile
    BY DEF SoundAll, Open
<1>2. /\ UNCHANGED <<stage, sent, fd, net, acks, dropped, files, dev>>
      /\ pc' = [pc EXCEPT ![l] = "ack"] /\ pc[l] = "open"
      /\ Send(Conn(l), Opens(l))
    BY DEF Open, server, Goto
<1>3. Conn(l) = Of(On(l, dev[l])) /\ On(l, dev[l]) \in Streams
      /\ LaneOf(On(l, dev[l])) = l /\ Conn(l) \in Conns /\ dev[l] \in Devs
      /\ On(l, dev[l])[1] = l[1]
    BY LaneConns
<1>4. Of(s) \in Conns /\ LaneOf(s) \in Lanes
    BY OfParts, StreamParts
<1>5. /\ \A j \in Conns : j # Conn(l) => toServer'[j] = toServer[j]
      /\ IF Unreachable(Conn(l))
         THEN toServer'[Conn(l)] = toServer[Conn(l)]
         ELSE toServer'[Conn(l)] = Append(toServer[Conn(l)], Opens(l))
    BY <1>2, <1>3, SendIs DEF Typed
<1>6. CASE LaneOf(s) # l
  <2>1. Of(s) # Conn(l)
    BY <1>3, <1>6, Elsewhere
  <2>2. Phase(s)' = Phase(s)
    BY <1>1, <1>2, <1>6, PhaseStays
  <2>3. Still(s)
    BY <1>1, <1>2, <1>4, <1>5, <2>1, <2>2 DEF Still
  <2> QED BY <1>1, <2>3, StillSound
<1>7. CASE LaneOf(s) = l
  <2>1. \/ s[3] = dev[l] /\ Phase(s) = "joined" /\ Phase(s)' = "opening"
        \/ /\ s[3] # dev[l]
           /\ \/ Phase(s) = "opened" /\ Phase(s)' = "opened"
              \/ Phase(s) = "fresh" /\ Phase(s)' \in {"fresh", "waiting"}
    BY <1>7, OpenPhase
  <2>2. s[3] = dev[l] => Of(s) = Conn(l)
    BY <1>3, <1>7, StreamOn
  <2>3. PICK v, w : Seen(heard, s, v, w)
    BY <1>1, SeenParts DEF Typed
  <2>4. stage[s[1]] = "starting"
    BY <1>2, <1>7, StageIs, StreamOn
  <2>5. CASE toServer'[Of(s)] = toServer[Of(s)]
    <3>1. SameQueue(v, w) /\ w.acks = v.acks /\ w.stage = v.stage
          /\ w.sent = v.sent /\ w.fd = v.fd
      BY <1>2, <2>3, <2>5 DEF SameQueue, Seen
    <3>2. s[3] = dev[l] => ~Up(w)
      <4>1. ASSUME s[3] = dev[l], ~Unreachable(Conn(l)) PROVE FALSE
        <5>1. toServer[Conn(l)] = Append(toServer[Conn(l)], Opens(l))
          BY <1>5, <2>2, <2>5, <4>1
        <5>2. Opens(l) \in Messages /\ toServer[Conn(l)] \in Seq(Messages)
          BY <1>3, MessagesAre DEF Typed, TypeOK
        <5>3. Len(Append(toServer[Conn(l)], Opens(l))) = Len(toServer[Conn(l)]) + 1
              /\ Len(toServer[Conn(l)]) \in Nat
          BY <5>2, AppendParts
        <5> QED BY <5>1, <5>3
      <4>2. Reaches(w) => Reaches(v)
        BY <1>2, <2>3 DEF Seen, Reaches
      <4> QED BY <2>2, <2>3, <4>1, <4>2 DEF Seen, Up
    <3>3. PhaseOk(s[3], w)
      BY <2>1, <2>3, <3>1, <3>2 DEF Seen, Sound, PhaseOk, SameQueue, Up, Reaches, Early
    <3>4. Sound(s[3], w)
      BY <2>3, <3>1, <3>3, MoveSound DEF Seen, Onward
    <3> QED BY <2>3, <3>4 DEF Seen
  <2>6. CASE toServer'[Of(s)] # toServer[Of(s)]
    <3>1. /\ Of(s) = Conn(l) /\ ~Unreachable(Of(s))
          /\ toServer'[Of(s)] = Append(toServer[Of(s)], Opens(l))
      BY <1>4, <1>5, <2>6
    <3>2. /\ Opens(l) \in Messages /\ Opens(l).torn = "no"
          /\ Opens(l).dev = dev[l] /\ Opens(l).kind = "open"
      BY <1>3, MessagesAre DEF Opens
    <3>3. Sends(v, w, Opens(l)) /\ Up(v) /\ w.sent = v.sent
      BY <1>2, <2>3, <2>4, <3>1, <3>2 DEF Sends, Puts, Up, Seen
    <3>4. CASE s[3] = dev[l]
      <4>1. Sound(s[3], w)
        BY <2>1, <2>3, <3>2, <3>3, <3>4, SendFirst DEF Seen
      <4> QED BY <2>3, <4>1 DEF Seen
    <3>5. CASE s[3] # dev[l]
      <4>1. w.phase = v.phase \/ (v.phase = "fresh" /\ w.phase = "waiting")
        BY <2>1, <2>3, <3>5 DEF Seen
      <4>2. Sound(s[3], w)
        BY <2>3, <3>2, <3>3, <3>5, <4>1, SendOther DEF Seen
      <4> QED BY <2>3, <4>2 DEF Seen
    <3> QED BY <3>4, <3>5
  <2> QED BY <2>5, <2>6
<1> QED BY <1>6, <1>7

\* So does its acknowledgement, which says that the server has heard of it.
LEMMA OpenAckedSound ==
    ASSUME Typed, Typed', NEW heard \in Hearings, SoundAll(heard),
           NEW l \in Lanes, OpenAcked(l)
    PROVE  SoundAll(heard)'
<1> SUFFICES ASSUME NEW s \in Streams PROVE Sound(s[3], View(heard, s)')
    BY DEF SoundAll
<1>1. Sound(s[3], View(heard, s)) /\ sendfile' = sendfile
    BY DEF SoundAll, OpenAcked
<1>2. /\ UNCHANGED <<stage, sent, fd, net, toServer, dropped, files>>
      /\ pc[l] = "ack" /\ Receive(Conn(l))
      /\ \A q \in Lanes : q # l => pc'[q] = pc[q] /\ dev'[q] = dev[q]
    BY DEF OpenAcked, server, Goto, ToDev, Typed, TypeOK
<1>3. Conn(l) = Of(On(l, dev[l])) /\ On(l, dev[l]) \in Streams
      /\ LaneOf(On(l, dev[l])) = l /\ Conn(l) \in Conns /\ dev[l] \in Devs
      /\ On(l, dev[l])[1] = l[1] /\ On(l, dev[l])[3] = dev[l]
    BY LaneConns
<1>4. Of(s) \in Conns /\ LaneOf(s) \in Lanes
    BY OfParts, StreamParts
<1>5. /\ \A j \in Conns : j # Conn(l) => acks'[j] = acks[j]
      /\ \/ acks[Conn(l)] > 0 /\ acks'[Conn(l)] = acks[Conn(l)] - 1
         \/ Unreachable(Conn(l))
    BY <1>2, <1>3 DEF Typed, TypeOK, Receive, Unreachable
<1>6. CASE LaneOf(s) # l
  <2>1. Of(s) # Conn(l)
    BY <1>3, <1>6, Elsewhere
  <2>2. Phase(s)' = Phase(s)
    BY <1>1, <1>2, <1>4, <1>6, PhaseStays
  <2>3. Still(s)
    BY <1>1, <1>2, <1>4, <1>5, <2>1, <2>2 DEF Still
  <2> QED BY <1>1, <2>3, StillSound
<1>7. CASE LaneOf(s) = l
  <2>1. \/ s[3] = dev[l] /\ Phase(s) = "opening" /\ Phase(s)' = "opened"
        \/ s[3] # dev[l] /\ Phase(s) = "opened" /\ Phase(s)' = "opened"
        \/ /\ s[3] # dev[l] /\ sendfile[l[1]]
           /\ Phase(s) = "fresh" /\ Phase(s)' = "fresh"
        \/ /\ s[3] # dev[l] /\ ~sendfile[l[1]]
           /\ Phase(s) = "waiting" /\ Phase(s)' \in {"joined", "fresh"}
    BY <1>7, OpenAckedPhase
  <2>2. s[1] = l[1] /\ s = On(l, s[3])
    BY <1>7, StreamOn
  <2>3. PICK v, w : Seen(heard, s, v, w)
    BY <1>1, SeenParts DEF Typed
  <2>4. stage[s[1]] = "starting"
    BY <1>2, <2>2, StageIs
  <2>5. SameQueue(v, w) /\ w.stage = v.stage /\ w.sent = v.sent /\ w.fd = v.fd
    BY <1>2, <2>3 DEF SameQueue, Seen
  <2>6. CASE Of(s) # Conn(l)
    <3>1. w.acks = v.acks
      BY <1>4, <1>5, <2>3, <2>6 DEF Seen
    <3>2. s[3] # dev[l]
      BY <1>3, <2>2, <2>6
    <3>3. sendfile[l[1]]
      BY <1>3, <1>7, <2>2, <2>6, OfLane
    <3>4. w.phase = v.phase
      BY <2>1, <2>3, <3>2, <3>3 DEF Seen
    <3>5. PhaseOk(s[3], w)
      BY <2>3, <2>5, <3>1, <3>4 DEF Seen, Sound, PhaseOk, SameQueue, Up, Reaches
    <3>6. Sound(s[3], w)
      BY <2>3, <2>5, <3>5, MoveSound DEF Seen, Onward
    <3> QED BY <2>3, <3>6 DEF Seen
  <2>7. CASE Of(s) = Conn(l)
    <3>1. PICK t : t = On(l, dev[l]) /\ t \in Streams /\ t[1] = l[1] /\ LaneOf(t) = l
                   /\ t[3] = dev[l] /\ Of(t) = Conn(l)
      BY <1>3
    <3>2. Sound(t[3], View(heard, t))
      BY <3>1 DEF SoundAll
    <3>3. PICK x, y : Seen(heard, t, x, y)
      BY <1>1, <3>1, <3>2, SeenParts DEF Typed
    <3>4. Phase(t) = "opening"
      BY <3>1, OpenAckedPhase
    <3>5. ASSUME Up(v)
          PROVE  /\ v.acks = 1 /\ w.acks = 0 /\ v.fd = "open" /\ heard[t] = "open"
      <4>1. ~Unreachable(Of(s))
        BY <2>3, <3>5 DEF Seen, Up
      <4>2. Up(x)
        BY <2>2, <2>3, <2>7, <3>1, <3>3, <3>5 DEF Seen, Up
      <4>3. x.phase = "opening" /\ x.acks = v.acks /\ x.fd = v.fd /\ x.heard = heard[t]
        BY <2>3, <2>7, <3>1, <3>3, <3>4 DEF Seen
      <4>4. x.acks <= 1 /\ x.fd = "open" /\ (x.acks = 1 => x.heard = "open")
        BY <3>3, <4>2, <4>3 DEF Seen, Sound, PhaseOk
      <4>5. acks[Conn(l)] > 0 /\ acks'[Conn(l)] = acks[Conn(l)] - 1
        BY <1>5, <2>7, <4>1
      <4>6. v.acks > 0 /\ w.acks = v.acks - 1 /\ v.acks \in Nat
        BY <2>3, <2>7, <4>5 DEF Seen, Views
      <4> QED BY <4>3, <4>4, <4>6
    <3>6. \A i \in 1..Len(v.q) : v.q[i].dev = s[3] => v.q[i].kind # "close"
      BY <2>3, <2>4 DEF Seen, Sound, QueueOk
    <3>7. s[3] = dev[l] => s = t
      BY <2>2, <3>1
    <3>8. Phase(s) = "fresh" => FALSE
      <4>1. ASSUME Phase(s) = "fresh" PROVE s[3] # dev[l] /\ sendfile[s[1]]
        BY <2>1, <2>2, <4>1
      <4> QED BY <2>7, <3>1, <4>1, OfSame
    <3>9. \/ v.phase = "opening" /\ w.phase = "opened" /\ (Up(v) => v.heard = "open")
          \/ v.phase = "opened" /\ w.phase = "opened"
          \/ v.phase = "waiting" /\ w.phase \in {"joined", "fresh"}
      BY <2>1, <2>3, <3>5, <3>7, <3>8 DEF Seen
    <3>10. PhaseOk(s[3], w)
      BY <2>3, <2>5, <3>5, <3>6, <3>9 DEF Seen, Sound, PhaseOk, SameQueue, Up, Reaches, Early
    <3>11. Sound(s[3], w)
      BY <2>3, <2>5, <3>10, MoveSound DEF Seen, Onward
    <3> QED BY <2>3, <3>11 DEF Seen
  <2> QED BY <2>6, <2>7
<1> QED BY <1>6, <1>7

\* Starting and stopping keep every stream sound.
LEMMA StageSound ==
    ASSUME Typed, Typed', NEW heard \in Hearings, SoundAll(heard),
           NEW c \in Clients, StartTracing(c) \/ Stop(c)
    PROVE  SoundAll(heard)'
<1> SUFFICES ASSUME NEW s \in Streams PROVE Sound(s[3], View(heard, s)')
    BY DEF SoundAll
<1>1. Sound(s[3], View(heard, s)) /\ sendfile' = sendfile
    BY DEF SoundAll, StartTracing, Stop
<1>2. UNCHANGED <<sent, fd, net, toServer, acks, dropped, files>>
    BY DEF StartTracing, Stop, server
<1>3. Phase(s)' = Phase(s)
  <2>1. CASE StartTracing(c)
    BY <2>1, StartTracingPhase
  <2>2. CASE Stop(c)
    BY <1>1, <2>2, PhaseStays DEF Stop
  <2> QED BY <2>1, <2>2
<1>4. s[1] \in Clients
    BY StreamParts
<1>5. \/ stage'[s[1]] = stage[s[1]]
      \/ stage[s[1]] = "starting" /\ stage'[s[1]] = "tracing"
      \/ stage[s[1]] = "tracing" /\ stage'[s[1]] = "stopping"
    BY <1>4 DEF StartTracing, Stop, Typed, TypeOK
<1>6. PICK v, w : Seen(heard, s, v, w)
    BY <1>1, SeenParts DEF Typed
<1>7. SameQueue(v, w) /\ w.sent = v.sent /\ w.fd = v.fd /\ w.acks = v.acks
      /\ w.phase = v.phase
    BY <1>2, <1>3, <1>6 DEF SameQueue, Seen
<1>8. \/ w.stage = v.stage
      \/ v.stage = "starting" /\ w.stage = "tracing"
      \/ v.stage = "tracing" /\ w.stage = "stopping"
    BY <1>5, <1>6 DEF Seen
<1>9. Onward(v, w)
    BY <1>8 DEF Onward
<1>10. PhaseOk(s[3], w)
    BY <1>6, <1>7, <1>8 DEF Seen, Sound, PhaseOk, SameQueue, Up, Reaches
<1>11. Sound(s[3], w)
    BY <1>6, <1>7, <1>9, <1>10, MoveSound DEF Seen
<1> QED BY <1>6, <1>11 DEF Seen

\* A piece of data is sent, or the connection is gone and nobody gets it.
LEMMA SendDataSound ==
    ASSUME Typed, Typed', NEW heard \in Hearings, SoundAll(heard),
           NEW l \in Lanes, NEW d \in DevsOf(l[1]), SendData(l, d)
    PROVE  SoundAll(heard)'
<1> SUFFICES ASSUME NEW s \in Streams PROVE Sound(s[3], View(heard, s)')
    BY DEF SoundAll
<1>1. Sound(s[3], View(heard, s)) /\ sendfile' = sendfile
    BY DEF SoundAll, SendData
<1>2. PICK t : /\ t = On(l, d) /\ t \in Streams /\ t[3] = d /\ LaneOf(t) = l
               /\ t[1] = l[1] /\ Of(t) = ConnOf(l, d) /\ d \in Devs
    BY LaneParts, ConnIs
<1>3. Of(s) \in Conns /\ LaneOf(s) \in Lanes /\ Of(t) \in Conns
    BY <1>2, OfParts, StreamParts
<1>4. /\ UNCHANGED <<stage, pc, dev, net, acks, dropped, files>>
      /\ sent' = [sent EXCEPT ![t] = sent[t] + 1] /\ pc[l] = "trace"
      /\ IF fd[Of(t)] = "open" THEN Send(Of(t), Piece(d, sent[t] + 1))
         ELSE UNCHANGED toServer
      /\ \A k \in Conns : k # Of(t) => fd'[k] = fd[k]
      /\ ~Unreachable(Of(t)) => fd' = fd
  <2>1. t = <<l[1], l[2], d>>
    BY <1>2 DEF On
  <2>2. fd \in [Conns -> {"none", "open", "closed"}]
    BY DEF Typed, TypeOK
  <2> QED BY <1>2, <1>3, <2>1, <2>2 DEF SendData, server
<1>5. Phase(s)' = Phase(s)
    BY <1>1, <1>4, PhaseStays
<1>6. sent \in [Streams -> Nat]
    BY DEF Typed, TypeOK
<1>7. /\ \A k \in Conns : k # Of(t) => toServer'[k] = toServer[k]
      /\ IF fd[Of(t)] # "open" \/ Unreachable(Of(t))
         THEN toServer'[Of(t)] = toServer[Of(t)]
         ELSE toServer'[Of(t)] = Append(toServer[Of(t)], Piece(d, sent[t] + 1))
    BY <1>3, <1>4, SendIs DEF Typed
<1>8. CASE Of(s) # Of(t)
  <2>1. sent'[s] = sent[s]
    BY <1>4, <1>6, <1>8
  <2>2. Still(s)
    BY <1>1, <1>3, <1>4, <1>5, <1>7, <1>8, <2>1 DEF Still
  <2> QED BY <1>1, <2>2, StillSound
<1>9. CASE Of(s) = Of(t)
  <2>1. LaneOf(s) = l /\ s[1] = l[1] /\ (s[3] = d => s = t)
    BY <1>2, <1>9, OfSame
  <2>2. Phase(s) = "opened" /\ stage[s[1]] \in {"tracing", "stopping"}
    BY <1>4, <2>1, StageIs DEF Phase
  <2>3. PICK v, w : Seen(heard, s, v, w)
    BY <1>1, SeenParts DEF Typed
  <2>4. /\ v.phase = "opened" /\ w.phase = "opened" /\ w.stage = v.stage
        /\ v.stage \in {"tracing", "stopping"} /\ w.net = v.net /\ w.end = v.end
        /\ w.acks = v.acks /\ w.file = v.file /\ w.heard = v.heard
        /\ v.sent \in Nat /\ w.sent = IF s = t THEN v.sent + 1 ELSE v.sent
    BY <1>4, <1>5, <1>6, <2>2, <2>3 DEF Seen
  <2>5. CASE fd[Of(t)] # "open" \/ Unreachable(Of(t))
    <3>1. ~Up(v)
      BY <1>9, <2>3, <2>4, <2>5 DEF Seen, Up, Sound, PhaseOk
    <3>2. Down(w)
      BY <2>3, <2>4, <3>1 DEF Up, Down, Seen, Views, Reaches
    <3>3. w.q = v.q
      BY <1>7, <1>9, <2>3, <2>5 DEF Seen
    <3>4. Onward(v, w) /\ w.sent >= v.sent
      BY <2>4 DEF Onward
    <3>5. Sound(s[3], v) /\ v \in Views /\ w \in Views
      BY <2>3 DEF Seen
    <3>6. ~(w.phase \in Early \cup {"opening"}) /\ w.stage # "absent"
      BY <2>4 DEF Early
    <3>7. Sound(s[3], w)
      BY <2>4, <3>2, <3>3, <3>4, <3>5, <3>6, DownSound
    <3> QED BY <2>3, <3>7 DEF Seen
  <2>6. CASE ~(fd[Of(t)] # "open" \/ Unreachable(Of(t)))
    <3>1. fd' = fd
      BY <1>4, <2>6 DEF Unreachable
    <3> DEFINE msg == Piece(d, sent[t] + 1)
    <3>2. /\ msg \in Messages /\ msg.torn = "no" /\ msg.dev = d
          /\ msg.kind = "data" /\ msg.n = sent[t] + 1
      BY <1>2, <1>6, MessagesAre DEF Piece
    <3>3. w.q = Append(v.q, msg) /\ w.fd = v.fd /\ Reaches(v)
      BY <1>7, <1>9, <2>3, <2>4, <2>6, <3>1 DEF Seen
    <3> HIDE DEF msg
    <3>4. Sends(v, w, msg) /\ Up(v)
      BY <2>4, <3>2, <3>3 DEF Sends, Puts, Up
    <3>5. Sound(s[3], v) /\ v \in Views /\ w \in Views
      BY <2>3 DEF Seen
    <3>6. CASE s = t
      <4>1. w.sent = v.sent + 1 /\ msg.n = w.sent /\ msg.dev = s[3]
        BY <1>2, <2>3, <2>4, <3>2, <3>6 DEF Seen
      <4>2. Sound(s[3], w)
        BY <2>4, <3>2, <3>4, <3>5, <4>1, SendNext
      <4> QED BY <2>3, <4>2 DEF Seen
    <3>7. CASE s # t
      <4>1. msg.dev # s[3] /\ w.sent = v.sent
        BY <2>1, <2>4, <3>2, <3>7
      <4>2. Sound(s[3], w)
        BY <2>4, <3>4, <3>5, <4>1, SendOther
      <4> QED BY <2>3, <4>2 DEF Seen
    <3> QED BY <3>6, <3>7
  <2> QED BY <2>5, <2>6
<1> QED BY <1>8, <1>9

\* A part of a piece is sent.
LEMMA SendPartSound ==
    ASSUME Typed, Typed', NEW heard \in Hearings, SoundAll(heard),
           NEW l \in Lanes, NEW d \in DevsOf(l[1]), SendPart(l, d)
    PROVE  SoundAll(heard)'
<1> SUFFICES ASSUME NEW s \in Streams PROVE Sound(s[3], View(heard, s)')
    BY DEF SoundAll
<1>1. Sound(s[3], View(heard, s)) /\ sendfile' = sendfile
    BY DEF SoundAll, SendPart
<1>2. PICK t : /\ t = On(l, d) /\ t \in Streams /\ t[3] = d /\ LaneOf(t) = l
               /\ t[1] = l[1] /\ Of(t) = ConnOf(l, d) /\ d \in Devs
    BY LaneParts, ConnIs
<1>3. Of(s) \in Conns /\ LaneOf(s) \in Lanes /\ Of(t) \in Conns
    BY <1>2, OfParts, StreamParts
<1> DEFINE msg == [Piece(d, sent[t] + 1) EXCEPT !.torn = "payload"]
<1>4. /\ UNCHANGED <<stage, pc, dev, fd, acks, dropped, files>>
      /\ sent' = [sent EXCEPT ![t] = sent[t] + 1] /\ pc[l] = "trace"
      /\ net' = [net EXCEPT ![Of(t)] = "short"] /\ sendfile[l[1]]
      /\ ~Unreachable(Of(t)) /\ Send(Of(t), msg)
  <2>1. t = <<l[1], l[2], d>>
    BY <1>2 DEF On
  <2> QED BY <1>2, <1>3, <2>1 DEF SendPart, server
<1>5. Phase(s)' = Phase(s)
    BY <1>1, <1>4, PhaseStays
<1>6. sent \in [Streams -> Nat] /\ net \in [Conns -> {"up", "lost", "silent", "short"}]
    BY DEF Typed, TypeOK
<1>7. /\ msg \in Messages /\ msg.torn # "no" /\ msg.dev = d
      /\ msg.kind = "data" /\ msg.n = sent[t] + 1
  <2>1. msg = [kind |-> "data", dev |-> d, n |-> sent[t] + 1, torn |-> "payload"]
    BY DEF Piece
  <2>2. sent[t] + 1 \in Nat
    BY <1>2, <1>6
  <2> QED BY <1>2, <2>1, <2>2 DEF Messages
<1> HIDE DEF msg
<1>8. /\ \A k \in Conns : k # Of(t) => toServer'[k] = toServer[k] /\ net'[k] = net[k]
      /\ toServer'[Of(t)] = Append(toServer[Of(t)], msg)
      /\ net'[Of(t)] = "short"
    BY <1>3, <1>4, <1>6, SendIs DEF Typed
<1>9. CASE Of(s) # Of(t)
  <2>1. sent'[s] = sent[s]
    BY <1>4, <1>6, <1>9
  <2>2. Still(s)
    BY <1>1, <1>3, <1>4, <1>5, <1>8, <1>9, <2>1 DEF Still
  <2> QED BY <1>1, <2>2, StillSound
<1>10. CASE Of(s) = Of(t)
  <2>1. s = t
    BY <1>2, <1>4, <1>10, OfSame
  <2>2. Phase(s) = "opened" /\ stage[s[1]] \in {"tracing", "stopping"}
    BY <1>2, <1>4, <2>1, StageIs DEF Phase
  <2>3. PICK v, w : Seen(heard, s, v, w)
    BY <1>1, SeenParts DEF Typed
  <2>4. /\ v.phase = "opened" /\ w.phase = "opened" /\ w.stage = v.stage
        /\ v.stage \in {"tracing", "stopping"} /\ w.net = "short" /\ w.end = v.end
        /\ w.acks = v.acks /\ w.file = v.file /\ w.heard = v.heard /\ w.fd = v.fd
        /\ w.sent = v.sent + 1 /\ msg.n = w.sent /\ msg.dev = s[3]
        /\ w.q = Append(v.q, msg) /\ Reaches(v)
    BY <1>2, <1>4, <1>5, <1>6, <1>7, <1>8, <2>1, <2>2, <2>3 DEF Seen
  <2>5. SendsPart(v, w, msg) /\ Up(v)
    BY <1>7, <2>4 DEF SendsPart, Puts, Up
  <2>6. Sound(s[3], v) /\ v \in Views /\ w \in Views
    BY <2>3 DEF Seen
  <2>7. Sound(s[3], w)
    BY <1>7, <2>4, <2>5, <2>6, SendNext
  <2> QED BY <2>3, <2>7 DEF Seen
<1> QED BY <1>9, <1>10

\* A CPU starts to close; without a connection it has ended.
LEMMA StartCloseSound ==
    ASSUME Typed, Typed', NEW heard \in Hearings, SoundAll(heard),
           NEW l \in Lanes, StartClose(l)
    PROVE  SoundAll(heard)'
<1> SUFFICES ASSUME NEW s \in Streams PROVE Sound(s[3], View(heard, s)')
    BY DEF SoundAll
<1>1. Sound(s[3], View(heard, s)) /\ sendfile' = sendfile
    BY DEF SoundAll, StartClose
<1>2. /\ UNCHANGED <<stage, sent, fd, net, toServer, acks, dropped, files>>
      /\ \A q \in Lanes : q # l => pc'[q] = pc[q] /\ dev'[q] = dev[q]
    BY DEF StartClose, ToDev, Goto, server, Typed, TypeOK
<1>3. LaneOf(s) \in Lanes
    BY StreamParts
<1>4. CASE Phase(s)' = Phase(s)
  <2>1. Still(s)
    BY <1>1, <1>2, <1>4 DEF Still
  <2> QED BY <1>1, <2>1, StillSound
<1>5. CASE Phase(s)' # Phase(s)
  <2>1. LaneOf(s) = l
    BY <1>1, <1>2, <1>3, <1>5, PhaseStays
  <2>2. Phase(s) = "opened" /\ Phase(s)' = "ended" /\ fd[Of(s)] # "open"
    BY <1>5, <2>1, StartClosePhase
  <2>3. PICK v, w : Seen(heard, s, v, w)
    BY <1>1, SeenParts DEF Typed
  <2>4. /\ v.phase = "opened" /\ w.phase = "ended" /\ w.stage = v.stage
        /\ w.sent = v.sent /\ v.fd # "open"
    BY <1>2, <2>2, <2>3 DEF Seen
  <2>5. SameQueue(v, w)
    BY <1>2, <2>3 DEF Seen, SameQueue
  <2>6. ~Up(v)
    BY <2>3, <2>4 DEF Seen, Sound, PhaseOk
  <2>7. ~Up(w) /\ PhaseOk(s[3], w)
    BY <2>3, <2>4, <2>5, <2>6 DEF Seen, Sound, PhaseOk, Up, Reaches, SameQueue, Early
  <2>8. Sound(s[3], w)
    BY <2>3, <2>4, <2>5, <2>7, MoveSound DEF Seen, Onward
  <2> QED BY <2>3, <2>8 DEF Seen
<1> QED BY <1>4, <1>5

\* The close of a device is sent after all its data.
LEMMA SendCloseSound ==
    ASSUME Typed, Typed', NEW heard \in Hearings, SoundAll(heard),
           NEW l \in Lanes, SendClose(l)
    PROVE  SoundAll(heard)'
<1> SUFFICES ASSUME NEW s \in Streams PROVE Sound(s[3], View(heard, s)')
    BY DEF SoundAll
<1>1. Sound(s[3], View(heard, s)) /\ sendfile' = sendfile
    BY DEF SoundAll, SendClose
<1>2. /\ UNCHANGED <<stage, sent, fd, net, acks, dropped, files, dev>>
      /\ pc' = [pc EXCEPT ![l] = "test"] /\ pc[l] = "close"
      /\ Send(Conn(l), Closes(l))
    BY DEF SendClose, server, Goto
<1>3. Conn(l) = Of(On(l, dev[l])) /\ On(l, dev[l]) \in Streams
      /\ LaneOf(On(l, dev[l])) = l /\ Conn(l) \in Conns /\ dev[l] \in Devs
      /\ On(l, dev[l])[1] = l[1]
    BY LaneConns
<1>4. Of(s) \in Conns /\ LaneOf(s) \in Lanes
    BY OfParts, StreamParts
<1>5. /\ \A j \in Conns : j # Conn(l) => toServer'[j] = toServer[j]
      /\ IF Unreachable(Conn(l))
         THEN toServer'[Conn(l)] = toServer[Conn(l)]
         ELSE toServer'[Conn(l)] = Append(toServer[Conn(l)], Closes(l))
    BY <1>2, <1>3, SendIs DEF Typed
<1>6. CASE LaneOf(s) # l
  <2>1. Of(s) # Conn(l)
    BY <1>3, <1>6, Elsewhere
  <2>2. Phase(s)' = Phase(s)
    BY <1>1, <1>2, <1>6, PhaseStays
  <2>3. Still(s)
    BY <1>1, <1>2, <1>4, <1>5, <2>1, <2>2 DEF Still
  <2> QED BY <1>1, <2>3, StillSound
<1>7. CASE LaneOf(s) = l
  <2>1. \/ s[3] = dev[l] /\ Phase(s) = "opened" /\ Phase(s)' = "ended"
        \/ s[3] # dev[l] /\ Phase(s)' = Phase(s) /\ Phase(s) \in {"opened", "ended"}
    BY <1>7, SendClosePhase
  <2>2. s[3] = dev[l] => Of(s) = Conn(l)
    BY <1>3, <1>7, StreamOn
  <2>3. PICK v, w : Seen(heard, s, v, w)
    BY <1>1, SeenParts DEF Typed
  <2>4. stage[s[1]] = "stopping"
    BY <1>2, <1>7, StageIs, StreamOn
  <2>5. CASE toServer'[Of(s)] = toServer[Of(s)]
    <3>1. SameQueue(v, w) /\ w.acks = v.acks /\ w.stage = v.stage
          /\ w.sent = v.sent /\ w.fd = v.fd
      BY <1>2, <2>3, <2>5 DEF SameQueue, Seen
    <3>2. s[3] = dev[l] => ~Up(w)
      <4>1. ASSUME s[3] = dev[l], ~Unreachable(Conn(l)) PROVE FALSE
        <5>1. toServer[Conn(l)] = Append(toServer[Conn(l)], Closes(l))
          BY <1>5, <2>2, <2>5, <4>1
        <5>2. Closes(l) \in Messages /\ toServer[Conn(l)] \in Seq(Messages)
          BY <1>3, MessagesAre DEF Typed, TypeOK
        <5>3. Len(Append(toServer[Conn(l)], Closes(l))) = Len(toServer[Conn(l)]) + 1
              /\ Len(toServer[Conn(l)]) \in Nat
          BY <5>2, AppendParts
        <5> QED BY <5>1, <5>3
      <4>2. Reaches(w) => Reaches(v)
        BY <1>2, <2>3 DEF Seen, Reaches
      <4> QED BY <2>2, <2>3, <4>1, <4>2 DEF Seen, Up
    <3>3. PhaseOk(s[3], w)
      BY <2>1, <2>3, <3>1, <3>2 DEF Seen, Sound, PhaseOk, SameQueue, Up, Reaches, Early
    <3>4. Sound(s[3], w)
      BY <2>3, <3>1, <3>3, MoveSound DEF Seen, Onward
    <3> QED BY <2>3, <3>4 DEF Seen
  <2>6. CASE toServer'[Of(s)] # toServer[Of(s)]
    <3>1. /\ Of(s) = Conn(l) /\ ~Unreachable(Of(s))
          /\ toServer'[Of(s)] = Append(toServer[Of(s)], Closes(l))
      BY <1>4, <1>5, <2>6
    <3>2. /\ Closes(l) \in Messages /\ Closes(l).torn = "no"
          /\ Closes(l).dev = dev[l] /\ Closes(l).kind = "close"
      BY <1>3, MessagesAre DEF Closes
    <3>3. Sends(v, w, Closes(l)) /\ Up(v) /\ w.sent = v.sent /\ v.stage = "stopping"
      BY <1>2, <2>3, <2>4, <3>1, <3>2 DEF Sends, Puts, Up, Seen
    <3>4. CASE s[3] = dev[l]
      <4>1. Sound(s[3], w)
        BY <2>1, <2>3, <3>2, <3>3, <3>4, SendLast DEF Seen
      <4> QED BY <2>3, <4>1 DEF Seen
    <3>5. CASE s[3] # dev[l]
      <4>1. w.phase = v.phase
        BY <2>1, <2>3, <3>5 DEF Seen
      <4>2. Sound(s[3], w)
        BY <2>3, <3>2, <3>3, <3>5, <4>1, SendOther DEF Seen
      <4> QED BY <2>3, <4>2 DEF Seen
    <3> QED BY <3>4, <3>5
  <2> QED BY <2>5, <2>6
<1> QED BY <1>6, <1>7

\* A tracer waits for the acknowledgement of its close.
LEMMA TestDoneSound ==
    ASSUME Typed, Typed', NEW heard \in Hearings, SoundAll(heard),
           NEW l \in Lanes, TestDone(l)
    PROVE  SoundAll(heard)'
<1> SUFFICES ASSUME NEW s \in Streams PROVE Sound(s[3], View(heard, s)')
    BY DEF SoundAll
<1>1. Sound(s[3], View(heard, s)) /\ sendfile' = sendfile
    BY DEF SoundAll, TestDone
<1>2. UNCHANGED <<stage, sent, fd, net, toServer, acks, dropped, files, dev>>
      /\ pc' = [pc EXCEPT ![l] = "recv"]
    BY DEF TestDone, Goto, server
<1>3. Phase(s)' = Phase(s)
  <2>1. CASE LaneOf(s) = l
    BY <2>1, TestDonePhase
  <2>2. CASE LaneOf(s) # l
    BY <1>1, <1>2, <2>2, PhaseStays
  <2> QED BY <2>1, <2>2
<1>4. Still(s)
    BY <1>1, <1>2, <1>3 DEF Still
<1> QED BY <1>1, <1>4, StillSound

\* The close of a device is over, and perhaps that of its connection.
LEMMA CloseAckedSound ==
    ASSUME Typed, Typed', NEW heard \in Hearings, SoundAll(heard),
           NEW l \in Lanes, CloseAcked(l)
    PROVE  SoundAll(heard)'
<1> SUFFICES ASSUME NEW s \in Streams PROVE Sound(s[3], View(heard, s)')
    BY DEF SoundAll
<1>1. Sound(s[3], View(heard, s)) /\ sendfile' = sendfile
    BY DEF SoundAll, CloseAcked
<1>2. /\ UNCHANGED <<stage, sent, net, toServer, dropped, files>>
      /\ \A q \in Lanes : q # l => pc'[q] = pc[q] /\ dev'[q] = dev[q]
    BY DEF CloseAcked, server, Goto, ToDev, Typed, TypeOK
<1>3. Conn(l) = Of(On(l, dev[l])) /\ On(l, dev[l]) \in Streams
      /\ LaneOf(On(l, dev[l])) = l /\ Conn(l) \in Conns
      /\ On(l, dev[l])[1] = l[1] /\ On(l, dev[l])[3] = dev[l]
    BY LaneConns
<1>4. Of(s) \in Conns /\ LaneOf(s) \in Lanes
    BY OfParts, StreamParts
<1>5. \A k \in Conns : k # Conn(l) => acks'[k] = acks[k] /\ fd'[k] = fd[k]
  <2>1. acks \in [Conns -> Nat] /\ fd \in [Conns -> {"none", "open", "closed"}]
    BY DEF Typed, TypeOK
  <2> QED BY <1>3, <2>1 DEF CloseAcked, Receive
<1>6. CASE LaneOf(s) # l
  <2>1. Of(s) # Conn(l)
    BY <1>3, <1>6, Elsewhere
  <2>2. Phase(s)' = Phase(s)
    BY <1>1, <1>2, <1>4, <1>6, PhaseStays
  <2>3. Still(s)
    BY <1>1, <1>2, <1>4, <1>5, <2>1, <2>2 DEF Still
  <2> QED BY <1>1, <2>3, StillSound
<1>7. CASE LaneOf(s) = l
  <2>1. /\ Phase(s)' = Phase(s) /\ Phase(s) \in {"opened", "ended"}
        /\ s[3] = dev[l] => Phase(s) = "ended"
        /\ dev[l] = (IF sendfile[l[1]] THEN 1 ELSE NDevs[l[1]]) =>
              Phase(s) = "ended"
    BY <1>7, CloseAckedPhase
  <2>2. Phase(s) = "opened" => fd'[Of(s)] = fd[Of(s)]
    <3>1. CASE Of(s) # Conn(l)
      BY <1>4, <1>5, <3>1
    <3>2. ASSUME Of(s) = Conn(l), Phase(s) = "opened" PROVE fd' = fd
      <4>1. ~sendfile[l[1]]
        <5>1. sendfile[l[1]] => s = On(l, dev[l])
          BY <1>3, <3>2, OfSame
        <5> QED BY <1>3, <2>1, <3>2, <5>1
      <4>2. dev[l] # NDevs[l[1]]
        BY <2>1, <3>2, <4>1
      <4> QED BY <4>1, <4>2 DEF CloseAcked
    <3> QED BY <3>1, <3>2
  <2>3. PICK v, w : Seen(heard, s, v, w)
    BY <1>1, SeenParts DEF Typed
  <2>4. /\ SameQueue(v, w) /\ w.stage = v.stage /\ w.sent = v.sent
        /\ w.phase = v.phase /\ v.phase \in {"opened", "ended"}
        /\ v.phase = "opened" => w.fd = v.fd
    BY <1>2, <2>1, <2>2, <2>3 DEF Seen, SameQueue
  <2>5. PhaseOk(s[3], w)
    BY <2>3, <2>4 DEF Seen, Sound, PhaseOk, SameQueue, Up, Reaches, Early
  <2>6. Sound(s[3], w)
    BY <2>3, <2>4, <2>5, MoveSound DEF Seen, Onward
  <2> QED BY <2>3, <2>6 DEF Seen
<1> QED BY <1>6, <1>7

\* A client is killed.
LEMMA KillSound ==
    ASSUME Typed, Typed', NEW heard \in Hearings, SoundAll(heard),
           NEW c \in Clients, Kill(c)
    PROVE  SoundAll(heard)'
<1> SUFFICES ASSUME NEW s \in Streams PROVE Sound(s[3], View(heard, s)')
    BY DEF SoundAll
<1>1. Sound(s[3], View(heard, s)) /\ sendfile' = sendfile
    BY DEF SoundAll, Kill
<1>2. /\ UNCHANGED <<sent, net, toServer, acks, dropped, files>>
      /\ \A k \in Conns : k[1] # c => fd'[k] = fd[k]
      /\ \A q \in Clients : stage'[q] = IF q = c THEN "killed" ELSE stage[q]
    BY DEF Kill, server, Typed, TypeOK
<1>3. Of(s) \in Conns /\ Of(s)[1] = s[1] /\ s[1] \in Clients
    BY OfParts, StreamParts
<1>4. IF s[1] = c THEN Phase(s)' = "ended" ELSE Phase(s)' = Phase(s)
    BY KillPhase
<1>5. CASE s[1] # c
  <2>1. Still(s)
    BY <1>1, <1>2, <1>3, <1>4, <1>5 DEF Still
  <2> QED BY <1>1, <2>1, StillSound
<1>6. CASE s[1] = c
  <2>1. PICK v, w : Seen(heard, s, v, w)
    BY <1>1, SeenParts DEF Typed
  <2>2. /\ w.stage = "killed" /\ w.phase = "ended" /\ w.q = v.q /\ w.net = v.net
        /\ w.file = v.file /\ w.heard = v.heard /\ w.sent = v.sent
    BY <1>2, <1>3, <1>4, <1>6, <2>1 DEF Seen
  <2>3. w.sent >= v.sent
    BY <2>1, <2>2 DEF Seen, Views
  <2>4. Sound(s[3], w)
    BY <2>1, <2>2, <2>3, DownSound DEF Seen, Onward, Down, Early
  <2> QED BY <2>1, <2>4 DEF Seen
<1> QED BY <1>5, <1>6

\* The network loses a connection.
LEMMA BreakSound ==
    ASSUME Typed, Typed', NEW heard \in Hearings, SoundAll(heard),
           NEW k \in Conns, Break(k)
    PROVE  SoundAll(heard)'
<1> SUFFICES ASSUME NEW s \in Streams PROVE Sound(s[3], View(heard, s)')
    BY DEF SoundAll
<1>1. Sound(s[3], View(heard, s)) /\ sendfile' = sendfile
    BY DEF SoundAll, Break, client
<1>2. /\ UNCHANGED <<stage, sent, fd, acks, dropped, files, pc, dev>>
      /\ net[k] = "up"
    BY DEF Break, client, server, Undamaged
<1>3. Of(s) \in Conns
    BY OfParts
<1>4. Phase(s)' = Phase(s)
    BY <1>1, <1>2, PhaseStays
<1>5. /\ \A j \in Conns : j # k => toServer'[j] = toServer[j]
      /\ Len(toServer'[k]) <= Len(toServer[k])
      /\ \A i \in 1..Len(toServer'[k]) :
            /\ toServer'[k][i].dev = toServer[k][i].dev
            /\ toServer'[k][i].kind = toServer[k][i].kind
            /\ toServer'[k][i].n = toServer[k][i].n
            /\ toServer'[k][i].torn = toServer[k][i].torn
                  \/ i = Len(toServer'[k])
    BY BreakLeaves DEF Typed
<1>6. net'[k] \in {"lost", "silent"} /\ \A j \in Conns : j # k => net'[j] = net[j]
  <2>1. PICK how \in {"lost", "silent"} : net' = [net EXCEPT ![k] = how]
    BY DEF Break
  <2> QED BY <2>1 DEF Typed, TypeOK
<1>7. CASE Of(s) # k
  <2>1. Still(s)
    BY <1>1, <1>2, <1>3, <1>4, <1>5, <1>6, <1>7 DEF Still
  <2> QED BY <1>1, <2>1, StillSound
<1>8. CASE Of(s) = k
  <2>1. PICK v, w : Seen(heard, s, v, w)
    BY <1>1, SeenParts DEF Typed
  <2>2. /\ v.net = "up" /\ w.net \in {"lost", "silent"}
        /\ w.end = v.end /\ w.stage = v.stage
        /\ w.phase = v.phase /\ w.sent = v.sent /\ w.file = v.file
        /\ w.heard = v.heard
    BY <1>2, <1>4, <1>6, <1>8, <2>1 DEF Seen
  <2>3. /\ Len(w.q) <= Len(v.q)
        /\ \A i \in 1..Len(w.q) :
              /\ w.q[i].dev = v.q[i].dev /\ w.q[i].kind = v.q[i].kind
              /\ w.q[i].n = v.q[i].n
              /\ w.q[i].torn = v.q[i].torn \/ i = Len(w.q)
    BY <1>5, <1>8, <2>1 DEF Seen
  <2>4. Sound(s[3], v) /\ v \in Views /\ w \in Views
    BY <2>1 DEF Seen
  <2>5. Sound(s[3], w)
    BY <2>2, <2>3, <2>4, CutSound
  <2> QED BY <2>1, <2>5 DEF Seen
<1> QED BY <1>7, <1>8

-----------------------------------------------------------------------------
(* The clients' steps keep the invariant.                                  *)

\* Messages that are of devices of their connection.
Routed(k, d) == d \in DevsOf(k[1]) /\ Of(On(LaneOf(k), d)) = k

\* What was on its way keeps to its way, and what comes new is on it.
LEMMA RouteKept ==
    ASSUME RouteInv, sendfile' = sendfile,
           \A k \in Conns : \A i \in 1..Len(toServer'[k]) :
               \/ \E j \in 1..Len(toServer[k]) :
                     toServer'[k][i].dev = toServer[k][j].dev
               \/ Routed(k, toServer'[k][i].dev)
    PROVE  RouteInv'
<1>1. ASSUME NEW k \in Conns, NEW i \in 1..Len(toServer'[k])
      PROVE  Routed(k, toServer'[k][i].dev)
    BY <1>1 DEF RouteInv, Routed
<1> QED BY <1>1 DEF RouteInv, Routed, Of, ConnOf, On, LaneOf

\* What a lane sends about a device is on its way.
LEMMA SendRoute ==
    ASSUME Typed, RouteInv, sendfile' = sendfile, NEW k \in Conns,
           NEW msg \in Messages, Send(k, msg), Routed(k, msg.dev)
    PROVE  RouteInv'
<1>1. /\ \A j \in Conns : j # k => toServer'[j] = toServer[j]
      /\ IF Unreachable(k) THEN toServer'[k] = toServer[k]
         ELSE toServer'[k] = Append(toServer[k], msg)
    BY SendIs DEF Typed
<1>2. toServer[k] \in Seq(Messages)
    BY DEF Typed, TypeOK
<1>3. /\ Len(Append(toServer[k], msg)) = Len(toServer[k]) + 1
      /\ \A i \in 1..Len(toServer[k]) : Append(toServer[k], msg)[i] = toServer[k][i]
      /\ Append(toServer[k], msg)[Len(toServer[k]) + 1] = msg
      /\ \A i \in 1..Len(toServer[k]) + 1 : i \in 1..Len(toServer[k])
                                               \/ i = Len(toServer[k]) + 1
    BY <1>2, AppendParts
<1>4. ASSUME NEW j \in Conns, NEW i \in 1..Len(toServer'[j])
      PROVE  \/ \E n \in 1..Len(toServer[j]) :
                   toServer'[j][i].dev = toServer[j][n].dev
             \/ Routed(j, toServer'[j][i].dev)
    BY <1>1, <1>3, <1>4
<1> QED BY <1>4, RouteKept

\* The device of a lane is on the way of its connection.
LEMMA LaneRoute ==
    ASSUME NEW l \in Lanes, NEW d \in DevsOf(l[1])
    PROVE  Routed(ConnOf(l, d), d)
<1>1. On(l, d) \in Streams /\ LaneOf(On(l, d)) = l /\ On(l, d)[1] = l[1]
      /\ ConnOf(l, d) = Of(On(l, d))
    BY LaneParts, ConnIs
<1>2. LaneOf(ConnOf(l, d)) = l /\ ConnOf(l, d)[1] = l[1]
    BY <1>1, OfParts
<1> QED BY <1>1, <1>2 DEF Routed

\* A step of a client leaves what the server keeps.
LEMMA ClientKeeps ==
    ASSUME NetInv, UNCHANGED server, sendfile' = sendfile, Typed', RouteInv',
           \A heard \in Hearings : SoundAll(heard) => SoundAll(heard)'
    PROVE  NetInv'
<1>1. PICK heard \in Hearings : Told(heard)
    BY DEF NetInv
<1>2. \A s : Of(s)' = Of(s)
    BY OfStays
<1>3. \A k, d : Known(k, d)' = Known(k, d)
    BY DEF Known, HostOfConn, server
<1>4. HeardInv(heard)'
    BY <1>1, <1>2, <1>3 DEF Told, HeardInv, Counted, server
<1>5. SoundAll(heard)'
    BY <1>1 DEF Told
<1>6. ScanInv'
    BY DEF NetInv, ScanInv, ReadyFrom, server
<1>7. OneDirectory'
    BY DEF NetInv, OneDirectory, server
<1>8. Told(heard)'
    BY <1>4, <1>5 DEF Told
<1>9. \E h \in Hearings : Told(h)'
    BY <1>8
<1> QED BY <1>6, <1>7, <1>9 DEF NetInv, Typed

\* A step of one CPU of a client keeps the invariant.
LEMMA LaneStep ==
    ASSUME NetInv, NEW l \in Lanes, Lane(l) PROVE NetInv'
<1>0. Typed /\ RouteInv
    BY DEF NetInv, Typed
<1>1. sendfile' = sendfile /\ UNCHANGED server
    BY DEF Lane, Connect, Open, OpenAcked, StartClose, SendClose, TestDone,
           CloseAcked
<1>2. Typed'
    BY <1>0, ConnectTypes, OpenTypes, OpenAckedTypes, StartCloseTypes,
       SendCloseTypes, TestDoneTypes, CloseAckedTypes DEF Lane
<1>3. \A heard \in Hearings : SoundAll(heard) => SoundAll(heard)'
    BY <1>0, <1>2, ConnectSound, OpenSound, OpenAckedSound, StartCloseSound,
       SendCloseSound, TestDoneSound, CloseAckedSound DEF Lane
<1>4. Conn(l) \in Conns /\ Routed(Conn(l), dev[l]) /\ dev[l] \in Devs
    BY <1>0, LaneConns, LaneRoute DEF Conn
<1>5. CASE Open(l)
  <2>1. Send(Conn(l), Opens(l)) /\ Opens(l) \in Messages /\ Opens(l).dev = dev[l]
    BY <1>4, <1>5, MessagesAre DEF Open, Opens
  <2>2. RouteInv'
    BY <1>0, <1>1, <1>4, <2>1, SendRoute
  <2> QED BY <1>1, <1>2, <1>3, <2>2, ClientKeeps
<1>6. CASE SendClose(l)
  <2>1. Send(Conn(l), Closes(l)) /\ Closes(l) \in Messages /\ Closes(l).dev = dev[l]
    BY <1>4, <1>6, MessagesAre DEF SendClose, Closes
  <2>2. RouteInv'
    BY <1>0, <1>1, <1>4, <2>1, SendRoute
  <2> QED BY <1>1, <1>2, <1>3, <2>2, ClientKeeps
<1>7. CASE ~Open(l) /\ ~SendClose(l)
  <2>1. toServer' = toServer
    BY <1>7 DEF Lane, Connect, OpenAcked, StartClose, TestDone, CloseAcked
  <2>2. RouteInv'
    BY <1>0, <1>1, <2>1, RouteKept
  <2> QED BY <1>1, <1>2, <1>3, <2>2, ClientKeeps
<1> QED BY <1>5, <1>6, <1>7

\* So does a piece of data.
LEMMA SendDataStep ==
    ASSUME NetInv, NEW l \in Lanes, NEW d \in DevsOf(l[1]), SendData(l, d)
    PROVE  NetInv'
<1>0. Typed /\ RouteInv
    BY DEF NetInv, Typed
<1>1. sendfile' = sendfile /\ UNCHANGED server
    BY DEF SendData
<1>2. Typed'
    BY <1>0, SendDataTypes
<1>3. \A heard \in Hearings : SoundAll(heard) => SoundAll(heard)'
    BY <1>0, <1>2, SendDataSound
<1>4. Routed(ConnOf(l, d), d) /\ ConnOf(l, d) \in Conns
    BY LaneRoute, ConnIs, LaneParts, OfParts
<1>5. CASE toServer' = toServer
    BY <1>0, <1>1, <1>2, <1>3, <1>5, RouteKept, ClientKeeps
<1>6. CASE toServer' # toServer
  <2> DEFINE n == sent[<<l[1], l[2], d>>] + 1
  <2>1. Send(ConnOf(l, d), Piece(d, n)) /\ Piece(d, n).dev = d
    BY <1>6 DEF SendData, Piece
  <2>2. <<l[1], l[2], d>> = On(l, d) /\ On(l, d) \in Streams /\ d \in Devs
    BY LaneParts DEF On
  <2>3. Piece(d, n) \in Messages
    <3>1. sent \in [Streams -> Nat]
      BY <1>0 DEF Typed, TypeOK
    <3>2. n \in Nat
      BY <2>2, <3>1
    <3> HIDE DEF n
    <3> QED BY <2>2, <3>2, MessagesAre
  <2>4. RouteInv'
    BY <1>0, <1>1, <1>4, <2>1, <2>3, SendRoute
  <2> QED BY <1>1, <1>2, <1>3, <2>4, ClientKeeps
<1> QED BY <1>5, <1>6

\* So does a part of one.
LEMMA SendPartStep ==
    ASSUME NetInv, NEW l \in Lanes, NEW d \in DevsOf(l[1]), SendPart(l, d)
    PROVE  NetInv'
<1>0. Typed /\ RouteInv
    BY DEF NetInv, Typed
<1>1. sendfile' = sendfile /\ UNCHANGED server
    BY DEF SendPart
<1>2. Typed'
    BY <1>0, SendPartTypes
<1>3. \A heard \in Hearings : SoundAll(heard) => SoundAll(heard)'
    BY <1>0, <1>2, SendPartSound
<1>4. Routed(ConnOf(l, d), d) /\ ConnOf(l, d) \in Conns
    BY LaneRoute, ConnIs, LaneParts, OfParts
<1> DEFINE n == sent[<<l[1], l[2], d>>] + 1
           msg == [Piece(d, n) EXCEPT !.torn = "payload"]
<1>5. Send(ConnOf(l, d), msg)
    BY DEF SendPart
<1>6. msg \in Messages /\ msg.dev = d
  <2>1. <<l[1], l[2], d>> = On(l, d) /\ On(l, d) \in Streams /\ d \in Devs
    BY LaneParts DEF On
  <2>2. n \in Nat
    <3>1. sent \in [Streams -> Nat]
      BY <1>0 DEF Typed, TypeOK
    <3> QED BY <2>1, <3>1
  <2> HIDE DEF n
  <2>3. msg = [kind |-> "data", dev |-> d, n |-> n, torn |-> "payload"]
    BY DEF Piece
  <2> QED BY <2>1, <2>2, <2>3 DEF Messages
<1> HIDE DEF msg
<1>7. RouteInv'
    BY <1>0, <1>1, <1>4, <1>5, <1>6, SendRoute
<1> QED BY <1>1, <1>2, <1>3, <1>7, ClientKeeps

\* So does what happens to a client as a whole.
LEMMA ClientStep ==
    ASSUME NetInv, NEW c \in Clients, StartTracing(c) \/ Stop(c) \/ Kill(c)
    PROVE  NetInv'
<1>0. Typed /\ RouteInv
    BY DEF NetInv, Typed
<1>1. sendfile' = sendfile /\ UNCHANGED server /\ toServer' = toServer
    BY DEF StartTracing, Stop, Kill
<1>2. Typed'
    BY <1>0, StartTracingTypes, StopTypes, KillTypes
<1>3. \A heard \in Hearings : SoundAll(heard) => SoundAll(heard)'
    BY <1>0, <1>2, StageSound, KillSound
<1>4. RouteInv'
    BY <1>0, <1>1, RouteKept
<1> QED BY <1>1, <1>2, <1>3, <1>4, ClientKeeps

\* So does the loss of a connection.
LEMMA BreakStep ==
    ASSUME NetInv, NEW k \in Conns, Break(k) PROVE NetInv'
<1>0. Typed /\ RouteInv
    BY DEF NetInv, Typed
<1>1. sendfile' = sendfile /\ UNCHANGED server
    BY DEF Break, client
<1>2. Typed'
    BY <1>0, BreakTypes
<1>3. \A heard \in Hearings : SoundAll(heard) => SoundAll(heard)'
    BY <1>0, <1>2, BreakSound
<1>4. /\ \A j \in Conns : j # k => toServer'[j] = toServer[j]
      /\ Len(toServer'[k]) <= Len(toServer[k])
      /\ \A i \in 1..Len(toServer'[k]) : toServer'[k][i].dev = toServer[k][i].dev
    BY <1>0, BreakLeaves DEF Typed
<1>5. Len(toServer[k]) \in Nat /\ Len(toServer'[k]) \in Nat
    BY <1>0, <1>2 DEF Typed, TypeOK
<1>6. RouteInv'
    BY <1>0, <1>1, <1>4, <1>5, RouteKept
<1> QED BY <1>1, <1>2, <1>3, <1>6, ClientKeeps

\* So does a step in which nothing happens.
LEMMA StutterStep == ASSUME NetInv, UNCHANGED vars PROVE NetInv'
<1>1. UNCHANGED <<client, server, sendfile, toServer>>
    BY DEF vars, client
<1>2. Typed'
    BY DEF NetInv, Typed, TypeOK, StageInv, vars, client, server
<1>3. ASSUME NEW heard \in Hearings, SoundAll(heard) PROVE SoundAll(heard)'
  <2>1. ASSUME NEW s \in Streams PROVE Still(s)
    BY PhaseStays DEF Still, vars, client, server
  <2>2. ASSUME NEW s \in Streams PROVE Sound(s[3], View(heard, s)')
    BY <1>3, <2>1, StillSound DEF SoundAll
  <2> QED BY <2>2 DEF SoundAll
<1>4. RouteInv'
    BY <1>1, RouteKept DEF NetInv
<1> QED BY <1>1, <1>2, <1>3, <1>4, ClientKeeps

-----------------------------------------------------------------------------
(* Numbers.                                                                *)

\* A set of numbers has a least one.
LEMMA LeastOf ==
    ASSUME NEW T, T \subseteq Nat, T # {}
    PROVE  \E x \in T : \A y \in T : ~(y < x)
<1> DEFINE R == OpToRel(<, Nat)
<1>1. IsWellFoundedOn(R, Nat)
    BY NatLessThanWellFounded, Zenon
<1>2. \E x \in T : \A y \in T : <<y, x>> \notin R
  <2> HIDE DEF R
  <2> QED BY <1>1, WFMin
<1>3. \A x, y \in Nat : y < x => <<y, x>> \in R
    BY SMT DEF OpToRel
<1> QED BY <1>2, <1>3

\* It is the one Min chooses.
LEMMA MinIs ==
    ASSUME NEW T, T \subseteq Nat, T # {}
    PROVE  Min(T) \in T /\ \A y \in T : Min(T) <= y
<1>1. \E x \in T : \A y \in T : x <= y
  <2>1. PICK x \in T : \A y \in T : ~(y < x)
    BY LeastOf
  <2>2. \A y \in T : x <= y
    BY <2>1
  <2> QED BY <2>2
<1> QED BY <1>1, Zenon DEF Min

\* A bounded set has a greatest, the one Max chooses.
LEMMA MaxIs ==
    ASSUME NEW n \in Nat, NEW T, T \subseteq 1..n, T # {}
    PROVE  Max(T) \in T /\ \A y \in T : Max(T) >= y
<1> DEFINE U == {n - x : x \in T}
<1>1. U \subseteq Nat /\ U # {}
  <2>1. \A x \in T : n - x \in Nat
    OBVIOUS
  <2>2. PICK x \in T : TRUE
    OBVIOUS
  <2>3. n - x \in U
    BY <2>2
  <2> QED BY <2>1, <2>3
<1>2. PICK u \in U : \A y \in U : ~(y < u)
    BY <1>1, LeastOf
<1>3. PICK x \in T : u = n - x
    BY <1>2
<1>4. ASSUME NEW y \in T PROVE x >= y
  <2>1. ~(n - y < n - x)
    BY <1>2, <1>3
  <2> QED BY <2>1
<1>5. \E z \in T : \A y \in T : z >= y
    BY <1>4
<1> QED BY <1>5, Zenon DEF Max

\* Induction up to m: a set that holds 0 and, with each n below m, n + 1.
LEMMA InductionUpTo ==
    ASSUME NEW S, NEW m \in Nat, 0 \in S,
           \A n \in 0..m - 1 : n \in S => n + 1 \in S
    PROVE  0..m \subseteq S
<1> SUFFICES ASSUME 0..m \ S # {} PROVE FALSE
    OBVIOUS
<1>1. PICK x \in 0..m \ S : \A y \in 0..m \ S : ~(y < x)
  <2>1. 0..m \ S \subseteq Nat
    OBVIOUS
  <2> QED BY <2>1, LeastOf
<1>2. x - 1 \in 0..m - 1 /\ x - 1 < x
    BY <1>1
<1>3. x - 1 \in S
    BY <1>1, <1>2
<1> QED BY <1>1, <1>2, <1>3

-----------------------------------------------------------------------------
(* The connections that stay on the list.                                  *)

\* A numbering of a set in its order.
InOrder(f, n) == \A i, j \in 1..n : i < j => f[i] < f[j]

\* Every set of numbers up to n can be numbered in its order.
LEMMA OrderExists ==
    ASSUME NEW n \in Nat, NEW T, T \subseteq 1..n
    PROVE  /\ IsFiniteSet(T) /\ Cardinality(T) \in Nat
           /\ \E f \in [1..Cardinality(T) -> T] : InOrder(f, Cardinality(T))
<1> DEFINE B(m) == T \cap (1..m)
           S == {m \in 0..n : \E f \in [1..Cardinality(B(m)) -> B(m)] :
                                 InOrder(f, Cardinality(B(m)))}
<1>1. IsFiniteSet(T) /\ \A m \in 0..n : IsFiniteSet(B(m)) /\ Cardinality(B(m)) \in Nat
  <2>1. IsFiniteSet(1..n)
    BY FS_Interval
  <2>2. IsFiniteSet(T)
    BY <2>1, FS_Subset
  <2>3. ASSUME NEW m \in 0..n PROVE IsFiniteSet(B(m)) /\ Cardinality(B(m)) \in Nat
    <3>1. B(m) \in SUBSET T
      OBVIOUS
    <3>2. IsFiniteSet(B(m))
      BY <2>2, <3>1, FS_Subset
    <3> QED BY <3>2, FS_CardinalityType
  <2> QED BY <2>2, <2>3
<1>2. 0 \in S
  <2>1. B(0) = {}
    BY SMT
  <2>2. Cardinality(B(0)) = 0
    BY <2>1, FS_EmptySet
  <2>3. 1..0 = {}
    OBVIOUS
  <2>4. [x \in {} |-> x] \in [1..Cardinality(B(0)) -> B(0)]
    BY <2>1, <2>2, <2>3
  <2>5. InOrder([x \in {} |-> x], Cardinality(B(0)))
    BY <2>2, <2>3 DEF InOrder
  <2>6. 0 \in 0..n
    OBVIOUS
  <2> HIDE DEF B
  <2>7. \E f \in [1..Cardinality(B(0)) -> B(0)] : InOrder(f, Cardinality(B(0)))
    BY <2>4, <2>5
  <2> QED BY <2>6, <2>7
<1>3. ASSUME NEW m \in 0..n - 1, m \in S PROVE m + 1 \in S
  <2>1. PICK f \in [1..Cardinality(B(m)) -> B(m)] : InOrder(f, Cardinality(B(m)))
    BY <1>3
  <2>2. m \in 0..n /\ m + 1 \in 0..n
    OBVIOUS
  <2>3. CASE m + 1 \notin T
    <3>1. B(m + 1) = B(m)
      BY <2>3
    <3> HIDE DEF B
    <3> QED BY <2>1, <2>2, <3>1
  <2>4. CASE m + 1 \in T
    <3> DEFINE N == Cardinality(B(m))
               g == [i \in 1..N + 1 |-> IF i = N + 1 THEN m + 1 ELSE f[i]]
    <3>1. B(m + 1) = B(m) \cup {m + 1} /\ m + 1 \notin B(m)
      BY <2>4
    <3>2. \A x \in B(m) : x < m + 1
      OBVIOUS
    <3>3. \A x \in B(m) : x \in B(m + 1)
      BY <3>1
    <3>4. m + 1 \in B(m + 1)
      BY <3>1
    <3>5. N \in Nat /\ IsFiniteSet(B(m))
      BY <1>1, <2>2
    <3> HIDE DEF B
    <3>6. Cardinality(B(m + 1)) = N + 1
      BY <3>1, <3>5, FS_AddElement
    <3>7. \A i \in 1..N + 1 : i = N + 1 \/ i \in 1..N
      BY <3>5
    <3>8. \A i \in 1..N : f[i] \in B(m)
      BY <2>1
    <3>9. g \in [1..N + 1 -> B(m + 1)]
      BY <3>3, <3>4, <3>7, <3>8
    <3>10. InOrder(g, N + 1)
      <4>1. ASSUME NEW i \in 1..N + 1, NEW j \in 1..N + 1, i < j
            PROVE  g[i] < g[j]
        <5>1. i \in 1..N
          BY <3>5, <3>7, <4>1
        <5>2. g[i] = f[i] /\ f[i] \in B(m)
          BY <3>5, <3>8, <5>1
        <5>3. CASE j = N + 1
          BY <3>2, <5>2, <5>3
        <5>4. CASE j \in 1..N
          BY <2>1, <3>5, <4>1, <5>1, <5>2, <5>4 DEF InOrder
        <5> QED BY <3>7, <5>3, <5>4
      <4> QED BY <4>1 DEF InOrder
    <3> HIDE DEF g, N
    <3>11. \E h \in [1..Cardinality(B(m + 1)) -> B(m + 1)] :
               InOrder(h, Cardinality(B(m + 1)))
      BY <3>6, <3>9, <3>10
    <3> QED BY <2>2, <3>11
  <2> QED BY <2>3, <2>4
<1>4. n \in S
  <2> HIDE DEF S
  <2>1. 0..n \subseteq S
    BY <1>2, <1>3, InductionUpTo
  <2> QED BY <2>1
<1>5. B(n) = T
    OBVIOUS
<1>6. Cardinality(T) \in Nat
    BY <1>1, FS_CardinalityType
<1> HIDE DEF B
<1> QED BY <1>1, <1>4, <1>5, <1>6

\* A numbering in order numbers all.
LEMMA OrderCovers ==
    ASSUME NEW n \in Nat, NEW T, T \subseteq 1..n,
           NEW f \in [1..Cardinality(T) -> T], InOrder(f, Cardinality(T))
    PROVE  \A t \in T : \E i \in 1..Cardinality(T) : f[i] = t
<1> DEFINE N == Cardinality(T)
<1>1. IsFiniteSet(T) /\ N \in Nat
    BY OrderExists
<1>6. f \in [1..N -> T] /\ InOrder(f, N) /\ T \subseteq Nat
    BY SMT
<1> HIDE DEF N
<1>2. \A i, j \in 1..N : f[i] = f[j] => i = j
  <2>1. ASSUME NEW i \in 1..N, NEW j \in 1..N, f[i] = f[j], i < j PROVE FALSE
    <3>1. f[i] < f[j] /\ f[i] \in Nat /\ f[j] \in Nat
      BY <1>6, <2>1 DEF InOrder
    <3> QED BY <2>1, <3>1
  <2>2. \A i, j \in 1..N : i = j \/ i < j \/ j < i
    BY <1>1
  <2> QED BY <2>1, <2>2
<1>3. f \in Injection(1..N, T)
    BY <1>2 DEF Injection, IsInjective, N
<1>4. Cardinality(1..N) = N
    BY <1>1, FS_Interval
<1>5. f \in Surjection(1..N, T)
    BY <1>1, <1>3, <1>4, FS_Injection DEF N
<1> QED BY <1>5 DEF Surjection, N

\* Of the connections of a list those that are not gone are kept.
LEMMA KeptIs ==
    ASSUME NEW conns \in Seq(Conns), NEW gone
    PROVE  /\ Kept(conns, gone) \in Seq(Conns)
           /\ \A j \in 1..Len(conns) : conns[j] \notin gone =>
                 \E i \in 1..Len(Kept(conns, gone)) : Kept(conns, gone)[i] = conns[j]
<1> DEFINE T == {j \in DOMAIN conns : conns[j] \notin gone}
           N == Cardinality(T)
           f == CHOOSE g \in [1..N -> T] :
                    \A i, j \in 1..N : i < j => g[i] < g[j]
<1>1. Len(conns) \in Nat /\ T \subseteq 1..Len(conns)
    OBVIOUS
<1>2. \A j \in T : conns[j] \in Conns
    OBVIOUS
<1>3. \A j \in 1..Len(conns) : conns[j] \notin gone => j \in T
    OBVIOUS
<1>4. Kept(conns, gone) = [i \in 1..N |-> conns[f[i]]]
    BY Zenon DEF Kept
<1> HIDE DEF T
<1>5. N \in Nat /\ f \in [1..N -> T] /\ InOrder(f, N)
  <2>1. N \in Nat /\ \E g \in [1..N -> T] : \A i, j \in 1..N : i < j => g[i] < g[j]
    BY <1>1, OrderExists DEF InOrder
  <2>2. f \in [1..N -> T] /\ \A i, j \in 1..N : i < j => f[i] < f[j]
    BY <2>1, Zenon
  <2> QED BY <2>1, <2>2 DEF InOrder
<1> HIDE DEF f
<1>6. \A t \in T : \E i \in 1..N : f[i] = t
    BY <1>1, <1>5, OrderCovers
<1> HIDE DEF N
<1>7. Kept(conns, gone) \in Seq(Conns) /\ Len(Kept(conns, gone)) = N
    BY <1>2, <1>4, <1>5
<1>8. ASSUME NEW j \in 1..Len(conns), conns[j] \notin gone
      PROVE  \E i \in 1..Len(Kept(conns, gone)) : Kept(conns, gone)[i] = conns[j]
  <2>1. PICK i \in 1..N : f[i] = j
    BY <1>3, <1>6, <1>8
  <2>2. Kept(conns, gone)[i] = conns[j]
    BY <1>4, <2>1
  <2> QED BY <1>7, <2>1, <2>2
<1> QED BY <1>7, <1>8

-----------------------------------------------------------------------------
(* The scan.                                                               *)

\* What poll says of a connection.
Polled == [nc : Conns, in : BOOLEAN]

\* Where a scan that has found as many as it looks for goes on.
LEMMA ScanGoes ==
    ASSUME NEW p \in Nat \ {0}, NEW said \in Seq(Polled),
           NEW conns \in Seq(Conns), Len(said) <= Len(conns),
           \A j \in 1..Len(said) : said[j].nc = conns[j],
           ScanFrom(p, Cardinality(ReadyFrom(said, p)), said, conns),
           conn_list' = conns
    PROVE  /\ ScanInv' /\ srv' \in {"poll", "scan"} /\ pos' \in Nat
           /\ events' \in Nat /\ pfds' \in Seq(Polled)
<1> DEFINE rest == {j \in p..Len(conns) : j > Len(said) \/ said[j].in}
           left == Cardinality(ReadyFrom(said, p))
<1>0. Len(said) \in Nat /\ Len(conns) \in Nat /\ p \in Nat /\ p >= 1
    OBVIOUS
<1>1. IsFiniteSet(ReadyFrom(said, p)) /\ left \in Nat
  <2>1. ReadyFrom(said, p) \in SUBSET (1..Len(said))
    BY DEF ReadyFrom
  <2>2. IsFiniteSet(1..Len(said))
    BY <1>0, FS_Interval
  <2>3. IsFiniteSet(ReadyFrom(said, p))
    BY <2>1, <2>2, FS_Subset
  <2> QED BY <2>3, FS_CardinalityType
<1>2. CASE left = 0 \/ rest = {}
  <2>1. srv' = "poll" /\ pos' = 1 /\ events' = 0 /\ pfds' = <<>>
    BY <1>2 DEF ScanFrom
  <2>2. <<>> \in Seq(Polled)
    OBVIOUS
  <2> QED BY <2>1, <2>2 DEF ScanInv
<1>3. CASE ~(left = 0 \/ rest = {})
  <2>1. srv' = "scan" /\ pos' = Min(rest) /\ events' = left /\ pfds' = said
    BY <1>3 DEF ScanFrom
  <2>2. rest \subseteq Nat /\ rest # {}
    BY <1>0, <1>3
  <2> DEFINE m == Min(rest)
  <2>3. m \in rest /\ \A y \in rest : m <= y
    BY <2>2, MinIs
  <2>4. PICK j \in ReadyFrom(said, p) : TRUE
    BY <1>1, <1>3, FS_EmptySet
  <2>5. j \in rest /\ j \in 1..Len(said)
    BY <1>0, <2>4 DEF ReadyFrom
  <2>6. m \in 1..Len(said) /\ said[m].in /\ m >= p /\ m \in Nat
    <3>1. m <= j /\ m \in p..Len(conns)
      BY <2>3, <2>5
    <3>2. m \in 1..Len(said)
      <4> HIDE DEF m
      <4> QED BY <1>0, <2>5, <3>1
    <3>3. ~(m > Len(said))
      <4> HIDE DEF m
      <4> QED BY <1>0, <3>2
    <3>4. said[m].in
      BY <2>3, <3>3
    <3> HIDE DEF m
    <3> QED BY <1>0, <3>1, <3>2, <3>4
  <2>7. ReadyFrom(said, p) = ReadyFrom(said, m)
    <3>1. ASSUME NEW i \in ReadyFrom(said, p) PROVE i \in ReadyFrom(said, m)
      <4>1. i \in rest
        BY <1>0, <3>1 DEF ReadyFrom
      <4>2. m <= i
        BY <2>3, <4>1
      <4> HIDE DEF m
      <4> QED BY <2>6, <3>1, <4>2 DEF ReadyFrom
    <3>2. ASSUME NEW i \in ReadyFrom(said, m) PROVE i \in ReadyFrom(said, p)
      <4> HIDE DEF m
      <4> QED BY <1>0, <2>6, <3>2 DEF ReadyFrom
    <3> QED BY <3>1, <3>2
  <2> HIDE DEF m, rest
  <2>8. pos' = m /\ ReadyFrom(pfds', pos') = ReadyFrom(said, p)
    BY <2>1, <2>7 DEF m
  <2>9. ReadyFrom(pfds, pos)' = ReadyFrom(said, p)
    BY <2>8 DEF ReadyFrom
  <2>10. ScanInv'
    BY <1>0, <2>1, <2>6, <2>8, <2>9 DEF ScanInv
  <2> QED BY <1>1, <2>1, <2>6, <2>8, <2>10
<1> QED BY <1>2, <1>3

\* The scan goes on behind the connection it has dealt with.
LEMMA GoOnGoes ==
    ASSUME NetInv, srv = "scan", GoOn(events - 1), conn_list' = conn_list
    PROVE  /\ ScanInv' /\ srv' \in {"poll", "scan"} /\ pos' \in Nat
           /\ events' \in Nat /\ pfds' \in Seq(Polled)
<1>1. /\ pfds \in Seq(Polled) /\ conn_list \in Seq(Conns)
      /\ Len(pfds) <= Len(conn_list)
      /\ \A j \in 1..Len(pfds) : pfds[j].nc = conn_list[j]
      /\ pos \in 1..Len(pfds) /\ pfds[pos].in /\ pos \in Nat
      /\ events = Cardinality(ReadyFrom(pfds, pos)) /\ Len(pfds) \in Nat
    BY DEF NetInv, TypeOK, Polled, ScanInv
<1>2. IsFiniteSet(ReadyFrom(pfds, pos))
  <2>1. ReadyFrom(pfds, pos) \in SUBSET (1..Len(pfds))
    BY DEF ReadyFrom
  <2>2. IsFiniteSet(1..Len(pfds))
    <3>1. PICK m \in Int : m = Len(pfds)
      BY <1>1
    <3>2. IsFiniteSet(1..m)
      BY <3>1, FS_Interval
    <3> QED BY <3>1, <3>2
  <2> QED BY <2>1, <2>2, FS_Subset
<1>3. pos \in ReadyFrom(pfds, pos)
    BY <1>1 DEF ReadyFrom
<1>4. ReadyFrom(pfds, pos + 1) = ReadyFrom(pfds, pos) \ {pos}
    BY <1>1 DEF ReadyFrom
<1>5. Cardinality(ReadyFrom(pfds, pos + 1)) = events - 1
    BY <1>1, <1>2, <1>3, <1>4, FS_RemoveElement
<1>6. ScanFrom(pos + 1, Cardinality(ReadyFrom(pfds, pos + 1)), pfds, conn_list)
    BY <1>5 DEF GoOn
<1>7. pos + 1 \in Nat \ {0}
    BY <1>1
<1> QED BY <1>1, <1>6, <1>7, ScanGoes

\* What poll says is of the connections on the list.
LEMMA SaidIs ==
    ASSUME NetInv
    PROVE  /\ Said \in Seq(Polled) /\ Len(Said) = Len(conn_list)
           /\ \A j \in 1..Len(Said) : Said[j].nc = conn_list[j]
           /\ Ready = Cardinality(ReadyFrom(Said, 1))
<1>1. conn_list \in Seq(Conns) /\ Len(conn_list) \in Nat
      /\ \A j \in 1..Len(conn_list) : conn_list[j] \in Conns
    BY DEF NetInv, TypeOK
<1>2. \A k : Readable(k) \in BOOLEAN
    BY DEF Readable, Ends
<1>3. DOMAIN conn_list = 1..Len(conn_list)
    BY <1>1
<1>4. /\ Said \in Seq(Polled) /\ Len(Said) = Len(conn_list)
      /\ \A j \in 1..Len(Said) : Said[j].nc = conn_list[j]
    BY <1>1, <1>2, <1>3 DEF Said, Polled
<1>5. {j \in DOMAIN Said : Said[j].in} = ReadyFrom(Said, 1)
  <2>1. DOMAIN Said = 1..Len(Said)
    BY <1>4
  <2>2. \A j \in 1..Len(Said) : j >= 1
    BY <1>1, <1>4
  <2> QED BY <2>1, <2>2 DEF ReadyFrom
<1> QED BY <1>4, <1>5 DEF Ready

\* The server polls, and perhaps accepts a connection.
LEMMA PollStep == ASSUME NetInv, Poll PROVE NetInv'
<1>1. /\ conn_list \in Seq(Conns) /\ backlog \in Seq(Conns) /\ Len(backlog) <= Backlog
      /\ connect_time \in [Conns -> Nat] /\ clock \in Nat /\ Backlog \in Nat
    BY NetAssumption DEF NetInv, TypeOK
<1>2. UNCHANGED <<client, net, toServer, acks, dropped, cl_opens,
                   devpaths, files>>
    BY DEF Poll
<1>3. /\ conn_list' \in Seq(Conns) /\ Len(conn_list) <= Len(conn_list')
      /\ \A j \in 1..Len(conn_list) : conn_list'[j] = conn_list[j]
                                        /\ j \in 1..Len(conn_list')
      /\ backlog' \in Seq(Conns) /\ Len(backlog') <= Backlog
      /\ connect_time' \in [Conns -> Nat] /\ clock' \in Nat
  <2>1. CASE backlog = <<>>
    BY <1>1, <2>1 DEF Poll
  <2>2. CASE backlog # <<>>
    <3>1. /\ backlog' = Tail(backlog) /\ conn_list' = Append(conn_list, Head(backlog))
          /\ clock' = clock + 1
          /\ connect_time' = [connect_time EXCEPT ![Head(backlog)] = clock]
      BY <2>2 DEF Poll
    <3>2. Head(backlog) \in Conns /\ Tail(backlog) \in Seq(Conns)
          /\ Len(Tail(backlog)) = Len(backlog) - 1 /\ Len(backlog) \in Nat
      BY <1>1, <2>2
    <3>3. /\ conn_list' \in Seq(Conns) /\ Len(conn_list') = Len(conn_list) + 1
          /\ \A j \in 1..Len(conn_list) : conn_list'[j] = conn_list[j]
      BY <1>1, <3>1, <3>2
    <3> QED BY <1>1, <3>1, <3>2, <3>3
  <2> QED BY <2>1, <2>2
<1>4. /\ ScanInv' /\ srv' \in {"poll", "scan"} /\ pos' \in Nat
      /\ events' \in Nat /\ pfds' \in Seq(Polled)
  <2>1. /\ Said \in Seq(Polled) /\ Len(Said) = Len(conn_list)
        /\ \A j \in 1..Len(Said) : Said[j].nc = conn_list[j]
        /\ Ready = Cardinality(ReadyFrom(Said, 1))
    BY SaidIs
  <2>2. ScanFrom(1, Ready, Said, conn_list')
    BY DEF Poll
  <2>3. PICK conns, said : conns = conn_list' /\ said = Said
    OBVIOUS
  <2>4. ScanFrom(1, Cardinality(ReadyFrom(said, 1)), said, conns)
    BY <2>1, <2>2, <2>3
  <2>5. said \in Seq(Polled) /\ \A j \in 1..Len(said) : said[j].nc = conns[j]
    BY <1>3, <2>1, <2>3
  <2>6. conns \in Seq(Conns) /\ Len(said) <= Len(conns)
    BY <1>3, <2>1, <2>3
  <2>7. conn_list' = conns /\ 1 \in Nat \ {0}
    BY <2>3
  <2> HIDE DEF Said
  <2> QED BY <2>4, <2>5, <2>6, <2>7, ScanGoes
<1>5. TypeOK'
    BY <1>2, <1>3, <1>4 DEF NetInv, TypeOK, Polled, client
<1>6. StageInv'
    BY <1>2 DEF NetInv, StageInv, client
<1>7. RouteInv'
    BY <1>2, RouteKept DEF NetInv, client
<1>8. OneDirectory'
    BY <1>2 DEF NetInv, OneDirectory
<1>9. PICK heard \in Hearings : Told(heard)
    BY DEF NetInv
<1>10. SoundAll(heard)'
  <2>1. ASSUME NEW s \in Streams PROVE Still(s)
    BY <1>2, PhaseStays DEF Still, client
  <2>2. ASSUME NEW s \in Streams PROVE Sound(s[3], View(heard, s)')
    BY <1>9, <2>1, StillSound DEF Told, SoundAll
  <2> QED BY <2>2 DEF SoundAll
<1>11. HeardInv(heard)'
  <2>1. \A s : Of(s)' = Of(s)
    BY <1>2, OfStays DEF client
  <2>2. \A k, d : Known(k, d)' = Known(k, d)
    BY <1>2 DEF Known, HostOfConn
  <2>3. \A h \in Hosts : /\ IsFiniteSet(Counted(heard, h))
                         /\ cl_opens[h] = Cardinality(Counted(heard, h))
    BY <1>9 DEF Told, HeardInv
  <2>4. ASSUME NEW s \in Streams, heard[s] # "new"
        PROVE  /\ \E j \in 1..Len(conn_list') : conn_list'[j] = Of(s)'
               /\ Known(Of(s), s[3])
    BY <1>3, <1>9, <2>1, <2>4 DEF Told, HeardInv
  <2> QED BY <1>2, <2>1, <2>2, <2>3, <2>4 DEF HeardInv, Counted
<1> QED BY <1>4, <1>5, <1>6, <1>7, <1>8, <1>9, <1>10, <1>11 DEF NetInv, Told

-----------------------------------------------------------------------------
(* The server handles a connection.                                        *)

\* What a step of the server that handles a connection leaves alone.
Quiet == UNCHANGED <<client, net, backlog, connect_time, clock>>

\* The views of a stream around a step after which the server has heard
\* otherwise of it.
Turn(h1, h2, s, v, w) ==
    /\ v = View(h1, s) /\ w = View(h2, s)'
    /\ v \in Views /\ w \in Views /\ Sound(s[3], v)
    /\ v.q = toServer[Of(s)] /\ w.q = toServer'[Of(s)]
    /\ v.acks = acks[Of(s)] /\ w.acks = acks'[Of(s)]
    /\ v.fd = fd[Of(s)]
    /\ v.net = net[Of(s)]
    /\ v.end = (IF dropped[Of(s)] THEN "closed" ELSE "open")
    /\ w.end = (IF dropped'[Of(s)] THEN "closed" ELSE "open")
    /\ v.stage = stage[s[1]] /\ v.phase = Phase(s)
    /\ v.sent = sent[s] /\ v.file = files[s] /\ w.file = files'[s]
    /\ v.heard = h1[s] /\ w.heard = h2[s]
    /\ SameClient(v, w)

\* The two views of a stream around a step of the server.
LEMMA TurnParts ==
    ASSUME TypeOK, TypeOK', NEW h1 \in Hearings, NEW h2 \in Hearings,
           NEW s \in Streams, Quiet, Sound(s[3], View(h1, s))
    PROVE  \E v, w : Turn(h1, h2, s, v, w)
<1>1. sendfile' = sendfile /\ pc' = pc /\ dev' = dev /\ stage' = stage
      /\ sent' = sent /\ fd' = fd /\ net' = net
    BY DEF Quiet, client
<1>2. Of(s)' = Of(s) /\ Phase(s)' = Phase(s)
    BY <1>1, OfStays, PhaseStays
<1>3. View(h1, s) \in Views /\ View(h2, s)' \in Views
    BY <1>1, ViewIs, NextIs
<1>4. SameClient(View(h1, s), View(h2, s)')
    BY <1>1, <1>2, ViewParts, NextParts DEF SameClient
<1>5. Turn(h1, h2, s, View(h1, s), View(h2, s)')
    BY <1>2, <1>3, <1>4, ViewParts, NextParts DEF Turn
<1> QED BY <1>5

\* A stream of which the server has heard nothing else, and nothing is moved.
LEMMA SameHeard ==
    ASSUME NEW h1, NEW h2, NEW s, Sound(s[3], View(h1, s)), h2[s] = h1[s],
           Still(s)
    PROVE  Sound(s[3], View(h2, s)')
<1>1. View(h2, s) = View(h1, s)
    BY DEF View
<1> QED BY <1>1, StillSound

\* The connection the scan has come to is on the list.
LEMMA ScannedIs ==
    ASSUME NetInv, srv = "scan"
    PROVE  /\ conn_list[pos] \in Conns /\ pos \in 1..Len(conn_list)
           /\ conn_list[pos][1] \in Clients
           /\ HostOf[conn_list[pos][1]] \in Hosts
<1>1. /\ conn_list \in Seq(Conns) /\ Len(pfds) <= Len(conn_list)
      /\ pfds \in Seq(Polled) /\ pos \in 1..Len(pfds)
    BY DEF NetInv, TypeOK, Polled, ScanInv
<1>2. pos \in 1..Len(conn_list) /\ conn_list[pos] \in Conns
    BY <1>1
<1>3. conn_list[pos][1] \in Clients
    BY <1>2, StreamParts DEF Conns
<1> QED BY <1>2, <1>3, NetAssumption

\* The first message on its way is about a stream of the connection.
LEMMA HeadIs ==
    ASSUME NetInv, NEW k \in Conns, toServer[k] # <<>>
    PROVE  LET msg == Head(toServer[k])  t == On(LaneOf(k), msg.dev) IN
           /\ msg \in Messages /\ toServer[k][1] = msg
           /\ 1 \in 1..Len(toServer[k])
           /\ t \in Streams /\ Of(t) = k /\ t[3] = msg.dev /\ t[1] = k[1]
           /\ t = <<k[1], k[2], msg.dev>> /\ msg.dev \in Devs
<1> DEFINE msg == Head(toServer[k])
           t == On(LaneOf(k), msg.dev)
<1>1. toServer[k] \in Seq(Messages)
    BY DEF NetInv, TypeOK
<1>2. msg \in Messages /\ toServer[k][1] = msg /\ 1 \in 1..Len(toServer[k])
    BY <1>1, TailParts
<1>3. msg.dev \in DevsOf(k[1]) /\ Of(t) = k
    BY <1>2 DEF NetInv, RouteInv
<1>4. LaneOf(k) \in Lanes /\ LaneOf(k)[1] = k[1]
    BY StreamParts DEF Conns
<1>5. t \in Streams /\ t[3] = msg.dev /\ t[1] = k[1] /\ msg.dev \in Devs
    BY <1>3, <1>4, LaneParts
<1>6. t = <<k[1], k[2], msg.dev>>
    BY DEF On, LaneOf
<1> QED BY <1>2, <1>3, <1>5, <1>6

\* The first message is taken.
LEMMA TakeIs ==
    ASSUME TypeOK, NEW k \in Conns, toServer[k] # <<>>, Take(k)
    PROVE  /\ toServer' \in [Conns -> Seq(Messages)]
           /\ \A j \in Conns : toServer'[j] = IF j = k THEN Tail(toServer[k])
                                              ELSE toServer[j]
<1>1. toServer \in [Conns -> Seq(Messages)]
    BY DEF TypeOK
<1>2. Tail(toServer[k]) \in Seq(Messages)
    BY <1>1, TailParts
<1> QED BY <1>1, <1>2 DEF Take

\* What is left of a connection still goes where it should.
LEMMA TakeRoute ==
    ASSUME NetInv, Quiet, NEW k \in Conns, toServer[k] # <<>>, Take(k)
    PROVE  RouteInv'
<1>1. \A j \in Conns : toServer'[j] = IF j = k THEN Tail(toServer[k]) ELSE toServer[j]
    BY TakeIs DEF NetInv
<1>2. toServer[k] \in Seq(Messages)
    BY DEF NetInv, TypeOK
<1>3. \A i \in 1..Len(Tail(toServer[k])) :
          Tail(toServer[k])[i] = toServer[k][i + 1] /\ i + 1 \in 1..Len(toServer[k])
    BY <1>2, TailParts
<1> QED BY <1>1, <1>3, RouteKept DEF NetInv, Quiet, client

\* What a host knows of a device.
Devices == [cl_id : Clients, dev : Devs, time : Nat]

\* A device is known after it was looked for, in the directory of its client.
LEMMA FindDppKeeps ==
    ASSUME NetInv, NEW k \in Conns, NEW d \in Devs, FindDpp(k, d)
    PROVE  /\ devpaths' \in [Hosts -> Seq(Devices)] /\ OneDirectory'
           /\ \A j \in Conns : \A e : Known(j, e) => Known(j, e)'
           /\ Known(k, d)'
<1>0. /\ devpaths \in [Hosts -> Seq(Devices)] /\ OneDirectory
      /\ connect_time[k] \in Nat
    BY DEF NetInv, TypeOK, Devices
<1>1. CASE Known(k, d)
  <2>1. devpaths' = devpaths
    BY <1>1 DEF FindDpp
  <2> QED BY <1>0, <1>1, <2>1 DEF OneDirectory, Known, HostOfConn
<1>2. CASE ~Known(k, d)
  <2> DEFINE h == HostOfConn(k)
             mine == {j \in DOMAIN devpaths[h] : devpaths[h][j].cl_id = k[1]}
             time == IF mine = {} THEN connect_time[k]
                     ELSE devpaths[h][Max(mine)].time
             new == [cl_id |-> k[1], dev |-> d, time |-> time]
  <2>1. h \in Hosts /\ k[1] \in Clients
    BY StreamParts, NetAssumption DEF Conns, HostOfConn
  <2>2. devpaths' = [devpaths EXCEPT ![h] = Append(devpaths[h], new)]
    BY <1>2 DEF FindDpp
  <2>3. devpaths[h] \in Seq(Devices) /\ Len(devpaths[h]) \in Nat
        /\ DOMAIN devpaths[h] = 1..Len(devpaths[h])
    BY <1>0, <2>1
  <2>4. /\ time \in Nat
        /\ \A j \in 1..Len(devpaths[h]) : devpaths[h][j].cl_id = k[1] =>
              devpaths[h][j].time = time
    <3>1. CASE mine = {}
      BY <1>0, <2>3, <3>1
    <3>2. CASE mine # {}
      <4>1. PICK x \in mine : x = Max(mine)
        BY <2>3, <3>2, MaxIs
      <4>2. x \in 1..Len(devpaths[h]) /\ devpaths[h][x].cl_id = k[1]
        BY <2>3, <4>1
      <4>3. devpaths[h][x].time \in Nat
        <5>1. devpaths[h][x] \in Devices
          <6>1. ASSUME NEW q \in Seq(Devices), NEW i \in 1..Len(q)
                PROVE  q[i] \in Devices
            OBVIOUS
          <6> HIDE DEF h
          <6> QED BY <2>3, <4>2, <6>1
        <5> QED BY <5>1 DEF Devices
      <4>4. \A j \in 1..Len(devpaths[h]) :
                devpaths[h][j].cl_id = devpaths[h][x].cl_id =>
                    devpaths[h][j].time = devpaths[h][x].time
        BY <1>0, <2>1, <2>3, <4>2 DEF OneDirectory
      <4>5. time = devpaths[h][x].time
        BY <3>2, <4>1
      <4> HIDE DEF time, mine
      <4> QED BY <4>2, <4>3, <4>4, <4>5
    <3> QED BY <3>1, <3>2
  <2> HIDE DEF time
  <2>5. new \in Devices /\ new.cl_id = k[1] /\ new.dev = d /\ new.time = time
    BY <2>1, <2>4 DEF Devices
  <2> HIDE DEF new, h
  <2>6. /\ devpaths'[h] \in Seq(Devices)
        /\ Len(devpaths'[h]) = Len(devpaths[h]) + 1
        /\ \A j \in 1..Len(devpaths[h]) : devpaths'[h][j] = devpaths[h][j]
        /\ devpaths'[h][Len(devpaths[h]) + 1] = new
        /\ \A g \in Hosts : g # h => devpaths'[g] = devpaths[g]
        /\ devpaths' \in [Hosts -> Seq(Devices)]
        /\ DOMAIN devpaths'[h] = 1..Len(devpaths[h]) + 1
    <3>1. /\ Append(devpaths[h], new) \in Seq(Devices)
          /\ Len(Append(devpaths[h], new)) = Len(devpaths[h]) + 1
          /\ \A j \in 1..Len(devpaths[h]) :
                Append(devpaths[h], new)[j] = devpaths[h][j]
          /\ Append(devpaths[h], new)[Len(devpaths[h]) + 1] = new
          /\ DOMAIN Append(devpaths[h], new) = 1..Len(devpaths[h]) + 1
      BY <2>3, <2>5
    <3> QED BY <1>0, <2>1, <2>2, <3>1
  <2>7. \A j \in 1..Len(devpaths[h]) + 1 :
            j \in 1..Len(devpaths[h]) \/ j = Len(devpaths[h]) + 1
    BY <2>3
  <2>8. ASSUME NEW g \in Hosts, NEW j \in DOMAIN devpaths'[g],
               NEW m \in DOMAIN devpaths'[g],
               devpaths'[g][j].cl_id = devpaths'[g][m].cl_id
        PROVE  devpaths'[g][j].time = devpaths'[g][m].time
    <3>1. CASE g # h
      BY <1>0, <2>6, <2>8, <3>1 DEF OneDirectory
    <3>2. CASE g = h
      <4>1. /\ j \in 1..Len(devpaths[h]) \/ j = Len(devpaths[h]) + 1
            /\ m \in 1..Len(devpaths[h]) \/ m = Len(devpaths[h]) + 1
        BY <2>6, <2>7, <2>8, <3>2
      <4>2. \A x, y \in 1..Len(devpaths[h]) :
                devpaths[h][x].cl_id = devpaths[h][y].cl_id =>
                    devpaths[h][x].time = devpaths[h][y].time
        <5>1. DOMAIN devpaths[h] = 1..Len(devpaths[h])
          BY <2>3
        <5>2. OneDirectory /\ h \in Hosts
          BY <1>0, <2>1
        <5> QED BY <5>1, <5>2 DEF OneDirectory
      <4>3. \A i \in 1..Len(devpaths[h]) :
                devpaths[h][i].cl_id = k[1] => devpaths[h][i].time = time
        BY <2>4
      <4>4. /\ devpaths'[h][j].cl_id = devpaths'[h][m].cl_id
            /\ \A i \in 1..Len(devpaths[h]) : devpaths'[h][i] = devpaths[h][i]
            /\ devpaths'[h][Len(devpaths[h]) + 1].cl_id = k[1]
            /\ devpaths'[h][Len(devpaths[h]) + 1].time = time
        BY <2>5, <2>6, <2>8, <3>2
      <4>5. CASE j \in 1..Len(devpaths[h]) /\ m \in 1..Len(devpaths[h])
        BY <3>2, <4>2, <4>4, <4>5
      <4>6. CASE j \in 1..Len(devpaths[h]) /\ m = Len(devpaths[h]) + 1
        BY <3>2, <4>3, <4>4, <4>6
      <4>7. CASE j = Len(devpaths[h]) + 1 /\ m \in 1..Len(devpaths[h])
        BY <3>2, <4>3, <4>4, <4>7
      <4>8. CASE j = Len(devpaths[h]) + 1 /\ m = Len(devpaths[h]) + 1
        BY <3>2, <4>8
      <4> QED BY <4>1, <4>5, <4>6, <4>7, <4>8
    <3> QED BY <3>1, <3>2
  <2>9. OneDirectory'
    BY <2>8 DEF OneDirectory
  <2>10. ASSUME NEW j \in Conns, NEW e, Known(j, e) PROVE Known(j, e)'
    <3>1. PICK i \in DOMAIN devpaths[HostOfConn(j)] :
              /\ devpaths[HostOfConn(j)][i].cl_id = j[1]
              /\ devpaths[HostOfConn(j)][i].dev = e
      BY <2>10 DEF Known
    <3>2. HostOfConn(j) \in Hosts
      BY StreamParts, NetAssumption DEF Conns, HostOfConn
    <3>3. devpaths'[HostOfConn(j)][i] = devpaths[HostOfConn(j)][i]
          /\ i \in DOMAIN devpaths'[HostOfConn(j)]
      <4>1. CASE HostOfConn(j) = h
        <5>1. i \in 1..Len(devpaths[h]) /\ Len(devpaths[h]) \in Nat
          BY <2>3, <3>1, <4>1
        <5>2. i \in 1..Len(devpaths[h]) + 1
          BY <5>1
        <5> QED BY <2>6, <4>1, <5>1, <5>2
      <4>2. CASE HostOfConn(j) # h
        BY <2>6, <3>1, <3>2, <4>2
      <4> QED BY <4>1, <4>2
    <3> QED BY <3>1, <3>3 DEF Known, HostOfConn
  <2>11. Known(k, d)'
    <3>1. Len(devpaths[h]) + 1 \in DOMAIN devpaths'[h]
      BY <2>3, <2>6
    <3>2. \E i \in DOMAIN devpaths'[HostOfConn(k)] :
              /\ devpaths'[HostOfConn(k)][i].cl_id = k[1]
              /\ devpaths'[HostOfConn(k)][i].dev = d
      BY <2>5, <2>6, <3>1 DEF h
    <3> QED BY <3>2 DEF Known, HostOfConn
  <2> QED BY <2>6, <2>9, <2>10, <2>11
<1> QED BY <1>1, <1>2

\* What has to be shown of a step of the server that handles a connection.
LEMMA Handled ==
    ASSUME NetInv, Quiet, TypeOK', ScanInv', RouteInv', OneDirectory',
           NEW heard \in Hearings, HeardInv(heard)', SoundAll(heard)'
    PROVE  NetInv'
<1>1. StageInv'
    BY DEF NetInv, StageInv, Quiet, client
<1>2. Told(heard)'
    BY DEF Told
<1>3. \E h \in Hearings : Told(h)'
    BY <1>2
<1> QED BY <1>1, <1>3 DEF NetInv

\* A connection that has ended stays as it is.
LEMMA EndOfFileStep ==
    ASSUME NetInv, srv = "scan", Quiet, NEW k \in Conns, EndOfFile(k)
    PROVE  NetInv'
<1>1. UNCHANGED <<toServer, acks, dropped, conn_list, cl_opens, devpaths, files>>
      /\ GoOn(events - 1)
    BY DEF EndOfFile
<1>2. /\ ScanInv' /\ srv' \in {"poll", "scan"} /\ pos' \in Nat
      /\ events' \in Nat /\ pfds' \in Seq(Polled)
    BY <1>1, GoOnGoes
<1>3. TypeOK'
    BY <1>1, <1>2 DEF NetInv, TypeOK, Polled, Quiet, client
<1>4. RouteInv' /\ OneDirectory'
    BY <1>1, RouteKept DEF NetInv, Quiet, client, OneDirectory
<1>5. PICK heard \in Hearings : Told(heard)
    BY DEF NetInv
<1>6. SoundAll(heard)'
  <2>1. ASSUME NEW s \in Streams PROVE Still(s)
    BY <1>1, PhaseStays DEF Still, Quiet, client
  <2>2. ASSUME NEW s \in Streams PROVE Sound(s[3], View(heard, s)')
    BY <1>5, <2>1, StillSound DEF Told, SoundAll
  <2> QED BY <2>2 DEF SoundAll
<1>7. HeardInv(heard)'
  <2>1. \A s : Of(s)' = Of(s)
    BY OfStays DEF Quiet, client
  <2>2. \A j, d : Known(j, d)' = Known(j, d)
    BY <1>1 DEF Known, HostOfConn
  <2> QED BY <1>1, <1>5, <2>1, <2>2 DEF Told, HeardInv, Counted
<1> QED BY <1>2, <1>3, <1>4, <1>6, <1>7, Handled

\* The server ends, and with it all its connections.
LEMMA BadHeaderStep ==
    ASSUME NetInv, Quiet, NEW k \in Conns, BadHeader(k)
    PROVE  NetInv'
<1>1. /\ UNCHANGED <<toServer, acks, conn_list, cl_opens, devpaths, files>>
      /\ srv' = "exited" /\ pos' = 1 /\ events' = 0 /\ pfds' = <<>>
      /\ dropped' = [c \in Conns |-> TRUE]
    BY DEF BadHeader
<1>2. TypeOK'
  <2>1. dropped' \in [Conns -> BOOLEAN] /\ <<>> \in Seq(Polled)
    BY <1>1
  <2> QED BY <1>1, <2>1 DEF NetInv, TypeOK, Polled, Quiet, client
<1>3. RouteInv' /\ OneDirectory' /\ ScanInv'
    BY <1>1, RouteKept DEF NetInv, Quiet, client, OneDirectory, ScanInv
<1>4. PICK heard \in Hearings : Told(heard)
    BY DEF NetInv
<1>5. SoundAll(heard)'
  <2> SUFFICES ASSUME NEW s \in Streams PROVE Sound(s[3], View(heard, s)')
    BY DEF SoundAll
  <2>1. Sound(s[3], View(heard, s)) /\ Of(s) \in Conns
    BY <1>4, OfParts DEF Told, SoundAll
  <2>2. PICK v, w : Turn(heard, heard, s, v, w)
    BY <1>2, <2>1, TurnParts DEF NetInv
  <2>3. w.q = v.q /\ w.file = v.file /\ w.heard = v.heard /\ w.end = "closed"
    BY <1>1, <2>1, <2>2 DEF Turn
  <2>4. /\ w.net = v.net /\ w.stage = v.stage /\ w.phase = v.phase
        /\ w.sent = v.sent /\ v.sent \in Nat
    BY <2>2 DEF Turn, SameClient, Views
  <2>5. Sound(s[3], v) /\ v \in Views /\ w \in Views
    BY <2>2 DEF Turn
  <2>6. w.phase \in Early \cup {"opening"} => w.sent = 0
    BY <2>4, <2>5 DEF Sound, PhaseOk
  <2>7. Onward(v, w) /\ Down(w) /\ w.sent >= v.sent
    BY <2>3, <2>4 DEF Onward, Down
  <2>8. Sound(s[3], w)
    BY <2>3, <2>4, <2>5, <2>6, <2>7, DownSound
  <2> QED BY <2>2, <2>8 DEF Turn
<1>6. HeardInv(heard)'
  <2>1. \A s : Of(s)' = Of(s)
    BY OfStays DEF Quiet, client
  <2>2. \A j, d : Known(j, d)' = Known(j, d)
    BY <1>1 DEF Known, HostOfConn
  <2> QED BY <1>1, <1>4, <2>1, <2>2 DEF Told, HeardInv, Counted
<1> QED BY <1>2, <1>3, <1>5, <1>6, Handled

\* The files that are started anew are of devices the server has not heard of.
LEMMA FilesIs ==
    ASSUME TypeOK, NEW heard, HeardInv(heard), NEW k \in Conns, NEW d
    PROVE  /\ FilesOf(k, d) \in [Streams -> Seq(Pieces)]
           /\ \A s \in Streams :
                 \/ FilesOf(k, d)[s] = files[s]
                 \/ FilesOf(k, d)[s] = <<>> /\ heard[s] = "new" /\ s[3] = d
           /\ Known(k, d) => FilesOf(k, d) = files
<1>1. files \in [Streams -> Seq(Pieces)] /\ <<>> \in Seq(Pieces)
    BY DEF TypeOK, Pieces
<1>2. ASSUME NEW s \in Streams, heard[s] # "new", s[1] = k[1], s[3] = d
      PROVE  Known(k, d)
  <2>1. Known(Of(s), d) /\ Of(s)[1] = k[1]
    BY <1>2, OfParts DEF HeardInv
  <2> QED BY <2>1 DEF Known, HostOfConn
<1>3. \A s \in Streams : files[s] \in Seq(Pieces)
    BY <1>1
<1>4. FilesOf(k, d) \in [Streams -> Seq(Pieces)]
    BY <1>1, <1>3 DEF FilesOf
<1>5. ASSUME NEW s \in Streams
      PROVE  \/ FilesOf(k, d)[s] = files[s]
             \/ FilesOf(k, d)[s] = <<>> /\ heard[s] = "new" /\ s[3] = d
    BY <1>2 DEF FilesOf
<1>6. Known(k, d) => FilesOf(k, d) = files
    BY <1>1 DEF FilesOf
<1> QED BY <1>4, <1>5, <1>6

\* The streams of another connection notice nothing, but that a file of a
\* device the server has not heard of may be started anew.
LEMMA BystanderSound ==
    ASSUME TypeOK, TypeOK', Quiet, NEW h1 \in Hearings, NEW h2 \in Hearings,
           NEW s \in Streams, Sound(s[3], View(h1, s)), h2[s] = h1[s],
           toServer'[Of(s)] = toServer[Of(s)], acks'[Of(s)] = acks[Of(s)],
           dropped'[Of(s)] = dropped[Of(s)],
           files'[s] = files[s] \/ (files'[s] = <<>> /\ h1[s] = "new")
    PROVE  Sound(s[3], View(h2, s)')
<1>1. PICK v, w : Turn(h1, h2, s, v, w)
    BY TurnParts
<1>2. CASE files'[s] = files[s]
  <2>1. Still(s)
    BY <1>2, PhaseStays DEF Still, Quiet, client
  <2> QED BY <2>1, SameHeard
<1>3. CASE files'[s] = <<>> /\ h1[s] = "new"
  <2>1. /\ w.q = v.q /\ SameClient(v, w) /\ w.end = v.end /\ w.acks = v.acks
        /\ w.heard = v.heard /\ v.heard = "new" /\ w.file = <<>>
        /\ Sound(s[3], v) /\ v \in Views /\ w \in Views
    BY <1>1, <1>3 DEF Turn
  <2>2. Sound(s[3], w)
    BY <2>1, ResetSound
  <2> QED BY <1>1, <2>2 DEF Turn
<1> QED BY <1>2, <1>3

\* The other devices of the connection see a message of theirs move up.
LEMMA NeighbourSound ==
    ASSUME TypeOK, TypeOK', Quiet, NEW h1 \in Hearings, NEW h2 \in Hearings,
           NEW s \in Streams, Sound(s[3], View(h1, s)), h2[s] = h1[s],
           toServer[Of(s)] # <<>>, toServer[Of(s)][1].dev # s[3],
           net[Of(s)] = "short" => toServer[Of(s)][1].torn = "no",
           toServer'[Of(s)] = Tail(toServer[Of(s)]),
           dropped'[Of(s)] = dropped[Of(s)], files'[s] = files[s],
           \/ acks'[Of(s)] = acks[Of(s)]
           \/ Up(View(h1, s)) => Phase(s) \in {"waiting", "opened", "ended"}
    PROVE  Sound(s[3], View(h2, s)')
<1>1. PICK v, w : Turn(h1, h2, s, v, w)
    BY TurnParts
<1>2. /\ Takes(v, w) /\ v.q[1].dev # s[3] /\ w.file = v.file /\ w.heard = v.heard
      /\ w.acks = v.acks \/ (Up(v) => v.phase \in {"waiting", "opened", "ended"})
      /\ Sound(s[3], v) /\ v \in Views /\ w \in Views
      /\ v.net = "short" => v.q[1].torn = "no"
    BY <1>1 DEF Turn, Takes
<1>3. Sound(s[3], w)
    BY <1>2, TakeOther
<1> QED BY <1>1, <1>3 DEF Turn

\* An acknowledgement more.
LEMMA AckIs ==
    ASSUME TypeOK, NEW k \in Conns, Ack(k)
    PROVE  /\ acks' \in [Conns -> Nat] /\ acks'[k] = acks[k] + 1
           /\ \A j \in Conns : j # k => acks'[j] = acks[j]
<1>1. acks \in [Conns -> Nat]
    BY DEF TypeOK
<1>2. acks[k] + 1 \in Nat /\ acks' = [acks EXCEPT ![k] = acks[k] + 1]
    BY <1>1 DEF Ack
<1> QED BY <1>1, <1>2

\* The counts of opens after an open and after a close.
LEMMA CountedMore ==
    ASSUME NEW heard \in Hearings, NEW t \in Streams, heard[t] # "open"
    PROVE  \A g : Counted([heard EXCEPT ![t] = "open"], g) =
                     IF g = HostOf[t[1]] THEN Counted(heard, g) \cup {t}
                     ELSE Counted(heard, g)
BY DEF Counted, Hearings

\* A device that is over no longer counts.
LEMMA CountedLess ==
    ASSUME NEW heard \in Hearings, NEW t \in Streams
    PROVE  \A g : Counted([heard EXCEPT ![t] = "over"], g) = Counted(heard, g) \ {t}
BY DEF Counted, Hearings

\* What the server has heard of is on the list and known, when it has dealt
\* with a message of t.
LEMMA HeardNext ==
    ASSUME NetInv, Quiet, NEW h1 \in Hearings, HeardInv(h1), NEW h2 \in Hearings,
           NEW t \in Streams, FindDpp(Of(t), t[3]), t[3] \in Devs,
           NEW j \in 1..Len(conn_list), conn_list[j] = Of(t),
           conn_list' = conn_list,
           \A s \in Streams : s # t => h2[s] = h1[s],
           \A g \in Hosts : /\ IsFiniteSet(Counted(h2, g))
                            /\ cl_opens'[g] = Cardinality(Counted(h2, g))
    PROVE  HeardInv(h2)'
<1>1. PICK k \in Conns : k = Of(t)
    BY OfParts
<1>2. /\ \A c \in Conns : \A e : Known(c, e) => Known(c, e)'
      /\ Known(k, t[3])'
    BY <1>1, FindDppKeeps
<1>3. \A s : Of(s)' = Of(s)
    BY OfStays DEF Quiet, client
<1>4. ASSUME NEW s \in Streams, h2[s] # "new"
      PROVE  \E c : /\ c = Of(s)' /\ Known(c, s[3])'
                    /\ \E i \in 1..Len(conn_list') : conn_list'[i] = c
  <2>0. PICK c : c = Of(s) /\ c = Of(s)' /\ c \in Conns
    BY <1>3, OfParts
  <2>1. CASE s = t
    BY <1>1, <1>2, <2>0, <2>1
  <2>2. CASE s # t
    <3>1. /\ \E i \in 1..Len(conn_list) : conn_list[i] = c
          /\ Known(c, s[3])
      BY <1>4, <2>0, <2>2 DEF HeardInv
    <3> QED BY <1>2, <2>0, <3>1
  <2> QED BY <2>1, <2>2
<1>5. \A s \in Streams : h2[s] # "new" =>
          /\ \E i \in 1..Len(conn_list') : conn_list'[i] = Of(s)'
          /\ \E i \in DOMAIN devpaths'[HostOfConn(Of(s)')] :
                /\ devpaths'[HostOfConn(Of(s)')][i].cl_id = Of(s)'[1]
                /\ devpaths'[HostOfConn(Of(s)')][i].dev = s[3]
    BY <1>4 DEF Known, HostOfConn
<1> QED BY <1>5 DEF HeardInv, Known, HostOfConn, Counted

\* The state after a message that is not the last of its host has been handled.
LEMMA MovedTypes ==
    ASSUME NetInv, srv = "scan", Quiet, NEW k \in Conns, RouteInv',
           toServer' \in [Conns -> Seq(Messages)], NEW d \in Devs,
           FindDpp(k, d), GoOn(events - 1), UNCHANGED <<dropped, conn_list>>,
           acks' \in [Conns -> Nat], cl_opens' \in [Hosts -> Nat],
           files' \in [Streams -> Seq(Pieces)]
    PROVE  TypeOK' /\ ScanInv' /\ OneDirectory'
<1>1. /\ ScanInv' /\ srv' \in {"poll", "scan"} /\ pos' \in Nat
      /\ events' \in Nat /\ pfds' \in Seq(Polled)
    BY GoOnGoes
<1>2. devpaths' \in [Hosts -> Seq(Devices)] /\ OneDirectory'
    BY FindDppKeeps
<1>3. TypeOK'
    BY <1>1, <1>2 DEF NetInv, TypeOK, Polled, Devices, Pieces, Quiet, client
<1> QED BY <1>1, <1>2, <1>3

\* The same after a message that was taken.
LEMMA TakenTypes ==
    ASSUME NetInv, srv = "scan", Quiet, NEW k \in Conns, toServer[k] # <<>>,
           Take(k), NEW d \in Devs, FindDpp(k, d), GoOn(events - 1),
           UNCHANGED <<dropped, conn_list>>, acks' \in [Conns -> Nat],
           cl_opens' \in [Hosts -> Nat], files' \in [Streams -> Seq(Pieces)]
    PROVE  TypeOK' /\ ScanInv' /\ RouteInv' /\ OneDirectory'
<1>1. toServer' \in [Conns -> Seq(Messages)]
    BY TakeIs DEF NetInv
<1>2. RouteInv'
    BY TakeRoute
<1> QED BY <1>1, <1>2, MovedTypes

\* The server hears of a device.
LEMMA OpenDeviceStep ==
    ASSUME NetInv, srv = "scan", Quiet, NEW k, k = conn_list[pos],
           toServer[k] # <<>>, NEW msg, msg = Head(toServer[k]),
           msg.kind = "open", msg.torn = "no", OpenDevice(k, msg.dev)
    PROVE  NetInv'
<1>1. k \in Conns /\ pos \in 1..Len(conn_list) /\ HostOf[k[1]] \in Hosts
    BY ScannedIs
<1>2. PICK t : /\ msg \in Messages /\ toServer[k][1] = msg
               /\ 1 \in 1..Len(toServer[k])
               /\ t \in Streams /\ Of(t) = k /\ t[3] = msg.dev /\ t[1] = k[1]
               /\ msg.dev \in Devs
    BY <1>1, HeadIs
<1>3. PICK heard \in Hearings : Told(heard)
    BY DEF NetInv
<1>4. /\ Take(k) /\ Ack(k) /\ FindDpp(k, msg.dev) /\ files' = FilesOf(k, msg.dev)
      /\ cl_opens' = [cl_opens EXCEPT ![HostOf[k[1]]] = @ + 1]
      /\ GoOn(events - 1) /\ UNCHANGED <<dropped, conn_list>>
    BY DEF OpenDevice, HostOfConn
<1>5. /\ acks' \in [Conns -> Nat] /\ acks'[k] = acks[k] + 1
      /\ \A j \in Conns : j # k => acks'[j] = acks[j]
    BY <1>1, <1>4, AckIs DEF NetInv
<1>6. /\ files' \in [Streams -> Seq(Pieces)]
      /\ \A s \in Streams :
            \/ files'[s] = files[s]
            \/ files'[s] = <<>> /\ heard[s] = "new" /\ s[3] = msg.dev
    BY <1>1, <1>3, <1>4, FilesIs DEF NetInv, Told
<1>7. cl_opens \in [Hosts -> Nat]
    BY DEF NetInv, TypeOK
<1>8. TypeOK' /\ ScanInv' /\ RouteInv' /\ OneDirectory'
  <2>1. cl_opens' \in [Hosts -> Nat]
    BY <1>1, <1>4, <1>7
  <2> QED BY <1>1, <1>2, <1>4, <1>5, <1>6, <2>1, TakenTypes
<1>9. \A j \in Conns : toServer'[j] = IF j = k THEN Tail(toServer[k]) ELSE toServer[j]
    BY <1>1, <1>4, TakeIs DEF NetInv
<1> DEFINE h2 == [heard EXCEPT ![t] = "open"]
<1>10. h2 \in Hearings /\ h2[t] = "open" /\ \A s \in Streams : s # t => h2[s] = heard[s]
    BY <1>2 DEF Hearings
<1>11. Sound(t[3], View(heard, t))
    BY <1>2, <1>3 DEF Told, SoundAll
<1>12. PICK x, y : Turn(heard, h2, t, x, y)
    BY <1>2, <1>8, <1>10, <1>11, TurnParts DEF NetInv
<1>13. x.q[1].dev = t[3] /\ x.q[1].kind = "open" /\ 1 \in 1..Len(x.q)
    BY <1>2, <1>12 DEF Turn
<1>14. heard[t] = "new" /\ (Up(x) => x.phase = "opening")
  <2>1. x.heard = "new" /\ x \in Views /\ x.phase \in Phases
    BY <1>12, <1>13 DEF Turn, Sound, QueueOk, Views
  <2>2. Up(x) => x.phase = "opening"
    BY <1>12, <1>13, <2>1 DEF Turn, Sound, PhaseOk, Phases
  <2> QED BY <1>12, <2>1, <2>2 DEF Turn
<1>15. HeardInv(h2)'
  <2>1. ASSUME NEW g \in Hosts
        PROVE  /\ IsFiniteSet(Counted(h2, g))
               /\ cl_opens'[g] = Cardinality(Counted(h2, g))
    <3>1. IsFiniteSet(Counted(heard, g)) /\ cl_opens[g] = Cardinality(Counted(heard, g))
      BY <1>3 DEF Told, HeardInv
    <3>2. Counted(h2, g) = IF g = HostOf[k[1]] THEN Counted(heard, g) \cup {t}
                           ELSE Counted(heard, g)
      <4>1. heard[t] # "open" /\ t[1] = k[1] /\ t \in Streams
        BY <1>2, <1>14
      <4> QED BY <4>1, CountedMore
    <3>3. t \notin Counted(heard, g)
      BY <1>14 DEF Counted
    <3> HIDE DEF h2
    <3>4. CASE g = HostOf[k[1]]
      <4>1. cl_opens'[g] = cl_opens[g] + 1
        BY <1>1, <1>4, <1>7, <3>4
      <4> QED BY <3>1, <3>2, <3>3, <3>4, <4>1, FS_AddElement
    <3>5. CASE g # HostOf[k[1]]
      <4>1. cl_opens'[g] = cl_opens[g]
        BY <1>1, <1>4, <1>7, <3>5
      <4> QED BY <3>1, <3>2, <3>5, <4>1
    <3> QED BY <3>4, <3>5
  <2>2. HeardInv(heard) /\ FindDpp(Of(t), t[3]) /\ conn_list[pos] = Of(t)
        /\ conn_list' = conn_list
    BY <1>2, <1>3, <1>4 DEF Told
  <2> HIDE DEF h2
  <2> QED BY <1>1, <1>2, <1>10, <2>1, <2>2, HeardNext
<1>16. SoundAll(h2)'
  <2> HIDE DEF h2
  <2> SUFFICES ASSUME NEW s \in Streams PROVE Sound(s[3], View(h2, s)')
    BY DEF SoundAll
  <2>1. Sound(s[3], View(heard, s)) /\ Of(s) \in Conns
    BY <1>3, OfParts DEF Told, SoundAll
  <2>2. CASE s = t
    <3>1. Takes(x, y) /\ y.heard = "open" /\ y.acks = x.acks + 1
          /\ (y.file = x.file \/ y.file = <<>>)
          /\ Sound(s[3], x) /\ x \in Views /\ y \in Views
      <4>1. /\ toServer[Of(t)] # <<>> /\ toServer'[Of(t)] = Tail(toServer[Of(t)])
            /\ acks'[Of(t)] = acks[Of(t)] + 1 /\ dropped'[Of(t)] = dropped[Of(t)]
        BY <1>1, <1>2, <1>4, <1>5, <1>9
      <4>2. files'[t] = files[t] \/ files'[t] = <<>>
        BY <1>2, <1>6
      <4>3. Takes(x, y) /\ y.acks = x.acks + 1
        BY <1>12, <4>1 DEF Turn, Takes
      <4>4. y.file = x.file \/ y.file = <<>>
        BY <1>12, <4>2 DEF Turn
      <4> QED BY <1>10, <1>12, <2>2, <4>3, <4>4 DEF Turn
    <3>2. Sound(s[3], y)
      BY <1>13, <2>2, <3>1, TakeFirst
    <3> QED BY <1>12, <2>2, <3>2 DEF Turn
  <2>3. CASE s # t /\ Of(s) = k
    <3>1. LaneOf(s) = LaneOf(t) /\ s[1] = t[1] /\ s[3] # t[3] /\ ~sendfile[s[1]]
      BY <1>2, <2>3, OfSame
    <3>2. Up(View(heard, s)) => Phase(s) \in {"waiting", "opened", "ended"}
      <4>1. SUFFICES ASSUME Up(View(heard, s)) PROVE Phase(s) \in {"waiting", "opened"}
        OBVIOUS
      <4>2. Up(x)
        BY <1>2, <1>12, <2>3, <3>1, <4>1, ViewParts DEF Turn, Up, Reaches
      <4>3. Phase(t) = "opening"
        BY <1>12, <1>14, <4>2 DEF Turn
      <4>4. pc[LaneOf(t)] = "ack" /\ dev[LaneOf(t)] = t[3]
        BY <4>3 DEF Phase
      <4>5. s[3] \in Nat /\ t[3] \in Nat
        BY <1>2, StreamParts
      <4> QED BY <3>1, <4>4, <4>5 DEF Phase
    <3>3. files'[s] = files[s] /\ h2[s] = heard[s]
      BY <1>2, <1>6, <1>10, <2>3, <3>1
    <3>4. /\ toServer[Of(s)] # <<>> /\ toServer[Of(s)][1].dev # s[3]
          /\ toServer[Of(s)][1].torn = "no"
          /\ toServer'[Of(s)] = Tail(toServer[Of(s)])
          /\ dropped'[Of(s)] = dropped[Of(s)]
      BY <1>1, <1>2, <1>4, <1>9, <2>3, <3>1
    <3> QED BY <1>8, <1>10, <2>1, <3>2, <3>3, <3>4, NeighbourSound DEF NetInv
  <2>4. CASE s # t /\ Of(s) # k
    BY <1>4, <1>5, <1>6, <1>8, <1>9, <1>10, <2>1, <2>4, BystanderSound DEF NetInv
  <2> QED BY <2>2, <2>3, <2>4
<1> HIDE DEF h2
<1> QED BY <1>8, <1>10, <1>15, <1>16, Handled

\* The file of a stream gets what there is of a piece, and no other file
\* changes.
PieceOf(msg) == [n |-> msg.n, whole |-> msg.torn = "no"]
Wrote(heard, t, msg) ==
    /\ PieceOf(msg) \in Pieces /\ PieceOf(msg).n = msg.n
    /\ PieceOf(msg).whole <=> msg.torn = "no"
    /\ files' \in [Streams -> Seq(Pieces)]
    /\ files'[t] = Append(files[t], PieceOf(msg))
    /\ \A s \in Streams : s # t => files'[s] = files[s]
    /\ HeardInv(heard)'

\* A piece that is written comes behind the file of its stream.
LEMMA WrittenIs ==
    ASSUME NetInv, srv = "scan", Quiet, NEW k \in Conns, k = conn_list[pos],
           toServer[k] # <<>>, NEW msg, msg = Head(toServer[k]),
           msg.kind = "data", Written(k, msg.dev, msg), conn_list' = conn_list,
           cl_opens' = cl_opens, NEW heard \in Hearings, Told(heard),
           NEW t \in Streams, t = <<k[1], k[2], msg.dev>>
    PROVE  Wrote(heard, t, msg)
<1>1. pos \in 1..Len(conn_list)
    BY ScannedIs
<1> DEFINE piece == PieceOf(msg)
<1>2. /\ msg \in Messages /\ toServer[k][1] = msg /\ 1 \in 1..Len(toServer[k])
      /\ Of(t) = k /\ t[3] = msg.dev /\ t[1] = k[1] /\ msg.dev \in Devs
    BY HeadIs
<1>4. /\ FindDpp(k, msg.dev)
      /\ files' = [FilesOf(k, msg.dev) EXCEPT ![t] = Append(@, piece)]
    BY DEF Written, PieceOf
<1>5. piece \in Pieces /\ piece.n = msg.n /\ (piece.whole <=> msg.torn = "no")
    BY <1>2 DEF Pieces, Messages, PieceOf
<1> HIDE DEF piece
<1>6. Sound(t[3], View(heard, t))
    BY DEF Told, SoundAll
<1>7. heard[t] = "open"
  <2>1. PICK x : x = View(heard, t) /\ x.q = toServer[Of(t)] /\ x.heard = heard[t]
    BY ViewParts
  <2>2. x.q[1].dev = t[3] /\ x.q[1].kind = "data" /\ 1 \in 1..Len(x.q)
    BY <1>2, <2>1
  <2> QED BY <1>6, <2>1, <2>2 DEF Sound, QueueOk
<1>8. files \in [Streams -> Seq(Pieces)]
    BY DEF NetInv, TypeOK, Pieces
<1>9. /\ files' \in [Streams -> Seq(Pieces)] /\ files'[t] = Append(files[t], piece)
      /\ \A s \in Streams : s # t => files'[s] = files[s]
  <2>1. Known(Of(t), t[3])
    BY <1>7 DEF Told, HeardInv
  <2>2. TypeOK /\ HeardInv(heard) /\ Known(k, msg.dev)
    BY <1>2, <2>1 DEF NetInv, Told
  <2>3. FilesOf(k, msg.dev) = files
    BY <1>2, <2>2, FilesIs
  <2>4. files' = [files EXCEPT ![t] = Append(files[t], piece)]
    BY <1>4, <2>3
  <2>5. Append(files[t], piece) \in Seq(Pieces)
    BY <1>5, <1>8
  <2> QED BY <1>8, <2>4, <2>5
<1>10. HeardInv(heard)'
  <2>1. \A g \in Hosts : /\ IsFiniteSet(Counted(heard, g))
                         /\ cl_opens'[g] = Cardinality(Counted(heard, g))
    BY DEF Told, HeardInv
  <2>2. HeardInv(heard) /\ FindDpp(Of(t), t[3]) /\ t[3] \in Devs
        /\ conn_list[pos] = Of(t)
    BY <1>2, <1>4 DEF Told
  <2> QED BY <1>1, <2>1, <2>2, HeardNext
<1> QED BY <1>5, <1>9, <1>10 DEF piece, Wrote

\* A piece of data is written.
LEMMA ReadDataStep ==
    ASSUME NetInv, srv = "scan", Quiet, NEW k, k = conn_list[pos],
           toServer[k] # <<>>, NEW msg, msg = Head(toServer[k]),
           msg.kind = "data", ReadData(k, msg.dev, msg)
    PROVE  NetInv'
<1>1. k \in Conns /\ pos \in 1..Len(conn_list) /\ HostOf[k[1]] \in Hosts
    BY ScannedIs
<1>2. PICK t : /\ msg \in Messages /\ toServer[k][1] = msg
               /\ 1 \in 1..Len(toServer[k])
               /\ t \in Streams /\ Of(t) = k /\ t[3] = msg.dev /\ t[1] = k[1]
               /\ t = <<k[1], k[2], msg.dev>> /\ msg.dev \in Devs
    BY <1>1, HeadIs
<1>3. PICK heard \in Hearings : Told(heard)
    BY DEF NetInv
<1>4. PICK piece : piece = PieceOf(msg)
    OBVIOUS
<1>5. /\ Take(k) /\ FindDpp(k, msg.dev) /\ Written(k, msg.dev, msg)
      /\ GoOn(events - 1) /\ UNCHANGED <<acks, dropped, conn_list, cl_opens>>
    BY DEF ReadData, Written
<1>6. Sound(t[3], View(heard, t))
    BY <1>2, <1>3 DEF Told, SoundAll
<1>9. /\ piece \in Pieces /\ piece.n = msg.n /\ (piece.whole <=> msg.torn = "no")
      /\ files' \in [Streams -> Seq(Pieces)] /\ files'[t] = Append(files[t], piece)
      /\ \A s \in Streams : s # t => files'[s] = files[s]
      /\ HeardInv(heard)'
  <2>1. Wrote(heard, t, msg)
    BY <1>1, <1>2, <1>3, <1>5, WrittenIs
  <2> QED BY <1>4, <2>1 DEF Wrote
<1>10. TypeOK' /\ ScanInv' /\ RouteInv' /\ OneDirectory'
  <2>1. acks' \in [Conns -> Nat] /\ cl_opens' \in [Hosts -> Nat]
    BY <1>5 DEF NetInv, TypeOK
  <2> QED BY <1>1, <1>2, <1>5, <1>9, <2>1, TakenTypes
<1>11. \A j \in Conns : toServer'[j] = IF j = k THEN Tail(toServer[k]) ELSE toServer[j]
    BY <1>1, <1>5, TakeIs DEF NetInv
<1>13. SoundAll(heard)'
  <2> SUFFICES ASSUME NEW s \in Streams PROVE Sound(s[3], View(heard, s)')
    BY DEF SoundAll
  <2>1. Sound(s[3], View(heard, s)) /\ Of(s) \in Conns
    BY <1>3, OfParts DEF Told, SoundAll
  <2>2. CASE s = t
    <3>1. PICK x, y : Turn(heard, heard, t, x, y)
      BY <1>2, <1>6, <1>10, TurnParts DEF NetInv
    <3>2. x.q[1] = msg /\ x.q[1].dev = t[3]
      BY <1>2, <3>1 DEF Turn
    <3>3. Takes(x, y) /\ y.heard = x.heard /\ y.acks = x.acks
          /\ Sound(s[3], x) /\ x \in Views /\ y \in Views
      <4>1. toServer'[k] = Tail(toServer[k]) /\ acks'[k] = acks[k]
            /\ dropped'[k] = dropped[k]
        BY <1>1, <1>5, <1>11
      <4>2. Takes(x, y) /\ y.acks = x.acks
        <5>1. /\ toServer[Of(t)] # <<>> /\ toServer'[Of(t)] = Tail(toServer[Of(t)])
              /\ acks'[Of(t)] = acks[Of(t)] /\ dropped'[Of(t)] = dropped[Of(t)]
          BY <1>2, <4>1
        <5> QED BY <3>1, <5>1 DEF Turn, Takes
      <4> QED BY <2>2, <3>1, <4>2 DEF Turn
    <3>5. y.file = Append(x.file, piece)
      BY <1>9, <3>1 DEF Turn
    <3>4. Sound(s[3], y)
      BY <1>9, <2>2, <3>2, <3>3, <3>5, TakeNext
    <3> QED BY <2>2, <3>1, <3>4 DEF Turn
  <2>3. CASE s # t /\ Of(s) = k
    <3>1. s[3] # t[3] /\ ~sendfile[s[1]]
      BY <1>2, <2>3, OfSame
    <3>3. net[Of(s)] # "short"
      BY <2>1, <3>1, OfParts DEF NetInv, StageInv
    <3>2. /\ toServer[Of(s)] # <<>> /\ toServer[Of(s)][1].dev # s[3]
          /\ toServer'[Of(s)] = Tail(toServer[Of(s)])
          /\ dropped'[Of(s)] = dropped[Of(s)] /\ acks'[Of(s)] = acks[Of(s)]
          /\ files'[s] = files[s]
      BY <1>1, <1>2, <1>5, <1>9, <1>11, <2>3, <3>1
    <3> QED BY <1>10, <2>1, <3>2, <3>3, NeighbourSound DEF NetInv
  <2>4. CASE s # t /\ Of(s) # k
    BY <1>5, <1>9, <1>10, <1>11, <2>1, <2>4, BystanderSound DEF NetInv
  <2> QED BY <2>2, <2>3, <2>4
<1> QED BY <1>9, <1>10, <1>13, Handled

\* What is left of the messages on their way when the server has read on in the
\* first two.
Leftover(q, m, left, r) ==
    /\ r \in Seq(Messages) /\ Len(r) = Len(q) - 2 + m /\ Len(q) \in Nat
    /\ \A i \in 1..Len(r) : IF i = m THEN r[i] = left[1]
                            ELSE r[i] = q[i + 2 - m]
    /\ \A i \in 1..Len(r) : i + 2 - m \in 1..Len(q)

\* It is what comes behind them, and perhaps a message before it.
LEMMA OverParts ==
    ASSUME NEW q \in Seq(Messages), Len(q) > 1, NEW m \in {0, 1},
           NEW left \in Seq(Messages), Len(left) = m
    PROVE  Leftover(q, m, left, left \o Tail(Tail(q)))
<1> DEFINE p == Tail(q)
           rest == Tail(p)
<1>0. m \in Nat /\ (m = 0 \/ m = 1)
    OBVIOUS
<1>1. /\ p \in Seq(Messages) /\ Len(q) \in Nat /\ Len(p) = Len(q) - 1
      /\ \A i \in 1..Len(q) - 1 : p[i] = q[i + 1]
  <2>1. q # <<>>
    OBVIOUS
  <2> QED BY <2>1, TailParts
<1> HIDE DEF p
<1>2. /\ rest \in Seq(Messages) /\ Len(rest) = Len(q) - 2
      /\ \A i \in 1..Len(p) - 1 : rest[i] = p[i + 1]
  <2>1. p # <<>>
    BY <1>1
  <2>2. rest \in Seq(Messages) /\ Len(rest) = Len(p) - 1
        /\ \A i \in 1..Len(p) - 1 : rest[i] = p[i + 1]
    BY <1>1, <2>1, TailParts
  <2> QED BY <1>1, <2>2
<1>3. \A i \in 1..Len(rest) : rest[i] = q[i + 2]
  <2> SUFFICES ASSUME NEW i \in 1..Len(rest) PROVE rest[i] = q[i + 2]
    OBVIOUS
  <2>1. i \in 1..Len(p) - 1 /\ i + 1 \in 1..Len(q) - 1 /\ (i + 1) + 1 = i + 2
    BY <1>1, <1>2
  <2> QED BY <1>1, <1>2, <2>1
<1>4. PICK r : r = left \o rest /\ r = left \o Tail(Tail(q))
    BY DEF p
<1> HIDE DEF rest
<1>5. /\ left \o rest \in Seq(Messages) /\ Len(left \o rest) = Len(left) + Len(rest)
      /\ \A i \in 1..Len(left) + Len(rest) :
            (left \o rest)[i] = IF i <= Len(left) THEN left[i] ELSE rest[i - Len(left)]
    BY <1>2
<1>6. /\ r \in Seq(Messages) /\ Len(r) = m + Len(rest)
      /\ \A i \in 1..Len(r) : r[i] = IF i <= m THEN left[i] ELSE rest[i - m]
    BY <1>4, <1>5
<1>7. ASSUME NEW i \in 1..Len(r)
      PROVE  /\ IF i = m THEN r[i] = left[1] ELSE r[i] = q[i + 2 - m]
             /\ i + 2 - m \in 1..Len(q)
  <2>1. CASE i <= m
    <3>1. m = 1 /\ i = 1
      BY <1>0, <2>1
    <3>2. r[i] = left[1]
      BY <1>6, <2>1, <3>1
    <3>3. i + 2 - m = 2 /\ 2 \in 1..Len(q) /\ i = m
      BY <1>1, <3>1
    <3> QED BY <3>2, <3>3
  <2>2. CASE ~(i <= m)
    <3>1. Len(r) = m + (Len(q) - 2) /\ i \in Nat
      BY <1>0, <1>1, <1>2, <1>6
    <3>2. i - m \in 1..Len(rest) /\ i # m /\ (i - m) + 2 = i + 2 - m
          /\ i + 2 - m \in 1..Len(q)
      BY <1>0, <1>1, <1>2, <2>2, <3>1
    <3>3. r[i] = rest[i - m]
      BY <1>6, <2>2
    <3>4. rest[i - m] = q[(i - m) + 2]
      BY <1>3, <3>2
    <3> QED BY <3>2, <3>3, <3>4
  <2> QED BY <2>1, <2>2
<1>8. Len(r) = Len(q) - 2 + m
    BY <1>0, <1>1, <1>2, <1>6
<1>9. Leftover(q, m, left, r)
    BY <1>1, <1>6, <1>7, <1>8 DEF Leftover
<1> QED BY <1>4, <1>9

\* The server takes what follows for the data that is missing, of a connection
\* on which a send fell short.
Overread(k, m, left) ==
    /\ m \in {0, 1} /\ left \in Seq(Messages) /\ Len(left) = m
    /\ toServer' = [toServer EXCEPT ![k] = left \o Tail(Tail(toServer[k]))]

\* What it leaves is on its way as before.
LEMMA OverreadIs ==
    ASSUME NetInv, Quiet, NEW k \in Conns, Len(toServer[k]) > 1,
           NEW m, NEW left, Overread(k, m, left),
           m = 1 => left[1].dev \in {toServer[k][1].dev, toServer[k][2].dev}
    PROVE  /\ toServer' \in [Conns -> Seq(Messages)] /\ RouteInv'
           /\ toServer[k] \in Seq(Messages)
           /\ toServer'[k] = left \o Tail(Tail(toServer[k]))
           /\ \A j \in Conns : j # k => toServer'[j] = toServer[j]
<1>0. m \in {0, 1} /\ left \in Seq(Messages) /\ Len(left) = m
    BY DEF Overread
<1>1. toServer \in [Conns -> Seq(Messages)]
    BY DEF NetInv, TypeOK
<1>2. PICK q, r : q = toServer[k] /\ q \in Seq(Messages) /\ Len(q) > 1
                  /\ r = left \o Tail(Tail(q))
    BY <1>1
<1>3. /\ r \in Seq(Messages) /\ Len(r) = Len(q) - 2 + m /\ Len(q) \in Nat
      /\ \A i \in 1..Len(r) : IF i = m THEN r[i] = left[1] ELSE r[i] = q[i + 2 - m]
      /\ \A i \in 1..Len(r) : i + 2 - m \in 1..Len(q)
  <2>1. Leftover(q, m, left, r)
    BY <1>0, <1>2, OverParts
  <2> QED BY <2>1 DEF Leftover
<1>4. /\ toServer' \in [Conns -> Seq(Messages)] /\ toServer'[k] = r
      /\ \A j \in Conns : j # k => toServer'[j] = toServer[j]
    BY <1>1, <1>2, <1>3 DEF Overread
<1>5. ASSUME NEW i \in 1..Len(r)
      PROVE  \E j \in 1..Len(q) : r[i].dev = q[j].dev
  <2>1. CASE i = m
    <3>1. m = 1
      BY <1>0, <2>1
    <3>2. 1 \in 1..Len(q) /\ 2 \in 1..Len(q)
      <4>1. Len(q) \in Nat /\ Len(q) > 1
        BY <1>2, <1>3
      <4> QED BY <4>1
    <3>3. r[i] = left[1] /\ left[1].dev \in {q[1].dev, q[2].dev}
      BY <1>2, <1>3, <2>1, <3>1
    <3> QED BY <3>2, <3>3
  <2>2. CASE i # m
    BY <1>3, <2>2
  <2> QED BY <2>1, <2>2
<1>6. \A j \in Conns : \A i \in 1..Len(toServer'[j]) :
          \E n \in 1..Len(toServer[j]) : toServer'[j][i].dev = toServer[j][n].dev
  <2>1. ASSUME NEW j \in Conns, NEW i \in 1..Len(toServer'[j])
        PROVE  \E n \in 1..Len(toServer[j]) : toServer'[j][i].dev = toServer[j][n].dev
    <3>1. CASE j = k
      BY <1>2, <1>4, <1>5, <2>1, <3>1
    <3>2. CASE j # k
      BY <1>4, <2>1, <3>2
    <3> QED BY <3>1, <3>2
  <2> QED BY <2>1
<1>7. RouteInv'
    BY <1>6, RouteKept DEF NetInv, Quiet, client
<1> QED BY <1>1, <1>2, <1>4, <1>7

\* Of the messages of a stream one was taken for data: v is what was known, with
\* what was written.
ReadOn(v, w, q, m, left) ==
    /\ SameClient(v, w) /\ w.end = v.end /\ w.file = v.file
    /\ w.heard = v.heard /\ w.acks = v.acks /\ w.q = left \o Tail(Tail(q))
    /\ \/ /\ v.q = q /\ m = 1 /\ left[1] = q[1] /\ q[1].torn # "no"
       \/ /\ v.q = Tail(q) /\ ~Intact(v, 0)
          /\ m = 1 => /\ left[1].dev = q[2].dev /\ left[1].kind = q[2].kind
                      /\ left[1].n = q[2].n

\* What is known of the stream then.
LEMMA OverSound ==
    ASSUME NEW d, NEW v \in Views, NEW w \in Views, Sound(d, v),
           v.net = "short", NEW q \in Seq(Messages), Len(q) > 1,
           NEW m \in {0, 1}, NEW left \in Seq(Messages), Len(left) = m,
           ReadOn(v, w, q, m, left)
    PROVE  Sound(d, w)
<1>0. m \in Nat /\ (m = 0 \/ m = 1)
    OBVIOUS
<1>1. PICK r : r = w.q /\ r = left \o Tail(Tail(q))
    BY DEF ReadOn
<1>5. SameClient(v, w) /\ w.end = v.end /\ w.file = v.file
      /\ w.heard = v.heard /\ w.acks = v.acks
    BY DEF ReadOn
<1>2. /\ r \in Seq(Messages) /\ Len(r) = Len(q) - 2 + m /\ Len(q) \in Nat
      /\ \A i \in 1..Len(r) : IF i = m THEN r[i] = left[1] ELSE r[i] = q[i + 2 - m]
      /\ \A i \in 1..Len(r) : i + 2 - m \in 1..Len(q)
  <2>1. Leftover(q, m, left, r)
    BY <1>1, OverParts
  <2> QED BY <2>1 DEF Leftover
<1>3. CASE v.q = q /\ m = 1 /\ left[1] = q[1] /\ q[1].torn # "no"
  <2> DEFINE f == [i \in 1..Len(r) |-> IF i = 1 THEN 1 ELSE i + 1]
  <2>1. /\ f \in [1..Len(r) -> 1..Len(q)]
        /\ \A i, j \in 1..Len(r) : i < j => f[i] < f[j]
    BY <1>2, <1>3
  <2>2. \A i \in 1..Len(r) : r[i] = q[f[i]] /\ i \in Nat /\ i >= 1
    BY <1>2, <1>3
  <2>3. r[1] = q[1] /\ 1 \in 1..Len(r) /\ (1 \in 1..Len(r) => f[1] = 1)
    BY <1>2, <1>3
  <2> HIDE DEF f
  <2>4. \A i \in Nat : Intact(w, i) => ~(1 \in 1..i)
    BY <1>1, <1>3, <1>5, <2>3 DEF Intact, SameClient
  <2>5. ASSUME NEW i \in 1..Len(r), Intact(w, i - 1)
        PROVE  i = 1 /\ f[1] = 1 /\ Intact(v, 0)
    <3>1. i - 1 \in Nat
      BY <2>2
    <3>2. ~(1 \in 1..i - 1) /\ i \in Nat /\ i >= 1
      BY <2>2, <2>4, <2>5, <3>1
    <3>3. i = 1
      BY <3>2
    <3>4. Intact(v, 0)
      BY <1>5, <2>5 DEF Intact, SameClient
    <3> QED BY <2>3, <3>3, <3>4
  <2>6. ~Intact(w, Len(r))
    BY <1>2, <2>3, <2>4
  <2>7. /\ f \in [1..Len(w.q) -> 1..Len(v.q)]
        /\ \A i, j \in 1..Len(w.q) : i < j => f[i] < f[j]
        /\ ~Intact(w, Len(w.q))
    BY <1>1, <1>3, <2>1, <2>6
  <2>8. \A i \in 1..Len(w.q) :
            /\ w.q[i].dev = v.q[f[i]].dev /\ w.q[i].kind = v.q[f[i]].kind
            /\ w.q[i].n = v.q[f[i]].n
            /\ Intact(w, i - 1) => i = 1 /\ f[1] = 1 /\ Intact(v, 0)
    BY <1>1, <1>3, <2>2, <2>5
  <2> QED BY <1>5, <2>7, <2>8, ThinSound
<1>4. CASE /\ v.q = Tail(q) /\ ~Intact(v, 0)
           /\ m = 1 => /\ left[1].dev = q[2].dev /\ left[1].kind = q[2].kind
                       /\ left[1].n = q[2].n
  <2>1. PICK p : p = v.q /\ Len(p) = Len(q) - 1
                 /\ \A i \in 1..Len(q) - 1 : p[i] = q[i + 1]
    <3>1. q # <<>>
      OBVIOUS
    <3>2. Len(Tail(q)) = Len(q) - 1
          /\ \A i \in 1..Len(q) - 1 : Tail(q)[i] = q[i + 1]
      BY <3>1, TailParts
    <3> QED BY <1>4, <3>2
  <2> DEFINE f == [i \in 1..Len(r) |-> i + 1 - m]
  <2>2. /\ f \in [1..Len(r) -> 1..Len(p)]
        /\ \A i, j \in 1..Len(r) : i < j => f[i] < f[j]
    <3>1. \A i \in 1..Len(r) : i + 1 - m \in 1..Len(p)
      BY <1>0, <1>2, <2>1
    <3>2. f \in [1..Len(r) -> 1..Len(p)]
      BY <3>1
    <3>3. \A i, j \in 1..Len(r) : i < j => i + 1 - m < j + 1 - m
      BY <1>0
    <3> QED BY <3>2, <3>3
  <2>3. ASSUME NEW i \in 1..Len(r)
        PROVE  /\ r[i].dev = p[f[i]].dev /\ r[i].kind = p[f[i]].kind
               /\ r[i].n = p[f[i]].n
    <3>1. f[i] \in 1..Len(q) - 1 /\ f[i] + 1 = i + 2 - m
      BY <1>0, <1>2
    <3>2. p[f[i]] = q[i + 2 - m]
      BY <2>1, <3>1
    <3>3. i = m => m = 1 /\ i + 2 - m = 2
      BY <1>0
    <3> QED BY <1>2, <1>4, <3>2, <3>3
  <2> HIDE DEF f
  <2>4. \A i : ~Intact(w, i)
    BY <1>4, <1>5 DEF Intact, SameClient
  <2>5. /\ f \in [1..Len(w.q) -> 1..Len(v.q)]
        /\ \A i, j \in 1..Len(w.q) : i < j => f[i] < f[j]
        /\ ~Intact(w, Len(w.q))
    BY <1>1, <2>1, <2>2, <2>4
  <2>6. \A i \in 1..Len(w.q) :
            /\ w.q[i].dev = v.q[f[i]].dev /\ w.q[i].kind = v.q[f[i]].kind
            /\ w.q[i].n = v.q[f[i]].n
            /\ Intact(w, i - 1) => i = 1 /\ f[1] = 1 /\ Intact(v, 0)
    BY <1>1, <2>1, <2>3, <2>4
  <2> QED BY <1>5, <2>5, <2>6, ThinSound
<1> QED BY <1>3, <1>4 DEF ReadOn

\* The server takes what follows for the data it waits for.
LEMMA ReadOverStep ==
    ASSUME NetInv, srv = "scan", Quiet, NEW k, k = conn_list[pos],
           toServer[k] # <<>>, NEW msg, msg = Head(toServer[k]),
           msg.kind = "data", ReadOver(k, msg.dev, msg)
    PROVE  NetInv'
<1>1. k \in Conns /\ pos \in 1..Len(conn_list)
    BY ScannedIs
<1>2. PICK t : /\ msg \in Messages /\ toServer[k][1] = msg
               /\ 1 \in 1..Len(toServer[k])
               /\ t \in Streams /\ Of(t) = k /\ t[3] = msg.dev /\ t[1] = k[1]
               /\ t = <<k[1], k[2], msg.dev>> /\ msg.dev \in Devs
    BY <1>1, HeadIs
<1>3. PICK heard \in Hearings : Told(heard)
    BY DEF NetInv
<1>4. /\ msg.torn # "no" /\ Len(toServer[k]) > 1
      /\ UNCHANGED <<acks, dropped, conn_list, cl_opens>>
    BY DEF ReadOver
<1>5. PICK q \in Seq(Messages) : q = toServer[k]
    BY <1>1 DEF NetInv, TypeOK
<1>6. /\ Len(q) \in Nat /\ Len(q) > 1 /\ q # <<>> /\ q[1] = msg /\ Head(q) = msg
      /\ q[2] \in Messages
    BY <1>2, <1>4, <1>5
<1>7. Sound(t[3], View(heard, t))
    BY <1>2, <1>3 DEF Told, SoundAll
<1>8. net[k] = "short"
  <2>1. PICK x : x = View(heard, t) /\ x.q = q /\ x.net = net[k]
    BY <1>2, <1>5, ViewParts
  <2> QED BY <1>4, <1>6, <1>7, <2>1 DEF Sound, QueueOk
<1>9. \A s \in Streams : s # t => Of(s) # k
  <2>1. sendfile[k[1]]
    BY <1>1, <1>8 DEF NetInv, StageInv
  <2> QED BY <1>2, <2>1, OfSame
<1>10. \/ /\ Overread(k, 1, <<msg>>)
          /\ UNCHANGED <<srv, pfds, pos, events, devpaths, files>>
       \/ /\ Written(k, msg.dev, msg)
          /\ \E m \in {0, 1}, left \in Seq(Messages) :
                /\ Overread(k, m, left)
                /\ m = 1 => /\ left[1].dev = q[2].dev
                            /\ left[1].kind = q[2].kind /\ left[1].n = q[2].n
  <2> DEFINE rest == Tail(Tail(toServer[k]))
             next == toServer[k][2]
             Left(part) == <<[next EXCEPT !.torn = part]>>
  <2>1. CASE /\ toServer' = [toServer EXCEPT ![k] = <<msg>> \o rest]
             /\ UNCHANGED <<srv, pfds, pos, events, devpaths, files>>
    <3>1. <<msg>> \in Seq(Messages) /\ Len(<<msg>>) = 1
      BY <1>2
    <3> QED BY <2>1, <3>1 DEF Overread
  <2>2. CASE /\ Written(k, msg.dev, msg)
             /\ toServer' = [toServer EXCEPT ![k] = <<>> \o rest]
    <3>1. <<>> \in Seq(Messages) /\ Len(<<>>) = 0
      OBVIOUS
    <3>2. Overread(k, 0, <<>>) /\ 0 \in {0, 1} /\ 0 # 1
      BY <2>2, <3>1 DEF Overread
    <3> QED BY <2>2, <3>1, <3>2
  <2>3. CASE /\ Written(k, msg.dev, msg)
             /\ \E part \in {"header", "rest"} :
                   toServer' = [toServer EXCEPT ![k] = Left(part) \o rest]
    <3>1. PICK part \in {"header", "rest"} :
              toServer' = [toServer EXCEPT ![k] = Left(part) \o rest]
      BY <2>3
    <3>2. PICK piece : piece = [next EXCEPT !.torn = part]
      OBVIOUS
    <3>3. piece \in Messages /\ piece.dev = q[2].dev /\ piece.kind = q[2].kind
          /\ piece.n = q[2].n
      BY <1>5, <1>6, <3>2 DEF Messages
    <3>4. <<piece>> \in Seq(Messages) /\ Len(<<piece>>) = 1 /\ <<piece>>[1] = piece
      BY <3>3
    <3>5. Overread(k, 1, <<piece>>)
      BY <3>1, <3>2, <3>4 DEF Overread
    <3> QED BY <2>3, <3>3, <3>4, <3>5
  <2>4. \/ /\ toServer' = [toServer EXCEPT ![k] = <<msg>> \o rest]
           /\ UNCHANGED <<srv, pfds, pos, events, devpaths, files>>
        \/ /\ Written(k, msg.dev, msg)
           /\ \E left \in {<<>>, Left("header")} \cup
                    {Left(part) : part \in IF next.kind = "data"
                                           THEN {"rest"} ELSE {}} :
                 toServer' = [toServer EXCEPT ![k] = left \o rest]
    BY DEF ReadOver
  <2> QED BY <2>1, <2>2, <2>3, <2>4
<1>11. CASE /\ Overread(k, 1, <<msg>>)
            /\ UNCHANGED <<srv, pfds, pos, events, devpaths, files>>
  <2>0. <<msg>>[1] = msg
    OBVIOUS
  <2>1. /\ toServer' \in [Conns -> Seq(Messages)] /\ RouteInv'
        /\ toServer'[k] = <<msg>> \o Tail(Tail(q))
        /\ \A j \in Conns : j # k => toServer'[j] = toServer[j]
    BY <1>1, <1>2, <1>4, <1>5, <1>11, <2>0, OverreadIs
  <2>2. TypeOK'
    BY <1>4, <1>11, <2>1 DEF NetInv, TypeOK, Quiet, client
  <2>3. ScanInv' /\ OneDirectory'
    BY <1>4, <1>11 DEF NetInv, ScanInv, ReadyFrom, OneDirectory
  <2>4. HeardInv(heard)'
    <3>1. \A s : Of(s)' = Of(s)
      BY OfStays DEF Quiet, client
    <3>2. \A j, d : Known(j, d)' = Known(j, d)
      BY <1>11 DEF Known, HostOfConn
    <3> QED BY <1>3, <1>4, <3>1, <3>2 DEF Told, HeardInv, Counted
  <2>5. SoundAll(heard)'
    <3> SUFFICES ASSUME NEW s \in Streams PROVE Sound(s[3], View(heard, s)')
      BY DEF SoundAll
    <3>1. Sound(s[3], View(heard, s)) /\ Of(s) \in Conns
      BY <1>3, OfParts DEF Told, SoundAll
    <3>2. CASE s = t
      <4>1. PICK x, y : Turn(heard, heard, t, x, y)
        BY <1>2, <1>7, <2>2, TurnParts DEF NetInv
      <4>2. /\ x.q = q /\ y.q = <<msg>> \o Tail(Tail(q)) /\ x.net = "short"
            /\ SameClient(x, y) /\ y.end = x.end /\ y.file = x.file
            /\ y.heard = x.heard /\ y.acks = x.acks
            /\ Sound(s[3], x) /\ x \in Views /\ y \in Views
        BY <1>2, <1>4, <1>5, <1>8, <1>11, <2>1, <3>2, <4>1 DEF Turn
      <4>3. <<msg>> \in Seq(Messages) /\ Len(<<msg>>) = 1
        BY <1>2
      <4>4. Sound(s[3], y)
        <5>1. ReadOn(x, y, q, 1, <<msg>>)
          BY <1>4, <1>6, <2>0, <4>2 DEF ReadOn
        <5> QED BY <1>6, <4>2, <4>3, <5>1, OverSound
      <4> QED BY <3>2, <4>1, <4>4 DEF Turn
    <3>3. CASE s # t
      BY <1>4, <1>9, <1>11, <2>1, <2>2, <3>1, <3>3, BystanderSound DEF NetInv
    <3> QED BY <3>2, <3>3
  <2> QED BY <2>1, <2>2, <2>3, <2>4, <2>5, Handled
<1>12. ASSUME Written(k, msg.dev, msg), NEW m \in {0, 1},
              NEW left \in Seq(Messages), Overread(k, m, left),
              m = 1 => /\ left[1].dev = q[2].dev
                       /\ left[1].kind = q[2].kind /\ left[1].n = q[2].n
       PROVE  NetInv'
  <2>0. Len(left) = m
    BY <1>12 DEF Overread
  <2>1. /\ toServer' \in [Conns -> Seq(Messages)] /\ RouteInv'
        /\ toServer'[k] = left \o Tail(Tail(q))
        /\ \A j \in Conns : j # k => toServer'[j] = toServer[j]
    BY <1>1, <1>4, <1>5, <1>12, OverreadIs
  <2>2. PICK piece : piece = PieceOf(msg)
    OBVIOUS
  <2>3. /\ piece \in Pieces /\ piece.n = msg.n /\ (piece.whole <=> msg.torn = "no")
        /\ files' \in [Streams -> Seq(Pieces)]
        /\ files'[t] = Append(files[t], piece)
        /\ \A s \in Streams : s # t => files'[s] = files[s]
        /\ HeardInv(heard)'
    <3>1. Wrote(heard, t, msg)
      BY <1>1, <1>2, <1>3, <1>4, <1>12, WrittenIs
    <3> QED BY <2>2, <3>1 DEF Wrote
  <2>4. TypeOK' /\ ScanInv' /\ OneDirectory'
    <3>1. acks' \in [Conns -> Nat] /\ cl_opens' \in [Hosts -> Nat]
      BY <1>4 DEF NetInv, TypeOK
    <3>2. FindDpp(k, msg.dev) /\ GoOn(events - 1) /\ UNCHANGED <<dropped, conn_list>>
      BY <1>4, <1>12 DEF Written
    <3> QED BY <1>1, <1>2, <2>1, <2>3, <3>1, <3>2, MovedTypes
  <2>5. SoundAll(heard)'
    <3> SUFFICES ASSUME NEW s \in Streams PROVE Sound(s[3], View(heard, s)')
      BY DEF SoundAll
    <3>1. Sound(s[3], View(heard, s)) /\ Of(s) \in Conns
      BY <1>3, OfParts DEF Told, SoundAll
    <3>2. CASE s = t
      <4>1. PICK x, y : Turn(heard, heard, t, x, y)
        BY <1>2, <1>7, <2>4, TurnParts DEF NetInv
      <4>2. /\ x.q = q /\ y.q = left \o Tail(Tail(q)) /\ x.net = "short"
            /\ SameClient(x, y) /\ y.end = x.end
            /\ y.file = Append(x.file, piece)
            /\ y.heard = x.heard /\ y.acks = x.acks
            /\ Sound(s[3], x) /\ x \in Views /\ y \in Views
        <5>1. /\ toServer[Of(t)] = q /\ net[Of(t)] = "short"
              /\ toServer'[Of(t)] = left \o Tail(Tail(q))
              /\ acks'[Of(t)] = acks[Of(t)] /\ dropped'[Of(t)] = dropped[Of(t)]
          BY <1>2, <1>4, <1>5, <1>8, <2>1
        <5>2. y.file = Append(x.file, piece)
          BY <2>3, <4>1 DEF Turn
        <5> QED BY <3>2, <4>1, <5>1, <5>2 DEF Turn
      <4>3. PICK u : u = [x EXCEPT !.q = Tail(q), !.file = Append(x.file, piece)]
        OBVIOUS
      <4>4. /\ u.q = Tail(q) /\ u.file = Append(x.file, piece) /\ u.acks = x.acks
            /\ u.fd = x.fd /\ u.net = x.net /\ u.end = x.end
            /\ u.stage = x.stage /\ u.phase = x.phase /\ u.sent = x.sent
            /\ u.heard = x.heard
        BY <4>2, <4>3 DEF Views
      <4>5. u \in Views
        <5>1. Tail(q) \in Seq(Messages) /\ Append(x.file, piece) \in Seq(Pieces)
          BY <1>6, <2>3, <4>2 DEF Views
        <5> QED BY <4>2, <4>3, <5>1 DEF Views
      <4>6. Takes(x, u) /\ SameClient(x, u)
        BY <1>6, <4>2, <4>4 DEF Takes, SameClient
      <4>7. Sound(s[3], u)
        <5>1. x.q[1].dev = s[3] /\ x.q[1].kind = "data" /\ piece.n = x.q[1].n
              /\ (piece.whole <=> x.q[1].torn = "no")
          BY <1>2, <1>6, <2>3, <3>2, <4>2
        <5> QED BY <2>3, <4>2, <4>4, <4>5, <4>6, <5>1, TakeNext
      <4>8. u.net = "short" /\ SameClient(u, y) /\ y.end = u.end
            /\ y.file = u.file /\ y.heard = u.heard /\ y.acks = u.acks
        BY <4>2, <4>4 DEF SameClient
      <4>9. ~Intact(u, 0)
        <5>1. x.file \in Seq(Pieces) /\ Len(x.file) \in Nat
          BY <4>2 DEF Views
        <5>2. /\ Len(u.file) = Len(x.file) + 1
              /\ u.file[Len(x.file) + 1] = piece
          BY <2>3, <4>4, <5>1
        <5>3. Len(x.file) + 1 \in 1..Len(u.file) /\ ~piece.whole
          BY <1>4, <2>3, <5>1, <5>2
        <5> QED BY <4>8, <5>2, <5>3 DEF Intact
      <4>10. Sound(s[3], y)
        <5>1. ReadOn(u, y, q, m, left)
          BY <1>12, <4>2, <4>4, <4>8, <4>9 DEF ReadOn
        <5> QED BY <1>6, <2>0, <4>2, <4>5, <4>7, <4>8, <5>1, OverSound
      <4> QED BY <3>2, <4>1, <4>10 DEF Turn
    <3>3. CASE s # t
      BY <1>4, <1>9, <2>1, <2>3, <2>4, <3>1, <3>3, BystanderSound DEF NetInv
    <3> QED BY <3>2, <3>3
  <2> QED BY <2>1, <2>3, <2>4, <2>5, Handled
<1> QED BY <1>10, <1>11, <1>12

\* The server hears the last of a device, but not of its host.
LEMMA CloseDeviceStep ==
    ASSUME NetInv, srv = "scan", Quiet, NEW k, k = conn_list[pos],
           toServer[k] # <<>>, NEW msg, msg = Head(toServer[k]),
           msg.kind = "close", msg.torn = "no", CloseDevice(k, msg.dev),
           cl_opens[HostOfConn(k)] # 1
    PROVE  NetInv'
<1>1. k \in Conns /\ pos \in 1..Len(conn_list) /\ HostOf[k[1]] \in Hosts
    BY ScannedIs
<1>2. PICK t : /\ msg \in Messages /\ toServer[k][1] = msg
               /\ 1 \in 1..Len(toServer[k])
               /\ t \in Streams /\ Of(t) = k /\ t[3] = msg.dev /\ t[1] = k[1]
               /\ msg.dev \in Devs
    BY <1>1, HeadIs
<1>3. PICK heard \in Hearings : Told(heard)
    BY DEF NetInv
<1>4. /\ Take(k) /\ Ack(k) /\ FindDpp(k, msg.dev) /\ files' = FilesOf(k, msg.dev)
      /\ cl_opens' = [cl_opens EXCEPT ![HostOf[k[1]]] = @ - 1]
      /\ GoOn(events - 1) /\ UNCHANGED <<dropped, conn_list>>
    BY DEF CloseDevice, HostOfConn
<1>5. /\ acks' \in [Conns -> Nat] /\ acks'[k] = acks[k] + 1
      /\ \A j \in Conns : j # k => acks'[j] = acks[j]
    BY <1>1, <1>4, AckIs DEF NetInv
<1>6. Sound(t[3], View(heard, t))
    BY <1>2, <1>3 DEF Told, SoundAll
<1>7. heard[t] = "open" /\ stage[t[1]] \in {"stopping", "killed"}
  <2>1. PICK x : x = View(heard, t) /\ x.q = toServer[Of(t)] /\ x.heard = heard[t]
                 /\ x.stage = stage[t[1]]
    BY ViewParts
  <2>2. x.q[1].dev = t[3] /\ x.q[1].kind = "close" /\ 1 \in 1..Len(x.q)
    BY <1>2, <2>1
  <2> QED BY <1>6, <2>1, <2>2 DEF Sound, QueueOk
<1>8. files' = files /\ files \in [Streams -> Seq(Pieces)]
  <2>1. Known(Of(t), t[3])
    BY <1>2, <1>3, <1>7 DEF Told, HeardInv
  <2>2. TypeOK /\ HeardInv(heard) /\ Known(k, msg.dev)
    BY <1>2, <1>3, <2>1 DEF NetInv, Told
  <2>3. FilesOf(k, msg.dev) = files
    BY <1>1, <2>2, FilesIs
  <2> QED BY <1>4, <2>3 DEF NetInv, TypeOK, Pieces
<1>9. /\ cl_opens \in [Hosts -> Nat]
      /\ IsFiniteSet(Counted(heard, HostOf[k[1]])) /\ t \in Counted(heard, HostOf[k[1]])
      /\ cl_opens[HostOf[k[1]]] = Cardinality(Counted(heard, HostOf[k[1]]))
    BY <1>1, <1>2, <1>3, <1>7 DEF NetInv, TypeOK, Told, HeardInv, Counted
<1>10. cl_opens' \in [Hosts -> Nat]
  <2>1. cl_opens[HostOf[k[1]]] # 0
    BY <1>9, FS_EmptySet
  <2>2. cl_opens[HostOf[k[1]]] - 1 \in Nat
    BY <1>1, <1>9, <2>1
  <2> QED BY <1>1, <1>4, <1>9, <2>2
<1>11. TypeOK' /\ ScanInv' /\ RouteInv' /\ OneDirectory'
    BY <1>1, <1>2, <1>4, <1>5, <1>8, <1>10, TakenTypes
<1>12. \A j \in Conns : toServer'[j] = IF j = k THEN Tail(toServer[k]) ELSE toServer[j]
    BY <1>1, <1>4, TakeIs DEF NetInv
<1> DEFINE h2 == [heard EXCEPT ![t] = "over"]
<1>13. h2 \in Hearings /\ h2[t] = "over" /\ \A s \in Streams : s # t => h2[s] = heard[s]
    BY <1>2 DEF Hearings
<1>14. HeardInv(h2)'
  <2>1. ASSUME NEW g \in Hosts
        PROVE  /\ IsFiniteSet(Counted(h2, g))
               /\ cl_opens'[g] = Cardinality(Counted(h2, g))
    <3>1. IsFiniteSet(Counted(heard, g)) /\ cl_opens[g] = Cardinality(Counted(heard, g))
      BY <1>3 DEF Told, HeardInv
    <3>2. Counted(h2, g) = Counted(heard, g) \ {t}
      BY <1>2, CountedLess
    <3> HIDE DEF h2
    <3>3. IsFiniteSet(Counted(h2, g))
      BY <3>1, <3>2, FS_RemoveElement
    <3>4. CASE g = HostOf[k[1]]
      <4>1. cl_opens'[g] = cl_opens[g] - 1
        BY <1>1, <1>4, <1>9, <3>4
      <4> QED BY <1>9, <3>1, <3>2, <3>3, <3>4, <4>1, FS_RemoveElement
    <3>5. CASE g # HostOf[k[1]]
      <4>1. cl_opens'[g] = cl_opens[g]
        BY <1>1, <1>4, <1>9, <3>5
      <4>2. t \notin Counted(heard, g)
        BY <1>2, <3>5 DEF Counted
      <4> QED BY <3>1, <3>2, <3>3, <4>1, <4>2, FS_RemoveElement
    <3> QED BY <3>4, <3>5
  <2>2. HeardInv(heard) /\ FindDpp(Of(t), t[3]) /\ conn_list[pos] = Of(t)
        /\ conn_list' = conn_list
    BY <1>2, <1>3, <1>4 DEF Told
  <2> HIDE DEF h2
  <2> QED BY <1>1, <1>2, <1>13, <2>1, <2>2, HeardNext
<1>15. SoundAll(h2)'
  <2> HIDE DEF h2
  <2> SUFFICES ASSUME NEW s \in Streams PROVE Sound(s[3], View(h2, s)')
    BY DEF SoundAll
  <2>1. Sound(s[3], View(heard, s)) /\ Of(s) \in Conns
    BY <1>3, OfParts DEF Told, SoundAll
  <2>2. CASE s = t
    <3>1. PICK x, y : Turn(heard, h2, t, x, y)
      BY <1>2, <1>6, <1>11, <1>13, TurnParts DEF NetInv
    <3>2. x.q[1].kind = "close" /\ x.q[1].dev = t[3] /\ x.q[1].torn = "no"
      BY <1>2, <3>1 DEF Turn
    <3>3. Phase(t) \in {"opened", "ended"}
      BY <1>2, <1>7, StoppingPhase DEF NetInv, Typed
    <3>4. Takes(x, y) /\ y.heard = "over" /\ y.acks = x.acks + 1
          /\ y.file = x.file /\ x.phase \in {"opened", "ended"}
          /\ Sound(s[3], x) /\ x \in Views /\ y \in Views
      BY <1>1, <1>2, <1>4, <1>5, <1>8, <1>12, <1>13, <2>2, <3>1, <3>3 DEF Turn, Takes
    <3>5. Sound(s[3], y)
      BY <2>2, <3>2, <3>4, TakeLast
    <3> QED BY <2>2, <3>1, <3>5 DEF Turn
  <2>3. CASE s # t /\ Of(s) = k
    <3>1. s[3] # t[3] /\ s[1] = t[1]
      BY <1>2, <2>3, OfSame
    <3>2. Phase(s) \in {"opened", "ended"}
      BY <1>7, <3>1, StoppingPhase DEF NetInv, Typed
    <3>3. /\ toServer[Of(s)] # <<>> /\ toServer[Of(s)][1].dev # s[3]
          /\ toServer[Of(s)][1].torn = "no"
          /\ toServer'[Of(s)] = Tail(toServer[Of(s)])
          /\ dropped'[Of(s)] = dropped[Of(s)] /\ files'[s] = files[s]
          /\ h2[s] = heard[s]
      BY <1>1, <1>2, <1>4, <1>8, <1>12, <1>13, <2>3, <3>1
    <3> QED BY <1>11, <1>13, <2>1, <3>2, <3>3, NeighbourSound DEF NetInv
  <2>4. CASE s # t /\ Of(s) # k
    BY <1>4, <1>5, <1>8, <1>11, <1>12, <1>13, <2>1, <2>4, BystanderSound DEF NetInv
  <2> QED BY <2>2, <2>3, <2>4
<1> HIDE DEF h2
<1> QED BY <1>11, <1>13, <1>14, <1>15, Handled

\* The connections of a host that the server closes with it.
Gone(h) == {nc \in Range(conn_list) : HostOfConn(nc) = h}

\* The last close of a host: the device was open, and its files are kept.
LEMMA LastCloseIs ==
    ASSUME NetInv, NEW k \in Conns, toServer[k] # <<>>, NEW msg,
           msg = Head(toServer[k]), msg.kind = "close", CloseDevice(k, msg.dev),
           NEW heard \in Hearings, Told(heard)
    PROVE  /\ files' = files /\ k[1] \in Clients
           /\ stage[k[1]] \in {"stopping", "killed"}
           /\ \E t \in Streams : /\ Of(t) = k /\ t[1] = k[1] /\ t[3] = msg.dev
                                /\ toServer[k][1] = msg /\ 1 \in 1..Len(toServer[k])
                                /\ heard[t] = "open"
<1>1. PICK t : /\ msg \in Messages /\ toServer[k][1] = msg
               /\ 1 \in 1..Len(toServer[k])
               /\ t \in Streams /\ Of(t) = k /\ t[3] = msg.dev /\ t[1] = k[1]
               /\ msg.dev \in Devs
    BY HeadIs
<1>2. Sound(t[3], View(heard, t)) /\ t[1] \in Clients
    BY <1>1, StreamParts DEF Told, SoundAll
<1>3. heard[t] = "open" /\ stage[k[1]] \in {"stopping", "killed"}
  <2>1. PICK x : x = View(heard, t) /\ x.q = toServer[Of(t)] /\ x.heard = heard[t]
                 /\ x.stage = stage[t[1]]
    BY ViewParts
  <2>2. x.q[1].dev = t[3] /\ x.q[1].kind = "close" /\ 1 \in 1..Len(x.q)
    BY <1>1, <2>1
  <2> QED BY <1>1, <1>2, <2>1, <2>2 DEF Sound, QueueOk
<1>4. files' = files
  <2>1. Known(Of(t), t[3])
    BY <1>1, <1>3 DEF Told, HeardInv
  <2>2. TypeOK /\ HeardInv(heard) /\ Known(k, msg.dev) /\ files' = FilesOf(k, msg.dev)
    BY <1>1, <2>1 DEF NetInv, Told, CloseDevice
  <2> QED BY <2>2, FilesIs
<1> QED BY <1>1, <1>2, <1>3, <1>4

\* The server hears the last of a host, and removes it.
LEMMA RemoveHostStep ==
    ASSUME NetInv, srv = "scan", Quiet, NEW k, k = conn_list[pos],
           toServer[k] # <<>>, NEW msg, msg = Head(toServer[k]),
           msg.kind = "close", CloseDevice(k, msg.dev),
           cl_opens[HostOfConn(k)] = 1
    PROVE  NetInv'
<1>1. k \in Conns /\ pos \in 1..Len(conn_list) /\ HostOf[k[1]] \in Hosts
    BY ScannedIs
<1>3. PICK heard \in Hearings : Told(heard)
    BY DEF NetInv
<1> DEFINE h == HostOf[k[1]]
           gone == Gone(h)
<1>4. /\ Ack(k) /\ files' = FilesOf(k, msg.dev)
      /\ cl_opens' = [cl_opens EXCEPT ![h] = @ - 1] /\ cl_opens[h] = 1
      /\ dropped' = [nc \in Conns |-> dropped[nc] \/ nc \in gone]
      /\ toServer' = [nc \in Conns |-> IF nc \in gone THEN <<>> ELSE toServer[nc]]
      /\ conn_list' = Kept(conn_list, gone)
      /\ devpaths' = [devpaths EXCEPT ![h] = <<>>]
      /\ srv' = "poll" /\ pos' = 1 /\ events' = 0 /\ pfds' = <<>>
    BY DEF CloseDevice, RemoveHost, HostOfConn, Gone
<1>5. /\ acks' \in [Conns -> Nat]
      /\ \A j \in Conns : j # k => acks'[j] = acks[j]
    BY <1>1, <1>4, AckIs DEF NetInv
<1>8. files' = files
    BY <1>1, <1>3, LastCloseIs
<1>9. conn_list \in Seq(Conns) /\ DOMAIN conn_list = 1..Len(conn_list)
    BY DEF NetInv, TypeOK
<1>10. /\ conn_list' \in Seq(Conns)
       /\ \A j \in 1..Len(conn_list) : conn_list[j] \notin gone =>
             \E i \in 1..Len(conn_list') : conn_list'[i] = conn_list[j]
  <2> HIDE DEF gone
  <2>1. PICK conns, g : conns = conn_list /\ g = gone /\ conns \in Seq(Conns)
    BY <1>9
  <2>2. Kept(conns, g) = conn_list' /\ Kept(conns, g) \in Seq(Conns)
    BY <1>4, <2>1, KeptIs
  <2>3. \A j \in 1..Len(conns) : conns[j] \notin g =>
            \E i \in 1..Len(Kept(conns, g)) : Kept(conns, g)[i] = conns[j]
    BY <2>1, KeptIs
  <2> QED BY <2>1, <2>2, <2>3
<1>11. \A nc : nc \in gone <=>
           (\E j \in 1..Len(conn_list) : conn_list[j] = nc) /\ HostOf[nc[1]] = h
    BY <1>9 DEF Gone, Range, HostOfConn
<1> HIDE DEF gone
<1>12. /\ cl_opens \in [Hosts -> Nat] /\ devpaths \in [Hosts -> Seq(Devices)]
       /\ toServer \in [Conns -> Seq(Messages)] /\ dropped \in [Conns -> BOOLEAN]
    BY DEF NetInv, TypeOK, Devices
<1>13. /\ cl_opens' \in [Hosts -> Nat] /\ cl_opens'[h] = 0
       /\ \A g \in Hosts : g # h => cl_opens'[g] = cl_opens[g]
       /\ devpaths' \in [Hosts -> Seq(Devices)] /\ devpaths'[h] = <<>>
       /\ \A g \in Hosts : g # h => devpaths'[g] = devpaths[g]
    BY <1>1, <1>4, <1>12
<1>14. /\ toServer' \in [Conns -> Seq(Messages)] /\ dropped' \in [Conns -> BOOLEAN]
       /\ <<>> \in Seq(Polled)
    BY <1>4, <1>12
<1>15. TypeOK'
    BY <1>4, <1>5, <1>8, <1>10, <1>13, <1>14
       DEF NetInv, TypeOK, Polled, Devices, Quiet, client
<1>16. ScanInv'
    BY <1>4 DEF ScanInv
<1>17. RouteInv'
  <2>1. ASSUME NEW c \in Conns, NEW i \in 1..Len(toServer'[c])
        PROVE  \E j \in 1..Len(toServer[c]) : toServer'[c][i].dev = toServer[c][j].dev
    BY <1>4, <2>1
  <2> QED BY <2>1, RouteKept DEF NetInv, Quiet, client
<1>18. OneDirectory'
  <2> SUFFICES ASSUME NEW g \in Hosts, NEW j \in DOMAIN devpaths'[g],
                      NEW m \in DOMAIN devpaths'[g],
                      devpaths'[g][j].cl_id = devpaths'[g][m].cl_id
               PROVE  devpaths'[g][j].time = devpaths'[g][m].time
    BY DEF OneDirectory
  <2>1. CASE g = h
    BY <1>13, <2>1
  <2>2. CASE g # h
    <3>1. devpaths'[g] = devpaths[g]
      BY <1>13, <2>2
    <3>2. \A i, n \in DOMAIN devpaths[g] :
              devpaths[g][i].cl_id = devpaths[g][n].cl_id =>
                  devpaths[g][i].time = devpaths[g][n].time
      BY DEF NetInv, OneDirectory
    <3> QED BY <3>1, <3>2
  <2> QED BY <2>1, <2>2
<1> DEFINE h2 == [s \in Streams |-> IF HostOf[s[1]] = h THEN "new" ELSE heard[s]]
<1>19. /\ h2 \in Hearings
       /\ \A s \in Streams : IF HostOf[s[1]] = h THEN h2[s] = "new"
                             ELSE h2[s] = heard[s]
    BY DEF Hearings
<1> HIDE DEF h2, h
<1>20. \A s \in Streams : /\ Of(s) \in Conns /\ HostOf[Of(s)[1]] = HostOf[s[1]]
                          /\ HostOf[s[1]] \in Hosts /\ Of(s)' = Of(s)
    BY OfParts, OfStays, StreamParts, NetAssumption DEF Quiet, client
<1>21. \A s \in Streams : heard[s] # "new" =>
           /\ \E j \in 1..Len(conn_list) : conn_list[j] = Of(s)
           /\ Known(Of(s), s[3])
    BY <1>3 DEF Told, HeardInv
<1>22. HeardInv(h2)'
  <2>1. ASSUME NEW g \in Hosts
        PROVE  /\ IsFiniteSet(Counted(h2, g))
               /\ cl_opens'[g] = Cardinality(Counted(h2, g))
    <3>1. CASE g = h
      <4>1. Counted(h2, g) = {}
        BY <1>19, <3>1 DEF Counted
      <4> QED BY <1>13, <3>1, <4>1, FS_EmptySet
    <3>2. CASE g # h
      <4>1. Counted(h2, g) = Counted(heard, g)
        BY <1>19, <3>2 DEF Counted
      <4> QED BY <1>3, <1>13, <3>2, <4>1 DEF Told, HeardInv
    <3> QED BY <3>1, <3>2
  <2>2. ASSUME NEW s \in Streams, h2[s] # "new"
        PROVE  \E c : /\ c = Of(s)' /\ Known(c, s[3])'
                      /\ \E i \in 1..Len(conn_list') : conn_list'[i] = c
    <3>1. PICK c : c = Of(s) /\ c = Of(s)' /\ c \in Conns /\ HostOf[c[1]] # h
                   /\ HostOf[c[1]] \in Hosts /\ heard[s] # "new"
      BY <1>19, <1>20, <2>2
    <3>2. c \notin gone /\ Known(c, s[3])
          /\ \E j \in 1..Len(conn_list) : conn_list[j] = c
      BY <1>11, <1>21, <3>1
    <3>3. \E i \in 1..Len(conn_list') : conn_list'[i] = c
      BY <1>10, <3>2
    <3>4. Known(c, s[3])'
      BY <1>13, <3>1, <3>2 DEF Known, HostOfConn
    <3> QED BY <3>1, <3>3, <3>4
  <2>3. \A s \in Streams : h2[s] # "new" =>
            /\ \E i \in 1..Len(conn_list') : conn_list'[i] = Of(s)'
            /\ \E i \in DOMAIN devpaths'[HostOfConn(Of(s)')] :
                  /\ devpaths'[HostOfConn(Of(s)')][i].cl_id = Of(s)'[1]
                  /\ devpaths'[HostOfConn(Of(s)')][i].dev = s[3]
    BY <2>2 DEF Known, HostOfConn
  <2> QED BY <2>1, <2>3 DEF HeardInv, Known, HostOfConn, Counted
<1>23. SoundAll(h2)'
  <2> SUFFICES ASSUME NEW s \in Streams PROVE Sound(s[3], View(h2, s)')
    BY DEF SoundAll
  <2>1. Sound(s[3], View(heard, s)) /\ Of(s) \in Conns
    BY <1>3, <1>20 DEF Told, SoundAll
  <2>2. CASE Of(s) \in gone
    <3>1. PICK v, w : Turn(heard, h2, s, v, w)
      BY <1>15, <1>19, <2>1, TurnParts DEF NetInv
    <3>2. toServer'[Of(s)] = <<>> /\ dropped'[Of(s)] = TRUE /\ files'[s] = files[s]
      BY <1>4, <1>8, <2>1, <2>2
    <3>3. w.q = <<>> /\ w.end = "closed" /\ w.file = v.file /\ SameClient(v, w)
          /\ Sound(s[3], v) /\ v \in Views /\ w \in Views
      BY <3>1, <3>2 DEF Turn
    <3>4. Sound(s[3], w)
      BY <3>3, DropSound
    <3> QED BY <3>1, <3>4 DEF Turn
  <2>3. CASE Of(s) \notin gone
    <3>1. k \in gone
      BY <1>1, <1>11 DEF h
    <3>2. h2[s] = heard[s]
      BY <1>11, <1>19, <1>20, <1>21, <2>3
    <3>3. /\ toServer'[Of(s)] = toServer[Of(s)] /\ acks'[Of(s)] = acks[Of(s)]
          /\ dropped'[Of(s)] = dropped[Of(s)] /\ files'[s] = files[s]
      BY <1>4, <1>5, <1>8, <1>12, <2>1, <2>3, <3>1
    <3> QED BY <1>15, <1>19, <2>1, <3>2, <3>3, BystanderSound DEF NetInv
  <2> QED BY <2>2, <2>3
<1> QED BY <1>15, <1>16, <1>17, <1>18, <1>19, <1>22, <1>23, Handled

\* The handling of a connection keeps the invariant.
LEMMA NetClientDataStep == ASSUME NetInv, NetClientData PROVE NetInv'
<1>1. srv = "scan" /\ Quiet
    BY DEF NetClientData, Quiet
<1>2. PICK k : k = conn_list[pos] /\ k \in Conns
    BY <1>1, ScannedIs
<1>3. \/ EndOfFile(k)
      \/ toServer[k] # <<>> /\ BadHeader(k)
      \/ /\ toServer[k] # <<>>
         /\ \/ /\ Head(toServer[k]).kind = "open" /\ Head(toServer[k]).torn = "no"
               /\ OpenDevice(k, Head(toServer[k]).dev)
            \/ /\ Head(toServer[k]).kind = "close" /\ Head(toServer[k]).torn = "no"
               /\ CloseDevice(k, Head(toServer[k]).dev)
            \/ /\ Head(toServer[k]).kind = "data"
               /\ \/ ReadData(k, Head(toServer[k]).dev, Head(toServer[k]))
                  \/ ReadOver(k, Head(toServer[k]).dev, Head(toServer[k]))
    BY <1>2 DEF NetClientData
<1> QED BY <1>1, <1>2, <1>3, EndOfFileStep, BadHeaderStep, OpenDeviceStep,
           ReadDataStep, ReadOverStep, CloseDeviceStep, RemoveHostStep

\* It holds at first, when the server has heard of nothing.
LEMMA NetInit == ASSUME Init PROVE NetInv
<1>1. PICK runs \in Together :
          /\ stage = [c \in Clients |-> IF c \in runs THEN "starting" ELSE "absent"]
          /\ pc = [l \in Lanes |-> IF l[1] \in runs THEN "connect" ELSE "gone"]
          /\ sendfile \in [Clients -> BOOLEAN]
    BY DEF Init
<1>2. /\ done = [c \in Clients |-> FALSE]
      /\ dev = [l \in Lanes |-> 1]
      /\ sent = [s \in Streams |-> 0]
      /\ fd = [k \in Conns |-> "none"]
      /\ net = [k \in Conns |-> "up"] /\ dropped = [k \in Conns |-> FALSE]
      /\ toServer = [k \in Conns |-> <<>>] /\ acks = [k \in Conns |-> 0]
      /\ backlog = <<>>
      /\ srv = "poll" /\ conn_list = <<>> /\ pfds = <<>> /\ pos = 1
      /\ events = 0
      /\ cl_opens = [h \in Hosts |-> 0] /\ devpaths = [h \in Hosts |-> <<>>]
      /\ connect_time = [k \in Conns |-> 0] /\ clock = 0
      /\ files = [s \in Streams |-> <<>>]
    BY DEF Init
<1>3. \A l \in Lanes : l[1] \in Clients /\ 1 \in DevsOf(l[1]) /\ 1 \in Devs
  <2>1. \A l \in Lanes : NDevs[l[1]] \in Nat /\ NDevs[l[1]] >= 1 /\ l[1] \in Clients
    BY LaneParts
  <2> QED BY <2>1 DEF DevsOf, Devs
<1>4. TypeOK
  <2>1. <<>> \in Seq(Conns) /\ <<>> \in Seq([nc : Conns, in : BOOLEAN])
        /\ <<>> \in Seq(Messages)
        /\ <<>> \in Seq([cl_id : Clients, dev : Devs, time : Nat])
        /\ <<>> \in Seq([n : Nat, whole : BOOLEAN]) /\ Len(backlog) = 0
    BY <1>2
  <2>2. dev \in [Lanes -> Devs]
    BY <1>2, <1>3
  <2>3. pc \in [Lanes -> Pcs] /\ stage \in [Clients -> {"starting", "tracing",
             "stopping", "killed", "absent"}]
    BY <1>1 DEF Pcs
  <2> QED BY <1>1, <1>2, <2>1, <2>2, <2>3, NetAssumption DEF TypeOK
<1>5. StageInv
  <2>1. \A k \in Conns : net[k] # "short"
    BY <1>2
  <2> QED BY <1>1, <1>2, <1>3, <2>1 DEF StageInv
<1>6. RouteInv
    BY <1>2 DEF RouteInv
<1>7. ScanInv /\ OneDirectory
    BY <1>2 DEF ScanInv, OneDirectory
<1> DEFINE heard == [s \in Streams |-> "new"]
<1>8. heard \in Hearings /\ \A s \in Streams : heard[s] = "new"
    BY DEF Hearings
<1> HIDE DEF heard
<1>9. HeardInv(heard)
  <2>1. \A h \in Hosts : Counted(heard, h) = {}
    BY <1>8 DEF Counted
  <2> QED BY <1>2, <1>8, <2>1, FS_EmptySet DEF HeardInv
<1>10. SoundAll(heard)
  <2> SUFFICES ASSUME NEW s \in Streams PROVE Sound(s[3], View(heard, s))
    BY DEF SoundAll
  <2>1. PICK v : /\ v = View(heard, s) /\ v \in Views /\ v.q = toServer[Of(s)]
                 /\ v.acks = acks[Of(s)] /\ v.stage = stage[s[1]]
                 /\ v.phase = Phase(s) /\ v.sent = sent[s] /\ v.file = files[s]
                 /\ v.heard = heard[s]
    BY <1>4, <1>8, ViewIs, ViewParts
  <2>2. Of(s) \in Conns /\ s[1] \in Clients /\ LaneOf(s) \in Lanes
        /\ LaneOf(s)[1] = s[1] /\ s[3] \in Nat /\ s[3] >= 1
    BY OfParts, StreamParts
  <2>3. /\ v.q = <<>> /\ v.acks = 0 /\ v.sent = 0 /\ v.file = <<>>
        /\ v.heard = "new" /\ Len(v.q) = 0 /\ Len(v.file) = 0
    BY <1>2, <1>8, <2>1, <2>2
  <2>4. v.stage = "absent" \/ v.phase = "fresh"
      <3>1. CASE s[1] \in runs
      <4>1. pc[LaneOf(s)] = "connect" /\ dev[LaneOf(s)] = 1
        BY <1>1, <1>2, <2>2, <3>1
      <4> QED BY <2>1, <2>2, <4>1 DEF Phase
    <3>2. CASE s[1] \notin runs
      BY <1>1, <2>1, <2>2, <3>2
    <3> QED BY <3>1, <3>2
  <2>5. QueueOk(s[3], v) /\ DataOk(s[3], v) /\ FileOk(v)
    BY <2>3 DEF QueueOk, DataOk, FileOk
  <2>6. PhaseOk(s[3], v)
    BY <2>3, <2>4 DEF PhaseOk, Up, Reaches, Early
  <2> QED BY <2>1, <2>5, <2>6 DEF Sound
<1> QED BY <1>4, <1>5, <1>6, <1>7, <1>8, <1>9, <1>10 DEF NetInv, Told

\* The invariant is kept by every step.
LEMMA NetStep == ASSUME NetInv, [Next]_vars PROVE NetInv'
<1>1. CASE Server
    BY <1>1, PollStep, NetClientDataStep DEF Server
<1>2. ASSUME NEW l \in Lanes, \/ Lane(l)
                              \/ \E d \in DevsOf(l[1]) : SendData(l, d) \/ SendPart(l, d)
      PROVE  NetInv'
    BY <1>2, LaneStep, SendDataStep, SendPartStep
<1>3. ASSUME NEW c \in Clients, StartTracing(c) \/ Stop(c) \/ Kill(c)
      PROVE  NetInv'
    BY <1>3, ClientStep
<1>4. ASSUME NEW k \in Conns, Break(k) PROVE NetInv'
    BY <1>4, BreakStep
<1>5. CASE UNCHANGED vars
    BY <1>5, StutterStep
<1> QED BY <1>1, <1>2, <1>3, <1>4, <1>5 DEF Next

-----------------------------------------------------------------------------
(* One client per machine: the server drops a client when it is over.      *)

\* No two clients that run together run on the same machine.
OneClientPerHost ==
    \A runs \in Together : \A c, d \in runs : HostOf[c] = HostOf[d] => c = d

\* At most one client of a machine runs.
Alone ==
    \A c, d \in Clients :
        stage[c] # "absent" /\ stage[d] # "absent" /\ HostOf[c] = HostOf[d]
            => c = d

\* The server has taken all the client sent, and dropped its connections.
Over(c) ==
    /\ stage[c] = "stopping"
    /\ \A s \in Streams : s[1] = c =>
          /\ Phase(s) = "ended" /\ Len(files[s]) = sent[s]
          /\ dropped[Of(s)] /\ toServer[Of(s)] = <<>>

\* Only a client that is over has been dropped.
DroppedOver ==
    \A s \in Streams :
        (Served(s[1]) /\ stage[s[1]] # "absent" /\ dropped[Of(s)]) => Over(s[1])

\* Damage stays: a client that is served now was served before.
LEMMA ServedBefore ==
    ASSUME NetInv, [Next]_vars, NEW c \in Clients, Served(c)'
    PROVE  Served(c) /\ (stage'[c] = "absent" <=> stage[c] = "absent")
<1>0. TypeOK
    BY DEF NetInv
<1>1. CASE Server
    BY <1>1 DEF Server, Poll, NetClientData, Served, Undamaged, client
<1>2. ASSUME NEW l \in Lanes, Lane(l) \/ \E d \in DevsOf(l[1]) : SendData(l, d)
      PROVE  Served(c) /\ stage' = stage
  <2>1. UNCHANGED <<stage, net, srv>>
    BY <1>2 DEF Lane, Connect, Open, OpenAcked, StartClose, SendClose, TestDone,
                CloseAcked, SendData, server
  <2> QED BY <2>1 DEF Served, Undamaged
<1>3. ASSUME NEW b \in Clients, StartTracing(b) \/ Stop(b) \/ Kill(b)
      PROVE  Served(c) /\ (stage'[c] = "absent" <=> stage[c] = "absent")
  <2>1. UNCHANGED <<net, srv>>
    BY <1>3 DEF StartTracing, Stop, Kill, server
  <2>2. /\ stage'[c] # "killed" => stage[c] # "killed"
        /\ stage'[c] # "killed" => (stage'[c] = "absent" <=> stage[c] = "absent")
    BY <1>0, <1>3 DEF StartTracing, Stop, Kill, TypeOK
  <2> QED BY <2>1, <2>2 DEF Served, Undamaged
<1>4. ASSUME NEW k \in Conns, Break(k) PROVE Served(c) /\ stage' = stage
  <2>1. stage' = stage /\ srv' = srv
        /\ \E how \in {"lost", "silent"} : net' = [net EXCEPT ![k] = how]
    BY <1>4 DEF Break, client, server
  <2>2. \A j \in Conns : net'[j] = "up" => net[j] = "up"
    BY <1>0, <2>1 DEF TypeOK
  <2> QED BY <2>1, <2>2 DEF Served, Undamaged
<1>5. ASSUME NEW l \in Lanes, NEW d \in DevsOf(l[1]), SendPart(l, d)
      PROVE  Served(c) /\ stage' = stage
  <2>1. stage' = stage /\ srv' = srv
        /\ net' = [net EXCEPT ![ConnOf(l, d)] = "short"]
    BY <1>5 DEF SendPart, server
  <2>2. \A j \in Conns : net'[j] = "up" => net[j] = "up"
    BY <1>0, <2>1 DEF TypeOK
  <2> QED BY <2>1, <2>2 DEF Served, Undamaged
<1>6. CASE UNCHANGED vars
    BY <1>6 DEF vars, client, server, Served, Undamaged
<1> QED BY <1>1, <1>2, <1>3, <1>4, <1>5, <1>6 DEF Next

\* A client that does not run never will.
LEMMA AbsentStays ==
    ASSUME NetInv, [Next]_vars, NEW c \in Clients
    PROVE  stage[c] = "absent" => stage'[c] = "absent"
<1>0. TypeOK /\ StageInv
    BY DEF NetInv
<1>1. CASE Server
    BY <1>1 DEF Server, Poll, NetClientData, client
<1>2. ASSUME NEW l \in Lanes, \/ Lane(l)
                              \/ \E d \in DevsOf(l[1]) : SendData(l, d) \/ SendPart(l, d)
      PROVE  stage' = stage
    BY <1>2 DEF Lane, Connect, Open, OpenAcked, StartClose, SendClose, TestDone,
                CloseAcked, SendData, SendPart, server
<1>3. ASSUME NEW b \in Clients, StartTracing(b) \/ Stop(b)
      PROVE  stage[c] = "absent" => stage'[c] = "absent"
    BY <1>0, <1>3 DEF StartTracing, Stop, TypeOK
<1>4. ASSUME NEW b \in Clients, Kill(b)
      PROVE  stage[c] = "absent" => stage'[c] = "absent"
  <2>1. stage[b] # "absent"
    <3>1. PICK l \in LanesOf(b) : pc[l] # "gone"
      BY <1>4 DEF Kill
    <3>2. l \in Lanes /\ l[1] = b
      BY <3>1 DEF Lanes, LanesOf
    <3> QED BY <1>0, <3>1, <3>2 DEF StageInv
  <2> QED BY <1>0, <1>4, <2>1 DEF Kill, TypeOK
<1>5. ASSUME NEW k \in Conns, Break(k) PROVE stage' = stage
    BY <1>5 DEF Break, client
<1>6. CASE UNCHANGED vars
    BY <1>6 DEF vars, client
<1> QED BY <1>1, <1>2, <1>3, <1>4, <1>5, <1>6 DEF Next

\* No client appears later.
LEMMA AloneStep == ASSUME NetInv, Alone, [Next]_vars PROVE Alone'
BY AbsentStays DEF Alone

\* The other lanes stay where they are.
LEMMA LaneMoves ==
    ASSUME Typed, NEW l \in Lanes, Lane(l)
    PROVE  /\ \A q \in Lanes : q # l => pc'[q] = pc[q] /\ dev'[q] = dev[q]
           /\ sendfile' = sendfile /\ stage' = stage /\ sent' = sent
           /\ dropped' = dropped /\ files' = files
           /\ \A k \in Conns : dropped[k] => toServer'[k] = toServer[k]
<1>1. /\ \A q \in Lanes : q # l => pc'[q] = pc[q] /\ dev'[q] = dev[q]
      /\ sendfile' = sendfile /\ stage' = stage /\ sent' = sent
      /\ dropped' = dropped /\ files' = files
    BY DEF Lane, Connect, Open, OpenAcked, StartClose, SendClose, TestDone,
           CloseAcked, Goto, ToDev, server, Typed, TypeOK
<1>2. Conn(l) \in Conns
    BY LaneConns
<1>3. CASE Open(l) \/ SendClose(l)
  <2>1. PICK msg : Send(Conn(l), msg)
    BY <1>3 DEF Open, SendClose
  <2>2. \A k \in Conns : dropped[k] => toServer'[k] = toServer[k]
    BY <1>2, <2>1, SendIs DEF Typed, Unreachable
  <2> QED BY <1>1, <2>2
<1>4. CASE ~(Open(l) \/ SendClose(l))
  <2>1. toServer' = toServer
    BY <1>4 DEF Lane, Connect, OpenAcked, StartClose, TestDone, CloseAcked
  <2> QED BY <1>1, <2>1
<1> QED BY <1>3, <1>4

\* A client whose data is all with the server stays so.
LEMMA LaneOver ==
    ASSUME NetInv, NEW l \in Lanes, Lane(l), NEW c \in Clients, Over(c)
    PROVE  Over(c)'
<1>0. Typed
    BY DEF NetInv, Typed
<1>1. /\ \A q \in Lanes : q # l => pc'[q] = pc[q] /\ dev'[q] = dev[q]
      /\ sendfile' = sendfile /\ stage' = stage /\ sent' = sent
      /\ dropped' = dropped /\ files' = files
      /\ \A k \in Conns : dropped[k] => toServer'[k] = toServer[k]
    BY <1>0, LaneMoves
<1>2. \A s \in Streams : Of(s)' = Of(s) /\ Of(s) \in Conns
    BY <1>1, OfStays, OfParts
<1>3. ASSUME NEW s \in Streams, s[1] = c PROVE Phase(s)' = "ended"
  <2>1. Phase(s) = "ended" /\ LaneOf(s) \in Lanes
    BY <1>3, StreamParts DEF Over
  <2>2. CASE LaneOf(s) = l
    BY <1>0, <2>1, <2>2, ConnectPhase, OpenPhase, OpenAckedPhase,
       StartClosePhase, SendClosePhase, TestDonePhase, CloseAckedPhase DEF Lane
  <2>3. CASE LaneOf(s) # l
    BY <1>1, <2>1, <2>3, PhaseStays
  <2> QED BY <2>2, <2>3
<1>4. \A s \in Streams : s[1] = c =>
          /\ Phase(s)' = "ended" /\ Len(files'[s]) = sent'[s]
          /\ dropped'[Of(s)'] /\ toServer'[Of(s)'] = <<>>
    BY <1>1, <1>2, <1>3 DEF Over
<1> QED BY <1>1, <1>4 DEF Over

\* It reads no more data.
LEMMA SendDataOver ==
    ASSUME NetInv, NEW l \in Lanes, NEW d \in DevsOf(l[1]),
           SendData(l, d) \/ SendPart(l, d), NEW c \in Clients, Over(c)
    PROVE  Over(c)'
<1>0. Typed
    BY DEF NetInv, Typed
<1>1. PICK t : t = On(l, d) /\ t \in Streams /\ LaneOf(t) = l /\ t[1] = l[1]
               /\ ConnOf(l, d) = Of(t) /\ t = <<l[1], l[2], d>>
    BY LaneParts, ConnIs DEF On
<1>2. l[1] # c
  <2>1. Phase(t) = "opened"
    BY <1>1 DEF SendData, SendPart, Phase
  <2> QED BY <1>1, <2>1 DEF Over
<1>3. /\ sendfile' = sendfile /\ stage' = stage /\ pc' = pc /\ dev' = dev
      /\ dropped' = dropped /\ files' = files
    BY DEF SendData, SendPart, server
<1>4. \A s \in Streams : s[1] = c =>
          s # t /\ Of(s) \in Conns /\ Of(s) # Of(t) /\ Of(s)' = Of(s)
    BY <1>1, <1>2, <1>3, OfParts, OfStays
<1>5. \A s \in Streams : s # t => sent'[s] = sent[s]
    BY <1>0, <1>1 DEF SendData, SendPart, Typed, TypeOK
<1>6. \A k \in Conns : k # Of(t) => toServer'[k] = toServer[k]
    BY <1>0, <1>1, OfParts, SendIs DEF SendData, SendPart, Typed
<1>7. \A s \in Streams : Phase(s)' = Phase(s)
    BY <1>3, PhaseStays
<1>8. \A s \in Streams : s[1] = c =>
          /\ Phase(s)' = "ended" /\ Len(files'[s]) = sent'[s]
          /\ dropped'[Of(s)'] /\ toServer'[Of(s)'] = <<>>
    BY <1>3, <1>4, <1>5, <1>6, <1>7 DEF Over
<1> QED BY <1>3, <1>8 DEF Over

\* Nor does a signal, or damage to another, change that.
LEMMA ClientOver ==
    ASSUME NetInv, NEW c \in Clients, Over(c), stage'[c] # "killed",
           NEW b \in Clients, StartTracing(b) \/ Stop(b) \/ Kill(b)
    PROVE  Over(c)'
<1>0. Typed /\ stage \in [Clients -> Stages] /\ stage[c] = "stopping"
    BY DEF NetInv, Typed, TypeOK, Stages, Over
<1>1. /\ UNCHANGED <<sendfile, sent, dropped, files, toServer>>
    BY DEF StartTracing, Stop, Kill, server
<1>2. stage'[c] = "stopping"
    BY <1>0 DEF StartTracing, Stop, Kill
<1>3. \A s \in Streams : Of(s)' = Of(s)
    BY <1>1, OfStays
<1>4. ASSUME NEW s \in Streams, s[1] = c PROVE Phase(s)' = Phase(s)
  <2>1. CASE StartTracing(b)
    BY <1>0, <2>1, StartTracingPhase
  <2>2. CASE Stop(b)
    BY <1>1, <2>2, PhaseStays DEF Stop
  <2>3. CASE Kill(b)
    <3>1. b # c
      BY <1>0, <2>3 DEF Kill
    <3> QED BY <1>0, <1>4, <2>3, <3>1, KillPhase
  <2> QED BY <2>1, <2>2, <2>3
<1>5. \A s \in Streams : s[1] = c =>
          /\ Phase(s)' = "ended" /\ Len(files'[s]) = sent'[s]
          /\ dropped'[Of(s)'] /\ toServer'[Of(s)'] = <<>>
    BY <1>1, <1>3, <1>4 DEF Over
<1> QED BY <1>2, <1>5 DEF Over

\* Nor does the loss of a connection.
LEMMA BreakOver ==
    ASSUME NetInv, NEW c \in Clients, Over(c), NEW k \in Conns, Break(k)
    PROVE  Over(c)'
<1>0. Typed
    BY DEF NetInv, Typed
<1>1. UNCHANGED <<sendfile, stage, pc, dev, sent, dropped, files>> /\ ~dropped[k]
    BY DEF Break, client, server
<1>2. \A j \in Conns : j # k => toServer'[j] = toServer[j]
    BY <1>0, BreakLeaves DEF Typed
<1>3. \A s \in Streams : Of(s)' = Of(s) /\ Of(s) \in Conns /\ Phase(s)' = Phase(s)
    BY <1>1, OfStays, OfParts, PhaseStays
<1>4. \A s \in Streams : s[1] = c =>
          /\ Phase(s)' = "ended" /\ Len(files'[s]) = sent'[s]
          /\ dropped'[Of(s)'] /\ toServer'[Of(s)'] = <<>>
    BY <1>1, <1>2, <1>3 DEF Over
<1> QED BY <1>1, <1>4 DEF Over

\* A step of the server that takes from none of the client's connections.
LEMMA ServerOver ==
    ASSUME NEW c \in Clients, Over(c), UNCHANGED client,
           \A s \in Streams : s[1] = c =>
               /\ files'[s] = files[s] /\ dropped'[Of(s)]
               /\ toServer'[Of(s)] = <<>>
    PROVE  Over(c)'
<1>1. sendfile' = sendfile /\ pc' = pc /\ dev' = dev /\ stage' = stage
      /\ sent' = sent
    BY DEF client
<1>2. \A s \in Streams : Of(s)' = Of(s) /\ Phase(s)' = Phase(s)
    BY <1>1, OfStays, PhaseStays
<1>3. \A s \in Streams : s[1] = c =>
          /\ Phase(s)' = "ended" /\ Len(files'[s]) = sent'[s]
          /\ dropped'[Of(s)'] /\ toServer'[Of(s)'] = <<>>
    BY <1>1, <1>2 DEF Over
<1> QED BY <1>1, <1>3 DEF Over

\* A message of one client is taken: of another, the files stay.
LEMMA TakeOver ==
    ASSUME NetInv, NEW k \in Conns, toServer[k] # <<>>, Quiet,
           \A j \in Conns : j # k => toServer'[j] = toServer[j],
           dropped' = dropped, NEW d,
           \A s \in Streams : s[1] # k[1] => files'[s] = FilesOf(k, d)[s],
           NEW c \in Clients, Over(c)
    PROVE  Over(c)'
<1>1. PICK t : t \in Streams /\ Of(t) = k /\ t[1] = k[1]
    BY HeadIs
<1>2. k[1] # c
    BY <1>1 DEF Over
<1>4. \A s \in Streams : s[1] = c => Of(s) \in Conns /\ Of(s) # k
    BY <1>2, OfParts
<1>5. \A s \in Streams : s[1] = c => files'[s] = files[s]
    BY <1>2 DEF FilesOf
<1>6. \A s \in Streams : s[1] = c =>
          /\ files'[s] = files[s] /\ dropped'[Of(s)] /\ toServer'[Of(s)] = <<>>
    BY <1>4, <1>5 DEF Over
<1>7. UNCHANGED client
    BY DEF Quiet
<1> QED BY <1>6, <1>7, ServerOver

\* The device whose last message is its close has its file complete.
LEMMA ClosedWritten ==
    ASSUME NEW d, NEW v \in Views, Sound(d, v), Up(v), v.net = "up",
           \A i \in 1..Len(v.q), n \in Nat : ~PieceAt(d, v, i, n)
    PROVE  Len(v.file) = v.sent
<1>1. Len(v.file) \in Nat /\ v.sent \in Nat /\ Len(v.file) <= v.sent
    BY DEF Views, Sound, FileOk
<1>2. \A m \in Len(v.file) + 1..v.sent : \E j \in 1..Len(v.q) : PieceAt(d, v, j, m)
    BY DEF Sound, DataOk, Up, Reaches, Intact
<1>3. ASSUME Len(v.file) < v.sent PROVE FALSE
  <2>1. v.sent \in Nat /\ v.sent \in Len(v.file) + 1..v.sent
    BY <1>1, <1>3
  <2> QED BY <1>2, <2>1
<1> QED BY <1>1, <1>3

\* At the last close of a machine, its client is over.
LEMMA LastCloseOver ==
    ASSUME NetInv, Alone, DroppedOver, srv = "scan", Quiet,
           NEW k, k = conn_list[pos], toServer[k] # <<>>,
           NEW msg, msg = Head(toServer[k]), msg.kind = "close",
           CloseDevice(k, msg.dev), cl_opens[HostOfConn(k)] = 1,
           NEW c \in Clients, c = k[1], Served(c)
    PROVE  stage[c] = "stopping" /\ Over(c)'
<1>1. k \in Conns /\ pos \in 1..Len(conn_list) /\ HostOf[c] \in Hosts
      /\ HostOfConn(k) = HostOf[c]
    BY ScannedIs DEF HostOfConn
<1>2. PICK heard \in Hearings : Told(heard)
    BY DEF NetInv
<1>3. PICK t \in Streams : /\ Of(t) = k /\ t[1] = c /\ t[3] = msg.dev
                           /\ toServer[k][1] = msg /\ 1 \in 1..Len(toServer[k])
                           /\ heard[t] = "open" /\ files' = files
    BY <1>1, <1>2, LastCloseIs
<1>4. /\ dropped' = [nc \in Conns |-> dropped[nc] \/ nc \in Gone(HostOf[c])]
      /\ toServer' = [nc \in Conns |->
                         IF nc \in Gone(HostOf[c]) THEN <<>> ELSE toServer[nc]]
    BY <1>1 DEF CloseDevice, RemoveHost, HostOfConn, Gone
<1>5. TypeOK /\ Typed
    BY DEF NetInv, Typed
<1>6. \A s \in Streams : /\ View(heard, s) \in Views
                         /\ Sound(s[3], View(heard, s))
    BY <1>2, <1>5, ViewIs DEF Told, SoundAll
<1>7. stage[c] = "stopping"
    BY <1>1, <1>2, LastCloseIs DEF Served, Undamaged
<1>8. \A s \in Streams : s[1] = c => ~dropped[Of(s)]
  <2>1. ASSUME NEW s \in Streams, s[1] = c, dropped[Of(s)] PROVE FALSE
    <3>1. Over(c)
      BY <1>7, <2>1 DEF DroppedOver
    <3> QED BY <1>3, <3>1 DEF Over
  <2> QED BY <2>1
<1>9. Counted(heard, HostOf[c]) = {t}
  <2>1. /\ IsFiniteSet(Counted(heard, HostOf[c]))
        /\ Cardinality(Counted(heard, HostOf[c])) = 1
    BY <1>1, <1>2 DEF Told, HeardInv
  <2>2. PICK x : Counted(heard, HostOf[c]) = {x}
    BY <2>1, FS_Singleton
  <2>3. t \in Counted(heard, HostOf[c])
    BY <1>3 DEF Counted
  <2> QED BY <2>2, <2>3
<1>10. ASSUME NEW s \in Streams, s[1] = c
       PROVE  /\ Phase(s) = "ended" /\ Len(files[s]) = sent[s]
              /\ Of(s) \in Conns /\ Of(s) \in Gone(HostOf[c])
  <2>1. PICK v : /\ v = View(heard, s) /\ v \in Views /\ Sound(s[3], v)
                 /\ v.q = toServer[Of(s)] /\ v.stage = stage[s[1]]
                 /\ v.net = net[Of(s)]
                 /\ v.end = (IF dropped[Of(s)] THEN "closed" ELSE "open")
                 /\ v.phase = Phase(s) /\ v.sent = sent[s] /\ v.file = files[s]
                 /\ v.heard = heard[s]
    BY <1>6, ViewParts
  <2>2. Of(s) \in Conns /\ Of(s)[1] = c /\ HostOfConn(Of(s)) = HostOf[c]
    BY <1>10, OfParts
  <2>3. Up(v) /\ v.net = "up"
    BY <1>7, <1>8, <1>10, <2>1, <2>2 DEF Up, Reaches, Served, Undamaged
  <2>4. Phase(s) \in {"opened", "ended"}
    BY <1>5, <1>7, <1>10, StoppingPhase
  <2>5. v.phase \in {"opened", "ended"} /\ v.heard # "new"
    BY <2>1, <2>3, <2>4 DEF Sound, PhaseOk
  <2>6. Of(s) \in Gone(HostOf[c])
    <3>1. \E j \in 1..Len(conn_list) : conn_list[j] = Of(s)
      BY <1>2, <2>1, <2>5 DEF Told, HeardInv
    <3>2. DOMAIN conn_list = 1..Len(conn_list)
      BY <1>5 DEF TypeOK
    <3> QED BY <2>2, <3>1, <3>2 DEF Gone, Range
  <2>7. CASE s = t
    <3>1. v.q[1].dev = s[3] /\ v.q[1].kind = "close" /\ 1 \in 1..Len(v.q)
      BY <1>3, <2>1, <2>7
    <3>2. v.phase = "ended"
      BY <2>1, <2>3, <2>5, <3>1 DEF Sound, PhaseOk
    <3>3. \A j \in 1..Len(v.q) : v.q[j].dev = s[3] => j <= 1
      BY <2>1, <3>1 DEF Sound, QueueOk
    <3>4. \A i \in 1..Len(v.q), n \in Nat : ~PieceAt(s[3], v, i, n)
      <4>1. \A i \in 1..Len(v.q) : i <= 1 => i = 1
        OBVIOUS
      <4> QED BY <3>1, <3>3, <4>1 DEF PieceAt
    <3> QED BY <2>1, <2>2, <2>3, <2>6, <3>2, <3>4, ClosedWritten
  <2>8. CASE s # t
    <3>1. heard[s] # "open"
      BY <1>9, <1>10, <2>8 DEF Counted
    <3>2. v.heard = "over" /\ v.phase = "ended"
      BY <2>1, <2>3, <2>5, <3>1 DEF Sound, PhaseOk, Views
    <3>3. \A i \in 1..Len(v.q), n \in Nat : ~PieceAt(s[3], v, i, n)
      BY <2>1, <3>2 DEF Sound, QueueOk, PieceAt
    <3> QED BY <2>1, <2>2, <2>3, <2>6, <3>2, <3>3, ClosedWritten
  <2> QED BY <2>7, <2>8
<1>11. sendfile' = sendfile /\ pc' = pc /\ dev' = dev /\ stage' = stage
       /\ sent' = sent
    BY DEF Quiet, client
<1>12. \A s \in Streams : Of(s)' = Of(s) /\ Phase(s)' = Phase(s)
    BY <1>11, OfStays, PhaseStays
<1>13. \A s \in Streams : s[1] = c =>
          /\ Phase(s)' = "ended" /\ Len(files'[s]) = sent'[s]
          /\ dropped'[Of(s)'] /\ toServer'[Of(s)'] = <<>>
    BY <1>3, <1>4, <1>10, <1>11, <1>12
<1> QED BY <1>7, <1>11, <1>13 DEF Over

\* Whoever the server drops is over: its steps.
LEMMA HandleOver ==
    ASSUME NetInv, Alone, DroppedOver, NetClientData, NEW s \in Streams,
           NEW c, c = s[1], c \in Clients, Served(c), srv' # "exited",
           stage[c] # "absent", dropped'[Of(s)]
    PROVE  Over(c)'
<1>1. srv = "scan" /\ Quiet /\ UNCHANGED client /\ TypeOK
    BY DEF NetClientData, Quiet, NetInv
<1>2. PICK k : k = conn_list[pos] /\ k \in Conns
    BY <1>1, ScannedIs
<1>3. Of(s) \in Conns /\ HostOfConn(Of(s)) = HostOf[c]
    BY OfParts
<1>4. dropped[Of(s)] => Over(c)
    BY DEF DroppedOver
<1>5. CASE EndOfFile(k)
  <2>1. Over(c) /\ UNCHANGED <<toServer, dropped, files>>
    BY <1>4, <1>5 DEF EndOfFile
  <2>2. \A r \in Streams : r[1] = c =>
            /\ files'[r] = files[r] /\ dropped'[Of(r)] /\ toServer'[Of(r)] = <<>>
    BY <2>1 DEF Over
  <2> QED BY <1>1, <2>1, <2>2, ServerOver
<1>6. CASE BadHeader(k)
    BY <1>6 DEF BadHeader
<1>7. ASSUME toServer[k] # <<>>, NEW msg, msg = Head(toServer[k]),
             OpenDevice(k, msg.dev)
      PROVE  Over(c)'
  <2>1. Over(c) /\ dropped' = dropped /\ files' = FilesOf(k, msg.dev)
        /\ \A j \in Conns : j # k => toServer'[j] = toServer[j]
    BY <1>2, <1>4, <1>7, TakeIs DEF OpenDevice, NetInv
  <2> QED BY <1>1, <1>2, <1>7, <2>1, TakeOver
<1>8. ASSUME toServer[k] # <<>>, NEW msg, msg = Head(toServer[k]),
             ReadData(k, msg.dev, msg)
      PROVE  Over(c)'
  <2>1. Over(c) /\ dropped' = dropped
        /\ \A j \in Conns : j # k => toServer'[j] = toServer[j]
    BY <1>2, <1>4, <1>8, TakeIs DEF ReadData, NetInv
  <2>2. \A r \in Streams : r[1] # k[1] =>
            r # <<k[1], k[2], msg.dev>> /\ files'[r] = FilesOf(k, msg.dev)[r]
    BY <1>8 DEF ReadData, Written, FilesOf
  <2> QED BY <1>1, <1>2, <1>8, <2>1, <2>2, TakeOver
<1>9. ASSUME toServer[k] # <<>>, NEW msg, msg = Head(toServer[k]),
             CloseDevice(k, msg.dev), cl_opens[HostOfConn(k)] # 1
      PROVE  Over(c)'
  <2>1. Over(c) /\ dropped' = dropped /\ files' = FilesOf(k, msg.dev)
        /\ \A j \in Conns : j # k => toServer'[j] = toServer[j]
    BY <1>2, <1>4, <1>9, TakeIs DEF CloseDevice, NetInv
  <2> QED BY <1>1, <1>2, <1>9, <2>1, TakeOver
<1>10. ASSUME toServer[k] # <<>>, NEW msg, msg = Head(toServer[k]),
              msg.kind = "close", CloseDevice(k, msg.dev),
              cl_opens[HostOfConn(k)] = 1
       PROVE  Over(c)'
  <2>1. CASE c = k[1]
    BY <1>1, <1>2, <1>10, <2>1, LastCloseOver
  <2>2. CASE c # k[1]
    <3>1. PICK heard \in Hearings : Told(heard)
      BY DEF NetInv
    <3>2. files' = files /\ k[1] \in Clients /\ stage[k[1]] # "absent"
      BY <1>2, <1>10, <3>1, LastCloseIs
    <3>3. HostOf[c] # HostOf[k[1]]
      BY <2>2, <3>2 DEF Alone
    <3>4. /\ dropped' = [nc \in Conns |-> dropped[nc] \/ nc \in Gone(HostOf[k[1]])]
          /\ toServer' = [nc \in Conns |-> IF nc \in Gone(HostOf[k[1]]) THEN <<>>
                                           ELSE toServer[nc]]
      BY <1>10 DEF CloseDevice, RemoveHost, HostOfConn, Gone
    <3>5. Over(c)
      BY <1>3, <1>4, <3>3, <3>4 DEF Gone
    <3>6. \A r \in Streams : r[1] = c => Of(r) \in Conns
      BY OfParts
    <3>7. \A r \in Streams : r[1] = c =>
              /\ files'[r] = files[r] /\ dropped'[Of(r)] /\ toServer'[Of(r)] = <<>>
      BY <3>2, <3>4, <3>5, <3>6 DEF Over
    <3> QED BY <1>1, <3>5, <3>7, ServerOver
  <2> QED BY <2>1, <2>2
<1>12. ASSUME toServer[k] # <<>>, NEW msg, msg = Head(toServer[k]),
              ReadOver(k, msg.dev, msg)
       PROVE  Over(c)'
  <2>1. Over(c) /\ dropped' = dropped
        /\ \A j \in Conns : j # k => toServer'[j] = toServer[j]
    BY <1>1, <1>4, <1>12 DEF ReadOver, TypeOK
  <2>2. ASSUME NEW r \in Streams, r[1] # k[1]
        PROVE  files'[r] = FilesOf(k, msg.dev)[r]
    <3>1. r # <<k[1], k[2], msg.dev>> /\ FilesOf(k, msg.dev)[r] = files[r]
      BY <2>2 DEF FilesOf
    <3> QED BY <1>12, <2>2, <3>1 DEF ReadOver, Written, FilesOf
  <2> QED BY <1>1, <1>2, <1>12, <2>1, <2>2, TakeOver
<1>11. \/ EndOfFile(k)
       \/ toServer[k] # <<>> /\ BadHeader(k)
       \/ /\ toServer[k] # <<>>
          /\ \/ OpenDevice(k, Head(toServer[k]).dev)
             \/ Head(toServer[k]).kind = "close" /\ CloseDevice(k, Head(toServer[k]).dev)
             \/ ReadData(k, Head(toServer[k]).dev, Head(toServer[k]))
             \/ ReadOver(k, Head(toServer[k]).dev, Head(toServer[k]))
    BY <1>2 DEF NetClientData
<1> QED BY <1>5, <1>6, <1>7, <1>8, <1>9, <1>10, <1>11, <1>12

\* Whoever is dropped is over, whatever the step.
LEMMA DroppedOverStep ==
    ASSUME NetInv, Alone, DroppedOver, [Next]_vars PROVE DroppedOver'
<1>0. sendfile' = sendfile /\ \A s : Of(s)' = Of(s)
  <2>1. sendfile' = sendfile
    BY DEF Next, vars, client, Server, Poll, NetClientData, Lane, Connect, Open,
           OpenAcked, StartClose, SendClose, TestDone, CloseAcked, SendData,
           SendPart, StartTracing, Stop, Kill, Break
  <2> QED BY <2>1, OfStays
<1> SUFFICES ASSUME NEW s \in Streams, NEW c, c = s[1], Served(c)',
                    stage'[c] # "absent", dropped'[Of(s)]
             PROVE  Over(c)'
    BY <1>0 DEF DroppedOver
<1>1. c \in Clients /\ Of(s) \in Conns
    BY StreamParts, OfParts
<1>2. Served(c) /\ stage[c] # "absent"
    BY <1>1, ServedBefore
<1>3. srv' # "exited" /\ stage'[c] # "killed"
    BY DEF Served, Undamaged
<1>4. dropped[Of(s)] => Over(c)
    BY <1>2 DEF DroppedOver
<1>5. CASE NetClientData
    BY <1>1, <1>2, <1>3, <1>5, HandleOver
<1>6. CASE Poll
  <2>1. Over(c) /\ UNCHANGED client /\ UNCHANGED <<toServer, dropped, files>>
    BY <1>4, <1>6 DEF Poll
  <2>2. \A r \in Streams : r[1] = c =>
            /\ files'[r] = files[r] /\ dropped'[Of(r)] /\ toServer'[Of(r)] = <<>>
    BY <2>1 DEF Over
  <2> QED BY <1>1, <2>1, <2>2, ServerOver
<1>7. ASSUME NEW l \in Lanes, Lane(l) PROVE Over(c)'
  <2>1. dropped' = dropped
    BY <1>7, LaneMoves DEF NetInv, Typed
  <2> QED BY <1>1, <1>4, <1>7, <2>1, LaneOver
<1>8. ASSUME NEW l \in Lanes, NEW d \in DevsOf(l[1]),
             SendData(l, d) \/ SendPart(l, d)
      PROVE  Over(c)'
  <2>1. dropped' = dropped
    BY <1>8 DEF SendData, SendPart
  <2> QED BY <1>1, <1>4, <1>8, <2>1, SendDataOver
<1>9. ASSUME NEW b \in Clients, StartTracing(b) \/ Stop(b) \/ Kill(b)
      PROVE  Over(c)'
  <2>1. dropped' = dropped
    BY <1>9 DEF StartTracing, Stop, Kill
  <2> QED BY <1>1, <1>3, <1>4, <1>9, <2>1, ClientOver
<1>10. ASSUME NEW k \in Conns, Break(k) PROVE Over(c)'
  <2>1. dropped' = dropped
    BY <1>10 DEF Break
  <2> QED BY <1>1, <1>4, <1>10, <2>1, BreakOver
<1>11. CASE UNCHANGED vars
  <2>1. Over(c) /\ UNCHANGED client /\ UNCHANGED <<toServer, dropped, files>>
    BY <1>4, <1>11 DEF vars, client, server
  <2>2. \A r \in Streams : r[1] = c =>
            /\ files'[r] = files[r] /\ dropped'[Of(r)] /\ toServer'[Of(r)] = <<>>
    BY <2>1 DEF Over
  <2> QED BY <1>1, <2>1, <2>2, ServerOver
<1> QED BY <1>5, <1>6, <1>7, <1>8, <1>9, <1>10, <1>11 DEF Next, Server

-----------------------------------------------------------------------------
(* What follows.                                                           *)

\* The file of a stream is a beginning of what was read, up to the first piece
\* that is a part.
Begins(s) ==
    /\ Len(files[s]) <= sent[s]
    /\ \A j \in DOMAIN files[s] :
          /\ (\A m \in 1..j - 1 : files[s][m].whole) => files[s][j].n = j
          /\ \/ files[s][j].whole \/ net[Of(s)] = "short"
             \/ j = Len(files[s]) /\ net[Of(s)] # "up"

\* Every file is.
LEMMA BeginsIs == ASSUME NetInv, NEW s \in Streams PROVE Begins(s)
<1>1. PICK heard \in Hearings : Told(heard)
    BY DEF NetInv
<1>2. PICK v : /\ v = View(heard, s) /\ v \in Views /\ Sound(s[3], v)
               /\ v.sent = sent[s] /\ v.file = files[s] /\ v.net = net[Of(s)]
    BY <1>1, ViewIs, ViewParts DEF NetInv, Told, SoundAll
<1>3. DOMAIN v.file = 1..Len(v.file)
    BY <1>2 DEF Views
<1> QED BY <1>2, <1>3 DEF Sound, FileOk, Begins

\* Data of a client to which nothing happened is all with the server when it
\* has taken the last message.
LEMMA WrittenAtEnd ==
    ASSUME NetInv, DroppedOver, NEW s \in Streams, Served(s[1]),
           toServer[Of(s)] = <<>>
    PROVE  Len(files[s]) = sent[s]
<1>1. PICK heard \in Hearings : Told(heard)
    BY DEF NetInv
<1>2. PICK v : /\ v = View(heard, s) /\ v \in Views /\ Sound(s[3], v)
               /\ v.q = toServer[Of(s)] /\ v.stage = stage[s[1]]
               /\ v.net = net[Of(s)]
               /\ v.end = (IF dropped[Of(s)] THEN "closed" ELSE "open")
               /\ v.sent = sent[s] /\ v.file = files[s]
    BY <1>1, ViewIs, ViewParts DEF NetInv, Told, SoundAll
<1>3. Of(s) \in Conns /\ Of(s)[1] = s[1]
    BY OfParts
<1>4. v.stage # "killed" /\ v.net = "up" /\ v.q = <<>>
    BY <1>2, <1>3 DEF Served, Undamaged
<1>5. CASE v.stage = "absent"
  <2>1. v.sent = 0 /\ Len(v.file) <= v.sent /\ Len(v.file) \in Nat
    BY <1>2, <1>5 DEF Sound, PhaseOk, FileOk, Views
  <2> QED BY <1>2, <2>1
<1>6. CASE v.stage # "absent" /\ dropped[Of(s)]
    BY <1>2, <1>6 DEF DroppedOver, Over
<1>7. CASE v.stage # "absent" /\ ~dropped[Of(s)]
  <2>1. Up(v) /\ \A i \in 1..Len(v.q), n \in Nat : ~PieceAt(s[3], v, i, n)
    BY <1>2, <1>4, <1>7 DEF Up, Reaches
  <2> QED BY <1>2, <1>4, <2>1, ClosedWritten
<1> QED BY <1>5, <1>6, <1>7

\* The files hold a beginning of what was read, and in the end all of it.
LEMMA PrefixHolds == ASSUME NetInv, DroppedOver PROVE PrefixWritten
<1> SUFFICES ASSUME NEW s \in Streams
             PROVE  /\ Begins(s)
                    /\ (Served(s[1]) /\ fd[Of(s)] = "closed" /\ toServer[Of(s)] = <<>>)
                          => Len(files[s]) = sent[s]
    BY DEF PrefixWritten, Begins, Of, LaneOf
<1> QED BY BeginsIs, WrittenAtEnd

\* A client that traces keeps its connections, and its devices are known.
LEMMA TracingHolds == ASSUME NetInv, DroppedOver PROVE TracingServed
<1> SUFFICES ASSUME NEW c \in Clients, stage[c] = "tracing", Served(c)
             PROVE  /\ \A k \in ConnsOf(c) : Contains(conn_list, k) /\ ~dropped[k]
                    /\ \A k \in ConnsOf(c), d \in DevsOf(c) : Known(k, d)
    BY DEF TracingServed
<1>0. Typed /\ TypeOK
    BY DEF NetInv, Typed
<1>1. PICK heard \in Hearings : Told(heard)
    BY DEF NetInv
<1>2. ASSUME NEW s \in Streams, s[1] = c
      PROVE  /\ ~dropped[Of(s)] /\ Contains(conn_list, Of(s))
             /\ Known(Of(s), s[3]) /\ Of(s)[1] = c
  <2>1. Of(s) \in Conns /\ Of(s)[1] = c
    BY <1>2, OfParts
  <2>2. ~dropped[Of(s)]
    BY <1>2 DEF DroppedOver, Over
  <2>3. PICK v : /\ v = View(heard, s) /\ Sound(s[3], v)
                 /\ v.stage = stage[s[1]] /\ v.phase = Phase(s)
                 /\ v.net = net[Of(s)]
                 /\ v.end = (IF dropped[Of(s)] THEN "closed" ELSE "open")
                 /\ v.heard = heard[s]
    BY <1>1, ViewParts DEF Told, SoundAll
  <2>4. v.phase = "opened"
    BY <1>0, <1>2, <2>3, StoppingPhase
  <2>5. Up(v)
    BY <1>2, <2>1, <2>2, <2>3 DEF Up, Reaches, Served, Undamaged
  <2>6. heard[s] # "new"
    BY <2>3, <2>4, <2>5 DEF Sound, PhaseOk
  <2>7. /\ \E j \in 1..Len(conn_list) : conn_list[j] = Of(s)
        /\ Known(Of(s), s[3])
    BY <1>1, <2>6 DEF Told, HeardInv
  <2> QED BY <2>1, <2>2, <2>7 DEF Contains
<1>3. ASSUME NEW k \in ConnsOf(c)
      PROVE  \E s \in Streams : s[1] = c /\ Of(s) = k
  <2>1. PICK l \in LanesOf(c), d \in DevsOf(c) : k = ConnOf(l, d)
    BY <1>3 DEF ConnsOf
  <2>2. l \in Lanes /\ l[1] = c
    BY <2>1 DEF Lanes, LanesOf
  <2> QED BY <2>1, <2>2, LaneParts, ConnIs
<1>4. ASSUME NEW k \in ConnsOf(c), NEW d \in DevsOf(c) PROVE Known(k, d)
  <2>1. PICK s \in Streams : s[1] = c /\ Of(s) = k
    BY <1>3, <1>4
  <2>2. LaneOf(s) \in Lanes /\ LaneOf(s)[1] = c
    BY <2>1, StreamParts
  <2>3. On(LaneOf(s), d) \in Streams /\ On(LaneOf(s), d)[1] = c
        /\ On(LaneOf(s), d)[3] = d
    BY <2>2, LaneParts
  <2>4. PICK r \in Streams : r[1] = c /\ r[3] = d
    BY <2>3
  <2>5. Known(Of(r), d) /\ Of(r)[1] = c /\ k[1] = c
    BY <1>2, <2>1, <2>4
  <2> QED BY <2>5 DEF Known, HostOfConn
<1> QED BY <1>2, <1>3, <1>4

-----------------------------------------------------------------------------
(* The theorems.                                                           *)

\* The invariant holds in every state.
LEMMA NetInvariant == Spec => []NetInv
<1>1. Init => NetInv
    BY NetInit
<1>2. NetInv /\ [Next]_vars => NetInv'
    BY NetStep
<1> QED BY <1>1, <1>2, PTL DEF Spec

\* What the scan of handle_client_data looks at is what poll said of the
\* connection it handles, although the list has grown or shrunk since.
THEOREM ScanMatchesPollHolds == Spec => []ScanMatchesPoll
<1>1. NetInv => ScanMatchesPoll
  <2>1. ASSUME NetInv, srv = "scan"
        PROVE  /\ pos <= Len(pfds) /\ pos <= Len(conn_list)
               /\ pfds[pos].nc = conn_list[pos]
    <3>1. /\ Len(pfds) <= Len(conn_list) /\ pos \in 1..Len(pfds)
          /\ pfds[pos].nc = conn_list[pos]
      BY <2>1 DEF NetInv, ScanInv
    <3>2. conn_list \in Seq(Conns) /\ pfds \in Seq([nc : Conns, in : BOOLEAN])
      BY <2>1 DEF NetInv, TypeOK
    <3>3. Len(pfds) \in Nat /\ Len(conn_list) \in Nat
      BY <3>2
    <3> QED BY <3>1, <3>3
  <2> QED BY <2>1 DEF ScanMatchesPoll
<1> QED BY <1>1, NetInvariant, PTL

\* Whoever shares a machine, and whatever is lost, sent in part or swallowed: the
\* devices of one client get one directory, and a file is a beginning of what was
\* read, piece by piece, up to the first that is a part; a part there is only on a
\* connection that was lost, at the end, or on which a send fell short.
THEOREM FilesStayPrefixes ==
    Spec => [](/\ OneDirectory
               /\ \A s \in Streams :
                     LET k == ConnOf(<<s[1], s[2]>>, s[3])
                         file == files[s]
                     IN /\ Len(file) <= sent[s]
                        /\ \A j \in DOMAIN file :
                              /\ (\A m \in 1..j - 1 : file[m].whole)
                                    => file[j].n = j
                              /\ \/ file[j].whole \/ net[k] = "short"
                                 \/ j = Len(file) /\ net[k] # "up")
<1> DEFINE AllBegin ==
        /\ OneDirectory
        /\ \A s \in Streams :
              LET k == ConnOf(<<s[1], s[2]>>, s[3])
                  file == files[s]
              IN /\ Len(file) <= sent[s]
                 /\ \A j \in DOMAIN file :
                       /\ (\A m \in 1..j - 1 : file[m].whole)
                             => file[j].n = j
                       /\ \/ file[j].whole \/ net[k] = "short"
                          \/ j = Len(file) /\ net[k] # "up"
<1>1. NetInv => AllBegin
  <2>1. ASSUME NetInv, NEW s \in Streams PROVE Begins(s)
    BY <2>1, BeginsIs
  <2> QED BY <2>1 DEF NetInv, Begins, Of, LaneOf
<1> QED BY <1>1, NetInvariant, PTL

\* With one client per machine, what the server keeps of every client is what
\* the client sent, for as long as the client sends.
THEOREM ClientsServedHolds ==
    ASSUME OneClientPerHost PROVE Spec => []ClientsServed
<1>1. Init => Alone /\ DroppedOver
  <2>1. ASSUME Init PROVE Alone
    <3>1. PICK runs \in Together :
              stage = [c \in Clients |-> IF c \in runs THEN "starting" ELSE "absent"]
      BY <2>1 DEF Init
    <3> QED BY <3>1 DEF Alone, OneClientPerHost
  <2>2. ASSUME Init PROVE DroppedOver
    BY <2>2, OfParts DEF Init, DroppedOver
  <2> QED BY <2>1, <2>2
<1>2. NetInv /\ Alone /\ DroppedOver /\ [Next]_vars => Alone' /\ DroppedOver'
    BY AloneStep, DroppedOverStep
<1>3. NetInv /\ DroppedOver => ClientsServed
    BY PrefixHolds, TracingHolds DEF ClientsServed, NetInv
<1> QED BY <1>1, <1>2, <1>3, NetInvariant, PTL DEF Spec
=============================================================================
