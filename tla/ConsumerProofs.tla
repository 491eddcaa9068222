--------------------------- MODULE ConsumerProofs ---------------------------
(***************************************************************************)
(* The reservation consumers for any number of replicas, messages and gRPC *)
(* calls beside them, any prefetch and any number of failing statements,   *)
(* lost connections and restarts: the ledger keeps its types under them,   *)
(* no message is lost or held twice, and what is acknowledged has been     *)
(* applied.                                                                *)
(***************************************************************************)
EXTENDS Consumer, LedgerProofs, SequenceTheorems

-----------------------------------------------------------------------------
(* Sequences of messages                                                   *)

\* No message is twice in a subscriber's buffer.
Distinct(s) == \A a, b \in 1..Len(s) : s[a] = s[b] => a = b

\* A delivery is appended to the buffer.
LEMMA AppendElements ==
    ASSUME NEW s \in Seq(Messages), NEW m \in Messages
    PROVE  /\ Append(s, m) \in Seq(Messages) /\ Len(Append(s, m)) = Len(s) + 1
           /\ Elements(Append(s, m)) = Elements(s) \cup {m}
           /\ Distinct(s) /\ m \notin Elements(s) => Distinct(Append(s, m))
           /\ s # <<>> => Head(Append(s, m)) = Head(s)
           /\ Append(s, m) # <<>>
<1>1. /\ Append(s, m) \in Seq(Messages) /\ Len(Append(s, m)) = Len(s) + 1 /\ Len(s) \in Nat
      /\ \A a \in 1..Len(s) : Append(s, m)[a] = s[a]
      /\ Append(s, m)[Len(s) + 1] = m
  BY AppendProperties, LenProperties
<1>2. Elements(Append(s, m)) = Elements(s) \cup {m}
  <2>1. \A a : a \in 1..Len(s) + 1 <=> a \in 1..Len(s) \/ a = Len(s) + 1
    BY <1>1
  <2> QED
    BY <1>1, <2>1 DEF Elements
<1>3. ASSUME Distinct(s), m \notin Elements(s) PROVE Distinct(Append(s, m))
  BY <1>1, <1>3 DEF Distinct, Elements
<1>4. s # <<>> => Head(Append(s, m)) = Head(s)
  BY <1>1, HeadTailProperties, EmptySeq
<1>5. Append(s, m) # <<>>
  BY <1>1
<1> QED
  BY <1>1, <1>2, <1>3, <1>4, <1>5

\* The delivery that is settled is the first of the buffer.
LEMMA TailElements ==
    ASSUME NEW s \in Seq(Messages), s # <<>>, Distinct(s)
    PROVE  /\ Head(s) \in Elements(s) /\ Head(s) \in Messages
           /\ Tail(s) \in Seq(Messages) /\ Len(Tail(s)) <= Len(s) /\ Distinct(Tail(s))
           /\ Elements(Tail(s)) = Elements(s) \ {Head(s)}
<1>1. /\ Head(s) = s[1] /\ Head(s) \in Messages /\ Tail(s) \in Seq(Messages)
      /\ Len(Tail(s)) = Len(s) - 1 /\ \A a \in 1..Len(Tail(s)) : Tail(s)[a] = s[a + 1]
      /\ Len(s) \in Nat /\ Len(s) >= 1
  BY HeadTailProperties, LenProperties, EmptySeq
<1>2. Head(s) \in Elements(s)
  BY <1>1 DEF Elements
<1>3. Distinct(Tail(s))
  BY <1>1 DEF Distinct
<1>4. Elements(Tail(s)) = Elements(s) \ {Head(s)}
  <2>1. ASSUME NEW x \in Elements(Tail(s)) PROVE x \in Elements(s) \ {Head(s)}
    <3>1. PICK a \in 1..Len(Tail(s)) : x = Tail(s)[a]
      BY DEF Elements
    <3>2. a + 1 \in 1..Len(s) /\ x = s[a + 1] /\ a + 1 # 1 /\ 1 \in 1..Len(s)
      BY <1>1, <3>1
    <3> QED
      BY <1>1, <3>2 DEF Elements, Distinct
  <2>2. ASSUME NEW x \in Elements(s) \ {Head(s)} PROVE x \in Elements(Tail(s))
    <3>1. PICK a \in 1..Len(s) : x = s[a]
      BY DEF Elements
    <3>2. a # 1 /\ a - 1 \in 1..Len(Tail(s))
      BY <1>1, <2>2, <3>1
    <3>3. Tail(s)[a - 1] = s[a]
      BY <1>1, <3>1, <3>2
    <3> QED
      BY <3>1, <3>2, <3>3 DEF Elements
  <2> QED
    BY <2>1, <2>2
<1> QED
  BY <1>1, <1>2, <1>3, <1>4

\* An acknowledged message leaves the queue and no other does.
LEMMA RemoveElements ==
    ASSUME NEW s \in Seq(Messages), NEW a \in 1..Len(s)
    PROVE  LET t == SubSeq(s, 1, a - 1) \o SubSeq(s, a + 1, Len(s))
           IN  /\ t \in Seq(Messages) /\ Elements(t) \subseteq Elements(s)
               /\ Elements(s) \ {s[a]} \subseteq Elements(t)
<1> DEFINE u == SubSeq(s, 1, a - 1)
           v == SubSeq(s, a + 1, Len(s))
<1>0. Len(s) \in Nat /\ a \in Nat
  BY LenProperties
<1>1. /\ u \in Seq(Messages) /\ Len(u) = a - 1 /\ \A n \in 1..(a - 1) : u[n] = s[n]
  BY <1>0
<1>2. /\ v \in Seq(Messages) /\ Len(v) = Len(s) - a
      /\ \A n \in 1..(Len(s) - a) : v[n] = s[a + n]
  BY <1>0
<1> HIDE DEF u, v
<1>3. /\ u \o v \in Seq(Messages) /\ Len(u \o v) = Len(s) - 1
      /\ \A n \in 1..(Len(s) - 1) : (u \o v)[n] = IF n < a THEN s[n] ELSE s[n + 1]
  <2>1. /\ u \o v \in Seq(Messages) /\ Len(u \o v) = Len(u) + Len(v)
        /\ \A n \in 1..(Len(u) + Len(v)) :
              (u \o v)[n] = IF n <= Len(u) THEN u[n] ELSE v[n - Len(u)]
    BY <1>1, <1>2, ConcatProperties
  <2>2. Len(u) + Len(v) = Len(s) - 1
    BY <1>0, <1>1, <1>2
  <2>3. ASSUME NEW n \in 1..(Len(s) - 1) PROVE (u \o v)[n] = IF n < a THEN s[n] ELSE s[n + 1]
    <3>1. CASE n < a
      <4>1. (u \o v)[n] = IF n <= a - 1 THEN u[n] ELSE v[n - (a - 1)]
        BY <1>1, <2>1, <2>2
      <4>2. n <= a - 1 /\ n \in 1..(a - 1)
        BY <1>0, <3>1
      <4> QED
        BY <1>1, <3>1, <4>1, <4>2
    <3>2. CASE n >= a
      <4>1. n - (a - 1) \in 1..(Len(s) - a) /\ a + (n - (a - 1)) = n + 1
        BY <1>0, <3>2
      <4>2. v[n - (a - 1)] = s[n + 1]
        BY <1>2, <4>1
      <4>3. (u \o v)[n] = IF n <= a - 1 THEN u[n] ELSE v[n - (a - 1)]
        BY <1>1, <2>1, <2>2
      <4>4. ~(n <= a - 1) /\ ~(n < a)
        BY <1>0, <3>2
      <4> QED
        BY <4>2, <4>3, <4>4
    <3>3. n < a \/ n >= a
      BY <1>0
    <3> QED
      BY <3>1, <3>2, <3>3, Zenon
  <2> QED
    BY <2>1, <2>2, <2>3
<1>4. PICK w : w = u \o v
  OBVIOUS
<1>5. Elements(w) \subseteq Elements(s)
  BY <1>0, <1>3, <1>4 DEF Elements
<1>6. ASSUME NEW x \in Elements(s), x # s[a] PROVE x \in Elements(w)
  <2>1. PICK n \in 1..Len(s) : x = s[n]
    BY DEF Elements
  <2>2. n # a
    BY <1>6, <2>1
  <2>3. CASE n < a
    <3>1. n \in 1..(Len(s) - 1)
      BY <1>0, <2>3
    <3>2. w[n] = s[n] /\ Len(w) = Len(s) - 1
      BY <1>3, <1>4, <2>3, <3>1
    <3> QED
      BY <2>1, <3>1, <3>2 DEF Elements
  <2>4. CASE n > a
    <3>1. n - 1 \in 1..Len(w) /\ w[n - 1] = s[n]
      BY <1>0, <1>3, <1>4, <2>1, <2>4
    <3> QED
      BY <2>1, <3>1 DEF Elements
  <2> QED
    BY <1>0, <2>2, <2>3, <2>4
<1> QED
  BY <1>3, <1>4, <1>5, <1>6 DEF u, v

-----------------------------------------------------------------------------
(* The ledger under the consumers                                          *)

\* What a consumer does to the ledger: a step of a request, a call of Handle that
\* Ledger's callers do not make, or the end of the process.
LEMMA LedgerSteps ==
    ASSUME ConsumerTypeOK, [ConsumerNext]_cvars
    PROVE  \/ [Next]_vars
           \/ \E c \in Consumers, r \in Reservations : CallOpen(c, r, OwnKey[r])
           \/ \E c \in Consumers : Answer(c, "ok", NoView) \/ Answer(c, "error", NoView)
           \/ \E c \in Consumers : Restart(c)
<1>1. CASE UNCHANGED cvars
  BY <1>1 DEF cvars
<1>2. ASSUME NEW m \in Messages, PublishEvent(m) PROVE UNCHANGED vars
  BY <1>2 DEF PublishEvent
<1>3. ASSUME NEW c \in Consumers, NEW m \in Messages, Deliver(c, m) PROVE UNCHANGED vars
  BY <1>3 DEF Deliver
<1>4. ASSUME NEW c \in Consumers, DropConnection(c) PROVE UNCHANGED vars
  BY <1>4 DEF DropConnection
<1>5. ASSUME NEW c \in Consumers, Statement(c) \/ Wait(c) \/ Settle(c) \/ StatementFails(c)
      PROVE  Next
  <2>1. c \in Procs
    BY ConsumerAssumption
  <2> QED
    BY <1>5, <2>1, Zenon DEF Statement, Wait, Settle, StatementFails, FreeStep, Next
<1>6. ASSUME NEW c \in Consumers, Start(c)
      PROVE  \/ Next
             \/ \E r \in Reservations : CallOpen(c, r, OwnKey[r])
             \/ Answer(c, "ok", NoView) \/ Answer(c, "error", NoView)
  <2>1. c \in Procs
    BY ConsumerAssumption
  <2>2. PICK e : e = content[Head(buffer[c])]
    OBVIOUS
  <2>3. e \in Event /\ Handle(c, e)
    <3>1. Head(buffer[c]) \in Messages
      BY <1>6, HeadTailProperties DEF Start, ConsumerTypeOK
    <3> QED
      BY <1>6, <2>2, <3>1, ConsumerAssumption DEF Start, ConsumerTypeOK
  <2>4. e.res \in Reservations /\ e.stay \in CheckoutSessions /\ e.cancels \subseteq Cancellations
    BY <2>3 DEF Event
  <2> QED
    BY <2>1, <2>3, <2>4, Zenon DEF Handle, Next, Call
<1>7. ASSUME NEW p \in Callers, GrpcCall(p) \/ GrpcStep(p) \/ Wait(p) \/ GrpcFails(p)
      PROVE  Next
  BY <1>7, Zenon DEF Callers, GrpcCall, GrpcStep, Wait, GrpcFails, Next, Call
<1> QED
  BY <1>1, <1>2, <1>3, <1>4, <1>5, <1>6, <1>7 DEF ConsumerNext, Step

\* The types of the ledger hold under the consumers, too.
LEMMA LedgerTypesKept ==
    ASSUME ConsumerTypeOK, TypeInv, [ConsumerNext]_cvars
    PROVE  TypeInv'
<1>1. CASE [Next]_vars
  BY <1>1, TypeStep
<1>2. ASSUME NEW c \in Consumers, NEW r \in Reservations, CallOpen(c, r, OwnKey[r])
      PROVE  TypeInv'
  <2>1. OwnKey[r] \in Keys /\ c \in Procs
    BY ConsumerAssumption
  <2>2. [NoRequest EXCEPT !.op = "open", !.res = r, !.key = OwnKey[r]] \in Request
    BY <2>1, BlankTypes DEF Request, Ops
  <2> QED
    BY <1>2, <2>1, <2>2, BeginKeeps DEF CallOpen, PCs
<1>3. ASSUME NEW c \in Consumers, Answer(c, "ok", NoView) \/ Answer(c, "error", NoView)
      PROVE  TypeInv'
  BY <1>3, AnswerKeeps, BlankTypes, ConsumerAssumption DEF Replies
<1>4. ASSUME NEW c \in Consumers, Restart(c) PROVE TypeInv'
  <2>1. c \in Procs
    BY ConsumerAssumption
  <2>2. TypeOK'
    BY <1>4, <2>1, BlankTypes DEF Restart, TypeInv, TypeOK, tables, PCs, Replies
  <2>3. ControlOK'
    BY <1>4, <2>1 DEF Restart, TypeInv, TypeOK, ControlOK, tables, Exists
  <2> QED
    BY <2>2, <2>3 DEF TypeInv
<1> QED
  BY <1>1, <1>2, <1>3, <1>4, LedgerSteps

\* A request that runs a statement, waits, returns or fails is under way, and leaves the
\* other requests where they are.
LEMMA OnlyOneMoves ==
    ASSUME TypeOK, NEW p \in Procs, LockStep(p) \/ FreeStep(p) \/ Fail(p)
    PROVE  /\ pc[p] # "idle"
           /\ \A q \in Procs \ {p} : /\ pc'[q] = pc[q] /\ req'[q] = req[q]
                                     /\ cur'[q] = cur[q] /\ reply'[q] = reply[q]
<1> USE DEF TypeOK
<1>1. CASE Fail(p) \/ OpenReplay(p) \/ OpenFind(p) \/ CloseFind(p) \/ Return(p) \/ fetchLines(p)
  BY <1>1 DEF Fail, OpenReplay, OpenFind, CloseFind, Return, fetchLines, Answer, WorkOn, Goto
<1>2. CASE FeeFind(p) \/ AppendInsert(p)
  BY <1>2 DEF FeeFind, AppendInsert, Answer, WorkOn, Goto
<1>3. CASE OpenInsert(p) \/ AppendCommit(p) \/ CloseWrite(p)
  BY <1>3 DEF OpenInsert, AppendCommit, CloseWrite, Goto
<1>4. CASE CloseLock(p) \/ GetRow(p)
  BY <1>4 DEF CloseLock, GetRow, Answer, WorkOn, Goto
<1> QED
  BY <1>1, <1>2, <1>3, <1>4 DEF LockStep, FreeStep

\* So does a handler that starts, or a process that is replaced.
LEMMA OnlyOneStarts ==
    ASSUME TypeOK, NEW c \in Consumers, Start(c) \/ Restart(c)
    PROVE  \A q \in Procs \ {c} : /\ pc'[q] = pc[q] /\ req'[q] = req[q]
                                  /\ cur'[q] = cur[q] /\ reply'[q] = reply[q]
<1> USE ConsumerAssumption DEF TypeOK
<1>1. CASE Restart(c)
  BY <1>1 DEF Restart
<1>2. CASE Start(c)
  <2>1. \/ \E r, v : Answer(c, r, v)
        \/ \E label, r, i : Begin(c, label, r, i)
    BY <1>2, Zenon DEF Start, Handle, CallOpen, CallCancelFee, CallNoShowFee, CallCheckedOut
  <2> QED
    BY <2>1 DEF Answer, Begin, Goto
<1> QED
  BY <1>1, <1>2

\* A gRPC call touches neither the broker nor the handlers.
LEMMA GrpcApart ==
    ASSUME TypeOK, NEW p \in Callers, GrpcCall(p) \/ GrpcStep(p) \/ Wait(p) \/ GrpcFails(p)
    PROVE  /\ UNCHANGED broker
           /\ \A q \in Procs \ {p} : /\ pc'[q] = pc[q] /\ req'[q] = req[q]
                                     /\ cur'[q] = cur[q] /\ reply'[q] = reply[q]
           /\ \A c \in Consumers : c \in Procs \ {p}
<1>1. p \in Procs /\ \A c \in Consumers : c \in Procs \ {p}
  BY ConsumerAssumption DEF Callers
<1>2. UNCHANGED broker
  BY Zenon DEF GrpcCall, GrpcStep, Wait, GrpcFails
<1>3. CASE GrpcCall(p)
  <2>1. \E label, r, i : Begin(p, label, r, i)
    BY <1>3, Zenon DEF GrpcCall, CallOpen, CallClose
  <2> QED
    BY <1>1, <1>2, <2>1 DEF Begin, Goto, TypeOK
<1>4. CASE GrpcStep(p) \/ Wait(p) \/ GrpcFails(p)
  <2>1. LockStep(p) \/ FreeStep(p) \/ Fail(p)
    BY <1>4 DEF GrpcStep, Wait, GrpcFails
  <2> QED
    BY <1>1, <1>2, <2>1, OnlyOneMoves
<1> QED
  BY <1>3, <1>4

-----------------------------------------------------------------------------
(* The broker                                                              *)

\* Where a message is: a running handler has the first delivery of its subscriber, a
\* message waits, is held once by one subscriber or is acknowledged, and what waits or is
\* held is still in the queue.
BrokerOK ==
    /\ \A c \in Consumers : up[c] /\ pc[c] # "idle" => buffer[c] # <<>>
    /\ \A c \in Consumers : /\ Distinct(buffer[c])
                            /\ Elements(buffer[c]) \cap (ready \cup acked) = {}
                            /\ Elements(buffer[c]) \subseteq Elements(log)
    /\ \A c, d \in Consumers : c # d => Elements(buffer[c]) \cap Elements(buffer[d]) = {}
    /\ ready \cap acked = {} /\ ready \subseteq Elements(log)
    /\ \A m \in Elements(log) :
          m \in ready \cup acked \/ \E c \in Consumers : m \in Elements(buffer[c])

\* The first layer: the types and the places.
ConsumerInv == ConsumerTypeOK /\ TypeInv /\ BrokerOK

\* Initially no message has been sent.
LEMMA ConsumerInvInit == ConsumerInit => ConsumerInv
<1> SUFFICES ASSUME ConsumerInit PROVE ConsumerInv
  OBVIOUS
<1>1. TypeInv
  BY TypeInit DEF ConsumerInit
<1>2. Len(<<>>) = 0 /\ Elements(<<>>) = {} /\ Distinct(<<>>) /\ <<>> \in Seq(Messages)
  BY EmptySeq DEF Elements, Distinct
<1>3. ConsumerTypeOK
  BY <1>1, <1>2, ConsumerAssumption DEF ConsumerInit, ConsumerTypeOK, TypeInv
<1>4. BrokerOK
  BY <1>2, ConsumerAssumption DEF ConsumerInit, Init, BrokerOK
<1> QED
  BY <1>1, <1>3, <1>4 DEF ConsumerInv

\* A step of a handler leaves the places alone.
LEMMA HandlerKeepsPlaces ==
    ASSUME ConsumerInv, NEW c \in Consumers, UNCHANGED <<content, log, opened, ready, buffer, acked>>,
           up[c] => buffer[c] # <<>> \/ pc'[c] = "idle",
           up'[c] => up[c] \/ pc'[c] = "idle",
           \A d \in Consumers \ {c} : up'[d] = up[d] /\ pc'[d] = pc[d]
    PROVE  BrokerOK'
<1>1. \A d \in Consumers : up'[d] /\ pc'[d] # "idle" => buffer'[d] # <<>>
  BY DEF ConsumerInv, BrokerOK
<1> QED
  BY <1>1 DEF ConsumerInv, BrokerOK

\* Publishing puts a message that is nowhere into the queue.
LEMMA PublishKeeps ==
    ASSUME ConsumerInv, NEW m \in Messages, PublishEvent(m)
    PROVE  ConsumerInv'
<1> USE DEF ConsumerInv, ConsumerTypeOK
<1>1. TypeInv'
  BY LedgerTypesKept DEF ConsumerNext
<1>2. /\ log' \in Seq(Messages) /\ Elements(log') = Elements(log) \cup {m}
      /\ m \notin Elements(log) \cup acked /\ ready' = ready \cup {m}
      /\ UNCHANGED <<vars, content, buffer, acked, up, faults>>
  BY AppendElements DEF PublishEvent
<1>3. ConsumerTypeOK'
  BY <1>1, <1>2 DEF PublishEvent, TypeInv
<1>4. BrokerOK'
  <2>1. pc' = pc
    BY <1>2 DEF vars
  <2> QED
    BY <1>2, <2>1 DEF BrokerOK
<1> QED
  BY <1>1, <1>3, <1>4

\* A delivery takes a waiting message to one subscriber that has room.
LEMMA DeliverKeeps ==
    ASSUME ConsumerInv, NEW c \in Consumers, NEW m \in Messages, Deliver(c, m)
    PROVE  ConsumerInv'
<1> USE DEF ConsumerInv, ConsumerTypeOK
<1>1. TypeInv'
  BY LedgerTypesKept DEF ConsumerNext
<1>2. /\ m \in ready /\ ready' = ready \ {m} /\ buffer' = [buffer EXCEPT ![c] = Append(@, m)]
      /\ Len(buffer[c]) < Prefetch
      /\ UNCHANGED <<vars, content, log, opened, acked, up, faults>>
  BY DEF Deliver, AtHead, HasRoom
<1>3. m \notin Elements(buffer[c]) /\ Distinct(buffer[c]) /\ buffer[c] \in Seq(Messages)
  BY <1>2 DEF BrokerOK
<1>4. /\ buffer'[c] \in Seq(Messages) /\ Len(buffer'[c]) = Len(buffer[c]) + 1
      /\ Elements(buffer'[c]) = Elements(buffer[c]) \cup {m}
      /\ Distinct(buffer'[c]) /\ buffer'[c] # <<>>
      /\ \A d \in Consumers \ {c} : buffer'[d] = buffer[d]
  <2>1. buffer'[c] = Append(buffer[c], m)
    BY <1>2
  <2> QED
    BY <1>2, <1>3, <2>1, AppendElements
<1>5. ConsumerTypeOK'
  <2>1. \A d \in Consumers : Len(buffer'[d]) <= Prefetch
    <3>1. Len(buffer[c]) \in Nat /\ Prefetch \in Nat
      BY <1>3, LenProperties, ConsumerAssumption
    <3> QED
      BY <1>2, <1>4, <3>1
  <2>2. buffer' \in [Consumers -> Seq(Messages)]
    BY <1>2, <1>4
  <2> QED
    BY <1>1, <1>2, <2>1, <2>2 DEF TypeInv
<1>6. BrokerOK'
  <2>1. pc' = pc
    BY <1>2 DEF vars
  <2>2. m \in Elements(log) /\ m \notin acked /\ \A d \in Consumers : m \notin Elements(buffer[d])
    BY <1>2 DEF BrokerOK
  <2>3. \A d \in Consumers : up'[d] /\ pc'[d] # "idle" => buffer'[d] # <<>>
    BY <1>2, <1>4, <2>1 DEF BrokerOK
  <2>4. \A d \in Consumers : /\ Distinct(buffer'[d])
                             /\ Elements(buffer'[d]) \cap (ready' \cup acked') = {}
                             /\ Elements(buffer'[d]) \subseteq Elements(log')
    BY <1>2, <1>4, <2>2 DEF BrokerOK
  <2>5. ASSUME NEW d \in Consumers, NEW e \in Consumers, d # e
        PROVE  Elements(buffer'[d]) \cap Elements(buffer'[e]) = {}
    <3>1. Elements(buffer[d]) \cap Elements(buffer[e]) = {}
      BY <2>5 DEF BrokerOK
    <3>2. CASE d # c /\ e # c
      BY <1>4, <3>1, <3>2
    <3>3. CASE d = c
      BY <1>4, <2>2, <2>5, <3>1, <3>3
    <3>4. CASE e = c
      BY <1>4, <2>2, <2>5, <3>1, <3>4
    <3> QED
      BY <3>2, <3>3, <3>4
  <2>6. \A n \in Elements(log') :
          n \in ready' \cup acked' \/ \E d \in Consumers : n \in Elements(buffer'[d])
    <3> SUFFICES ASSUME NEW n \in Elements(log), n \notin ready' \cup acked
                 PROVE  \E d \in Consumers : n \in Elements(buffer'[d])
      BY <1>2
    <3>1. CASE n = m
      BY <1>4, <3>1
    <3>2. CASE n # m
      <4>1. PICK d \in Consumers : n \in Elements(buffer[d])
        BY <1>2, <3>2 DEF BrokerOK
      <4> QED
        BY <1>4, <4>1
    <3> QED
      BY <3>1, <3>2 DEF Invoiced
  <2>7. ready' \cap acked' = {} /\ ready' \subseteq Elements(log')
    BY <1>2 DEF BrokerOK
  <2> QED
    BY <2>3, <2>4, <2>5, <2>6, <2>7 DEF BrokerOK
<1> QED
  BY <1>1, <1>5, <1>6

\* Settling a delivery takes it out of the subscriber's buffer, to where Ack or Nack says.
LEMMA SettleKeeps ==
    ASSUME ConsumerInv, NEW c \in Consumers, Settle(c)
    PROVE  ConsumerInv'
<1> USE DEF ConsumerInv, ConsumerTypeOK
<1>1. TypeInv'
  BY LedgerTypesKept DEF ConsumerNext, Step
<1>2. /\ pc[c] = "done" /\ pc'[c] = "idle" /\ \A d \in Consumers \ {c} : pc'[d] = pc[d]
      /\ UNCHANGED <<content, opened, up, faults>>
  BY ConsumerAssumption DEF Settle, Return, Goto, TypeOK
<1>3. CASE ~up[c]
  <2>1. UNCHANGED <<log, ready, acked, buffer>>
    BY <1>3 DEF Settle
  <2>2. BrokerOK'
    BY <1>2, <2>1, HandlerKeepsPlaces
  <2> QED
    BY <1>1, <1>2, <2>1, <2>2 DEF TypeInv
<1>4. CASE up[c]
  <2>1. buffer[c] # <<>> /\ buffer[c] \in Seq(Messages) /\ Distinct(buffer[c])
    BY <1>2, <1>4 DEF BrokerOK
  <2>2. PICK m \in Messages : m = Head(buffer[c]) /\ m \in Elements(buffer[c])
    BY <2>1, TailElements
  <2>3. /\ buffer' = [buffer EXCEPT ![c] = Tail(@)]
        /\ Ack(m) \/ Nack(m)
    BY <1>4, <2>2 DEF Settle, Settlement
  <2>4. /\ buffer'[c] \in Seq(Messages) /\ Len(buffer'[c]) <= Len(buffer[c])
        /\ Elements(buffer'[c]) = Elements(buffer[c]) \ {m} /\ Distinct(buffer'[c])
        /\ \A d \in Consumers \ {c} : buffer'[d] = buffer[d]
    <3>1. buffer'[c] = Tail(buffer[c])
      BY <2>3
    <3> QED
      BY <2>1, <2>2, <2>3, <3>1, TailElements
  <2>5. /\ log' \in Seq(Messages) /\ Elements(log') \subseteq Elements(log)
        /\ Elements(log) \ {m} \subseteq Elements(log')
        /\ ready' \subseteq ready \cup {m} /\ acked' \subseteq acked \cup {m}
        /\ ready \subseteq ready' /\ acked \subseteq acked' /\ m \in ready' \cup acked'
        /\ ready' = ready \/ acked' = acked
        /\ m \in ready' => Elements(log') = Elements(log)
    <3>1. m \notin ready /\ m \notin acked
      BY <2>2 DEF BrokerOK
    <3>2. CASE Nack(m)
      BY <3>2 DEF Nack
    <3>3. CASE Ack(m)
      <4>1. PICK a \in 1..Len(log) :
              log[a] = m /\ log' = SubSeq(log, 1, a - 1) \o SubSeq(log, a + 1, Len(log))
        BY <3>3 DEF Ack
      <4>2. /\ log' \in Seq(Messages) /\ Elements(log') \subseteq Elements(log)
            /\ Elements(log) \ {m} \subseteq Elements(log')
        BY <4>1, RemoveElements
      <4>3. acked' = acked \cup {m} /\ ready' = ready
        BY <3>3 DEF Ack
      <4> QED
        BY <3>1, <4>2, <4>3
    <3> QED
      BY <2>3, <3>2, <3>3
  <2>6. ConsumerTypeOK'
    <3>1. buffer' \in [Consumers -> Seq(Messages)]
      BY <2>3, <2>4
    <3>2. \A d \in Consumers : Len(buffer'[d]) <= Prefetch
      <4>1. Len(buffer[c]) \in Nat /\ Len(buffer'[c]) \in Nat /\ Prefetch \in Nat
        BY <2>1, <2>4, LenProperties, ConsumerAssumption
      <4> QED
        BY <2>4, <4>1
    <3> QED
      BY <1>1, <1>2, <2>5, <3>1, <3>2 DEF TypeInv
  <2>7. \A d \in Consumers : d # c => m \notin Elements(buffer[d])
    BY <2>2 DEF BrokerOK
  <2>8. \A d \in Consumers : up'[d] /\ pc'[d] # "idle" => buffer'[d] # <<>>
    BY <1>2, <2>4 DEF BrokerOK
  <2>9. ASSUME NEW d \in Consumers
        PROVE  /\ Elements(buffer'[d]) \subseteq Elements(buffer[d]) \ {m}
               /\ Distinct(buffer'[d])
    BY <2>4, <2>7 DEF BrokerOK
  <2>10. \A d \in Consumers : /\ Elements(buffer'[d]) \cap (ready' \cup acked') = {}
                              /\ Elements(buffer'[d]) \subseteq Elements(log')
    BY <2>5, <2>9 DEF BrokerOK
  <2>11. ASSUME NEW d \in Consumers, NEW e \in Consumers, d # e
         PROVE  Elements(buffer'[d]) \cap Elements(buffer'[e]) = {}
    <3>1. Elements(buffer[d]) \cap Elements(buffer[e]) = {}
      BY <2>11 DEF BrokerOK
    <3> QED
      BY <2>9, <3>1
  <2>12. ready' \cap acked' = {} /\ ready' \subseteq Elements(log')
    <3>1. m \notin ready /\ m \notin acked /\ m \in Elements(log)
      BY <2>2 DEF BrokerOK
    <3> QED
      BY <2>5, <3>1 DEF BrokerOK
  <2>13. ASSUME NEW n \in Elements(log'), n \notin ready' \cup acked'
         PROVE  \E d \in Consumers : n \in Elements(buffer'[d])
    <3>1. n # m /\ n \in Elements(log) /\ n \notin ready \cup acked
      BY <2>5, <2>13
    <3>2. PICK d \in Consumers : n \in Elements(buffer[d])
      BY <3>1 DEF BrokerOK
    <3> QED
      BY <2>4, <3>1, <3>2
  <2>14. BrokerOK'
    BY <2>8, <2>9, <2>10, <2>11, <2>12, <2>13 DEF BrokerOK
  <2> QED
    BY <1>1, <2>6, <2>14
<1> QED
  BY <1>3, <1>4

\* A lost connection gives the messages of one subscriber back to the queue.
LEMMA DropKeeps ==
    ASSUME ConsumerInv, NEW c \in Consumers, DropConnection(c)
    PROVE  ConsumerInv'
<1> USE DEF ConsumerInv, ConsumerTypeOK
<1>1. TypeInv'
  BY LedgerTypesKept DEF ConsumerNext
<1>2. /\ up' = [up EXCEPT ![c] = FALSE] /\ ready' = ready \cup Elements(buffer[c])
      /\ buffer' = [buffer EXCEPT ![c] = <<>>] /\ faults < MaxFaults /\ faults' = faults + 1
      /\ UNCHANGED <<vars, content, log, opened, acked>>
  BY DEF DropConnection
<1>3. Len(<<>>) = 0 /\ Elements(<<>>) = {} /\ Distinct(<<>>) /\ <<>> \in Seq(Messages)
  BY EmptySeq DEF Elements, Distinct
<1>4. /\ buffer'[c] = <<>> /\ \A d \in Consumers \ {c} : buffer'[d] = buffer[d]
      /\ ~up'[c] /\ \A d \in Consumers \ {c} : up'[d] = up[d]
  BY <1>2
<1>5. Elements(buffer[c]) \subseteq Messages
  BY ElementOfSeq DEF Elements
<1>6. ConsumerTypeOK'
  <2>1. faults' \in 0..MaxFaults
    BY <1>2, ConsumerAssumption
  <2>2. \A d \in Consumers : Len(buffer'[d]) <= Prefetch
    BY <1>3, <1>4, ConsumerAssumption
  <2>3. buffer' \in [Consumers -> Seq(Messages)] /\ up' \in [Consumers -> BOOLEAN]
    BY <1>2, <1>3
  <2> QED
    BY <1>1, <1>2, <1>5, <2>1, <2>2, <2>3 DEF TypeInv
<1>7. BrokerOK'
  <2>1. pc' = pc
    BY <1>2 DEF vars
  <2>2. \A d \in Consumers : up'[d] /\ pc'[d] # "idle" => buffer'[d] # <<>>
    BY <1>4, <2>1 DEF BrokerOK
  <2>3. \A d \in Consumers : d # c => Elements(buffer[d]) \cap Elements(buffer[c]) = {}
    BY DEF BrokerOK
  <2>4. \A d \in Consumers : Distinct(buffer'[d])
    BY <1>3, <1>4 DEF BrokerOK
  <2>5. \A d \in Consumers : /\ Elements(buffer'[d]) \cap (ready' \cup acked') = {}
                             /\ Elements(buffer'[d]) \subseteq Elements(log')
    BY <1>2, <1>3, <1>4, <2>3 DEF BrokerOK
  <2>6. ASSUME NEW d \in Consumers, NEW e \in Consumers, d # e
        PROVE  Elements(buffer'[d]) \cap Elements(buffer'[e]) = {}
    <3>1. Elements(buffer[d]) \cap Elements(buffer[e]) = {}
      BY <2>6 DEF BrokerOK
    <3>2. CASE d = c \/ e = c
      BY <1>3, <1>4, <3>2
    <3>3. CASE d # c /\ e # c
      BY <1>4, <3>1, <3>3
    <3> QED
      BY <3>2, <3>3
  <2>7. ready' \cap acked' = {} /\ ready' \subseteq Elements(log')
    BY <1>2 DEF BrokerOK
  <2>8. ASSUME NEW n \in Elements(log'), n \notin ready' \cup acked'
        PROVE  \E d \in Consumers : n \in Elements(buffer'[d])
    <3>1. n \in Elements(log) /\ n \notin ready \cup acked /\ n \notin Elements(buffer[c])
      BY <1>2, <2>8
    <3>2. PICK d \in Consumers : n \in Elements(buffer[d])
      BY <3>1 DEF BrokerOK
    <3> QED
      BY <1>4, <3>1, <3>2
  <2> QED
    BY <2>2, <2>4, <2>5, <2>6, <2>7, <2>8 DEF BrokerOK
<1> QED
  BY <1>1, <1>6, <1>7

\* Handlers, failures and restarts move no message.
LEMMA HandlingKeeps ==
    ASSUME ConsumerInv, NEW c \in Consumers,
           Start(c) \/ Statement(c) \/ Wait(c) \/ StatementFails(c) \/ Restart(c)
    PROVE  ConsumerInv'
<1> USE DEF ConsumerInv, ConsumerTypeOK
<1>0. c \in Procs /\ \A d \in Consumers : d \in Procs
  BY ConsumerAssumption
<1>1. TypeInv'
  BY LedgerTypesKept DEF ConsumerNext, Step
<1>2. UNCHANGED <<content, log, opened, ready, buffer, acked>>
  BY DEF Start, Statement, Wait, StatementFails, Restart, broker
<1>3. up' \in [Consumers -> BOOLEAN] /\ faults' \in 0..MaxFaults
  <2>1. CASE Start(c) \/ Statement(c) \/ Wait(c)
    BY <2>1 DEF Start, Statement, Wait, broker
  <2>2. CASE StatementFails(c)
    BY <2>2, ConsumerAssumption DEF StatementFails
  <2>3. CASE Restart(c)
    BY <2>3 DEF Restart
  <2> QED
    BY <2>1, <2>2, <2>3
<1>4. ConsumerTypeOK'
  BY <1>1, <1>2, <1>3 DEF TypeInv
<1>5. CASE Start(c)
  <2>1. up' = up /\ buffer[c] # <<>>
    BY <1>5 DEF Start, broker
  <2>2. \A d \in Consumers \ {c} : pc'[d] = pc[d]
    BY <1>0, <1>5, OnlyOneStarts
  <2> QED
    BY <1>1, <1>2, <1>4, <2>1, <2>2, HandlerKeepsPlaces
<1>6. CASE Statement(c) \/ Wait(c) \/ StatementFails(c)
  <2>1. up' = up /\ (LockStep(c) \/ FreeStep(c) \/ Fail(c))
    BY <1>6 DEF Statement, Wait, StatementFails, broker
  <2>2. pc[c] # "idle" /\ \A d \in Consumers \ {c} : pc'[d] = pc[d]
    BY <1>0, <2>1, OnlyOneMoves
  <2>3. up[c] => buffer[c] # <<>>
    BY <2>2 DEF BrokerOK
  <2> QED
    BY <1>1, <1>2, <1>4, <2>1, <2>2, <2>3, HandlerKeepsPlaces
<1>7. CASE Restart(c)
  <2>1. /\ ~up[c] /\ pc'[c] = "idle"
        /\ \A d \in Consumers \ {c} : pc'[d] = pc[d] /\ up'[d] = up[d]
    BY <1>0, <1>7 DEF Restart, TypeOK
  <2> QED
    BY <1>1, <1>2, <1>4, <2>1, HandlerKeepsPlaces
<1> QED
  BY <1>5, <1>6, <1>7

\* A gRPC call moves no message.
LEMMA GrpcKeeps ==
    ASSUME ConsumerInv, NEW p \in Callers, GrpcCall(p) \/ GrpcStep(p) \/ Wait(p) \/ GrpcFails(p)
    PROVE  ConsumerInv'
<1>1. TypeInv'
  BY LedgerTypesKept DEF ConsumerInv, ConsumerNext
<1>2. /\ UNCHANGED <<content, log, opened, ready, buffer, acked, up, faults>>
      /\ \A c \in Consumers : pc'[c] = pc[c]
  BY GrpcApart DEF ConsumerInv, ConsumerTypeOK, broker
<1> QED
  BY <1>1, <1>2 DEF ConsumerInv, ConsumerTypeOK, BrokerOK, TypeInv

\* The types and the places are inductive: one lemma per action.
LEMMA ConsumerInvStep == ConsumerInv /\ [ConsumerNext]_cvars => ConsumerInv'
<1> SUFFICES ASSUME ConsumerInv, [ConsumerNext]_cvars PROVE ConsumerInv'
  OBVIOUS
<1>1. CASE UNCHANGED cvars
  <2>1. TypeInv'
    BY LedgerTypesKept DEF ConsumerInv
  <2>2. UNCHANGED <<pc, content, log, opened, ready, buffer, acked, up, faults>>
    BY <1>1 DEF cvars, vars, broker
  <2> QED
    BY <2>1, <2>2 DEF ConsumerInv, ConsumerTypeOK, BrokerOK, TypeInv
<1> QED
  BY <1>1, PublishKeeps, DeliverKeeps, SettleKeeps, DropKeeps, HandlingKeeps, GrpcKeeps, Zenon
     DEF ConsumerNext, Step

\* The types and the places hold for every number of replicas, messages and faults.
THEOREM ConsumerInvariant == ConsumerSpec => []ConsumerInv
BY ConsumerInvInit, ConsumerInvStep, PTL DEF ConsumerSpec

\* The tables, the requests and the broker keep their types; no subscriber ever holds
\* more than the prefetch (subscriber.go Consume, Qos).
THEOREM ConsumerTypes == ConsumerSpec => []ConsumerTypeOK
BY ConsumerInvariant, PTL DEF ConsumerInv

\* No message is lost, duplicated or held by two replicas, whatever handlers, connections
\* and processes fail (subscriber.go Consume).
THEOREM EventsKept == ConsumerSpec => []NoEventLost
<1>1. BrokerOK => NoEventLost
  BY DEF BrokerOK, NoEventLost
<1> QED
  BY <1>1, ConsumerInvariant, PTL DEF ConsumerInv

-----------------------------------------------------------------------------
(* The money under the consumers                                           *)

\* A call, an early answer and the death of a handler write no table and take no lock: the
\* transaction of a handler that dies is rolled back.
LEMMA MoneyKept ==
    ASSUME ConsumerTypeOK, TypeInv, TypeInv', MoneyInv, [ConsumerNext]_cvars
    PROVE  MoneyInv'
<1> USE DEF TypeInv
<1>1. CASE [Next]_vars
  BY <1>1, MoneyStep
<1>2. ASSUME NEW c \in Consumers, \/ \E r \in Reservations : CallOpen(c, r, OwnKey[r])
                                  \/ Answer(c, "ok", NoView) \/ Answer(c, "error", NoView)
      PROVE  MoneyInv'
  <2>1. c \in Procs
    BY ConsumerAssumption
  <2>2. \/ \E v, w : Answer(c, v, w)
        \/ \E v : Begin(c, "open_insert", v, None)
    BY <1>2, Zenon DEF CallOpen
  <2>3. /\ UNCHANGED tables
        /\ pc'[c] \notin {"close_write", "append_commit"}
        /\ \A q \in Procs \ {c} : /\ pc'[q] = pc[q] /\ cur'[q] = cur[q]
                                  /\ req'[q] = req[q] /\ seen'[q] = seen[q]
    BY <2>1, <2>2 DEF TypeOK, Answer, Begin, Goto
  <2> QED
    BY <2>1, <2>3, QuietKeeps
<1>3. ASSUME NEW c \in Consumers, Restart(c) PROVE MoneyInv'
  <2>1. c \in Procs
    BY ConsumerAssumption
  <2>2. /\ UNCHANGED tables /\ pc'[c] = "idle"
        /\ \A q \in Procs \ {c} : /\ pc'[q] = pc[q] /\ cur'[q] = cur[q]
                                  /\ req'[q] = req[q] /\ seen'[q] = seen[q]
    BY <1>3, <2>1 DEF Restart, TypeOK
  <2> QED
    BY <2>1, <2>2, QuietKeeps
<1> QED
  BY <1>1, <1>2, <1>3, LedgerSteps

\* Under the consumers, too, every total is the sum of its lines, nothing is charged twice
\* and a reservation has one invoice: however often events are repeated or redelivered,
\* to whichever replicas, wherever in a transaction a replica dies, and whatever gRPC calls
\* open and close meanwhile (reservation.go Handle, subscriber.go Consume,
\* repository/postgres/invoice.go).
THEOREM ConsumersKeepLedger == ConsumerSpec => [](IndInv /\ OneInvoicePerReservation)
<1>1. ConsumerInit => MoneyInv /\ OneInvoicePerReservation
  <2>1. Init => OneInvoicePerReservation
    BY DEF Init, OneInvoicePerReservation, Exists, NoRow
  <2> QED
    BY <2>1, MoneyInit DEF ConsumerInit
<1>2. ConsumerInv /\ ConsumerInv' /\ MoneyInv /\ [ConsumerNext]_cvars => MoneyInv'
  BY MoneyKept DEF ConsumerInv
<1>3. ConsumerInv /\ MoneyInv => IndInv
  BY DEF ConsumerInv, TypeInv, MoneyInv, IndInv
<1>4. ConsumerInv /\ IndInv /\ OneInvoicePerReservation /\ [ConsumerNext]_cvars
        => OneInvoicePerReservation'
  <2> SUFFICES ASSUME ConsumerInv, IndInv, OneInvoicePerReservation, [ConsumerNext]_cvars
               PROVE  OneInvoicePerReservation'
    OBVIOUS
  <2>1. CASE [Next]_vars
    BY <2>1, OneInvoiceStep
  <2>2. CASE UNCHANGED tables
    BY <2>2 DEF tables, OneInvoicePerReservation, Exists
  <2>3. ASSUME NEW c \in Consumers, \/ \E r \in Reservations : CallOpen(c, r, OwnKey[r])
                                    \/ Answer(c, "ok", NoView) \/ Answer(c, "error", NoView)
                                    \/ Restart(c)
        PROVE  UNCHANGED tables
    BY <2>3, Zenon DEF CallOpen, Begin, Answer, Restart, tables
  <2> QED
    BY <2>1, <2>2, <2>3, LedgerSteps DEF ConsumerInv
<1> QED
  BY <1>1, <1>2, <1>3, <1>4, ConsumerInvariant, PTL DEF ConsumerSpec

-----------------------------------------------------------------------------
(* What is acknowledged has been applied                                   *)

\* A key that is a reservation's id belongs to that reservation.
Fits(key, res) == \A r \in Reservations : key = OwnKey[r] => r = res

\* No open and no row has another reservation's id for its key, so what findByIdem finds
\* for a consumer is of the right reservation.
OwnKeyOK ==
    /\ \A p \in Procs : pc[p] \in {"open_insert", "open_find"} => Fits(req[p].key, req[p].res)
    /\ \A i \in InvoiceIds : Exists(i) => Fits(invoice[i].key, invoice[i].res)

IsFee(m) == Good(m, EvtReservationCancelled) \/ Good(m, EvtReservationExpired)

\* What the handler of message m has reached at each of its statements.
Handling(c, m) ==
    /\ pc[c] \in {"open_insert", "open_find"} =>
          /\ Good(m, EvtReservationCreated)
          /\ req[c].res = content[m].res /\ req[c].key = OwnKey[content[m].res]
    /\ pc[c] = "close_find" =>
          Good(m, EvtReservationCheckedOut) /\ req[c].res = content[m].res
    /\ pc[c] \in {"close_lock", "close_write"} =>
          /\ Good(m, EvtReservationCheckedOut)
          /\ Exists(cur[c]) /\ invoice[cur[c]].res = content[m].res
    /\ pc[c] = "fee_find" =>
          /\ IsFee(m) /\ req[c].res = content[m].res /\ req[c].kind = FeeKind(m)
          /\ Charges(m) /\ req[c].kind = "CANCELLATION" => req[c].fee # 0
    /\ pc[c] \in {"append_insert", "append_commit"} =>
          /\ IsFee(m) /\ req[c].kind = FeeKind(m) /\ invoice[cur[c]].res = content[m].res
    /\ pc[c] \in {"get_row", "get_lines"} => Applied(m)
    /\ pc[c] = "done" /\ reply[c] = "ok" => Applied(m)

\* The second layer, on top of ConsumerInv.
ApplyInv ==
    /\ OwnKeyOK
    /\ \A m \in opened : Invoiced(content[m].res)
    /\ \A c \in Consumers, m \in Messages :
          up[c] /\ pc[c] # "idle" /\ m = Head(buffer[c]) => Handling(c, m)
    /\ AckedIsApplied

\* No invoice goes away, changes hands or is reopened, and no line is taken away.
Grows ==
    \A i \in InvoiceIds : Exists(i) =>
        /\ invoice'[i].status # "NONE" /\ invoice'[i].res = invoice[i].res
        /\ invoice'[i].key = invoice[i].key
        /\ invoice[i].status = "CLOSED" => invoice'[i].status = "CLOSED"
        /\ \A k \in Kinds : count[i][k] > 0 => count'[i][k] > 0

\* The commits let the tables grow.
LEMMA WritersGrow ==
    ASSUME TypeInv, NEW p \in Procs, OpenInsert(p) \/ CloseWrite(p) \/ AppendCommit(p)
    PROVE  Grows
<1> USE DEF TypeInv, TypeOK
<1> SUFFICES ASSUME NEW i \in InvoiceIds, Exists(i)
             PROVE  /\ invoice'[i].status # "NONE" /\ invoice'[i].res = invoice[i].res
                    /\ invoice'[i].key = invoice[i].key
                    /\ invoice[i].status = "CLOSED" => invoice'[i].status = "CLOSED"
                    /\ \A k \in Kinds : count[i][k] > 0 => count'[i][k] > 0
  BY DEF Grows
<1>1. CASE OpenInsert(p)
  BY <1>1 DEF OpenInsert, Exists
<1>2. CASE CloseWrite(p)
  <2>1. \A k \in Kinds : count[i][k] > 0 => count'[i][k] > 0
    <3> DEFINE new == NewLines(req[p].lines)
    <3>1. count' = [count EXCEPT ![cur[p]] =
                      [k \in Kinds |-> @[k] + (IF hasKind(new, k) THEN 1 ELSE 0)]]
      BY <1>2 DEF CloseWrite
    <3> HIDE DEF new
    <3> QED
      BY <3>1
  <2> QED
    BY <1>2, <2>1 DEF CloseWrite, Exists, InvoiceRow
<1>3. CASE AppendCommit(p)
  <2>1. \A k \in Kinds : count[i][k] > 0 => count'[i][k] > 0
    BY <1>3 DEF AppendCommit
  <2> QED
    BY <1>3, <2>1 DEF AppendCommit, Exists, InvoiceRow
<1> QED
  BY <1>1, <1>2, <1>3

\* So does every step of the consumers and the broker.
LEMMA ConsumerGrows ==
    ASSUME ConsumerInv, [ConsumerNext]_cvars
    PROVE  Grows
<1>1. CASE UNCHANGED tables
  BY <1>1 DEF tables, Grows, Exists
<1>2. CASE [Next]_vars
  BY <1>1, <1>2, Writers, WritersGrow DEF ConsumerInv
<1>3. ASSUME NEW c \in Consumers, \/ \E r \in Reservations : CallOpen(c, r, OwnKey[r])
                                  \/ Answer(c, "ok", NoView) \/ Answer(c, "error", NoView)
                                  \/ Restart(c)
      PROVE  UNCHANGED tables
  BY <1>3, Zenon DEF CallOpen, Begin, Answer, Restart, tables
<1> QED
  BY <1>1, <1>2, <1>3, LedgerSteps DEF ConsumerInv

\* An effect stays: what grows does not undo it.
LEMMA AppliedStays ==
    ASSUME Grows, UNCHANGED content, NEW m \in Messages, m \in opened' => m \in opened, Applied(m)
    PROVE  Applied(m)'
<1>1. FeeKind(m) \in Kinds /\ FeeKind(m)' = FeeKind(m)
  BY DEF FeeKind, Kinds
<1>2. \A t : Good(m, t)' <=> Good(m, t)
  BY DEF Good
<1>3. Charges(m)' <=> Charges(m)
  BY DEF Charges, Good
<1>4. Good(m, EvtReservationCreated) => Invoiced(content[m].res)'
  BY DEF Applied, Invoiced, Grows, Exists
<1>5. Good(m, EvtReservationCheckedOut) =>
         \E i \in InvoiceIds : invoice'[i].res = content[m].res /\ invoice'[i].status = "CLOSED"
  BY DEF Applied, Grows, Exists
<1>6. Charges(m) /\ m \in opened =>
         \E i \in InvoiceIds :
            /\ invoice'[i].status # "NONE" /\ invoice'[i].res = content[m].res
            /\ invoice'[i].status = "CLOSED" \/ count'[i][FeeKind(m)] > 0
  BY <1>1 DEF Applied, Grows, Exists
<1> QED
  BY <1>1, <1>2, <1>3, <1>4, <1>5, <1>6 DEF Applied, Exists

\* A handler that does not move keeps what it has reached.
LEMMA HandlingStays ==
    ASSUME ConsumerInv, Grows, UNCHANGED content, NEW m \in Messages, m \in opened' => m \in opened,
           NEW c \in Consumers, Handling(c, m),
           pc'[c] = pc[c], req'[c] = req[c], cur'[c] = cur[c], reply'[c] = reply[c]
    PROVE  Handling(c, m)'
<1>1. \A t : Good(m, t)' <=> Good(m, t)
  BY DEF Good
<1>2. /\ Charges(m)' <=> Charges(m)
      /\ FeeKind(m)' = FeeKind(m)
      /\ IsFee(m)' <=> IsFee(m)
  BY DEF Charges, Good, FeeKind, IsFee
<1>3. Applied(m) => Applied(m)'
  BY AppliedStays
<1>4. pc[c] \in {"close_lock", "close_write", "append_insert", "append_commit"}
        => cur[c] \in InvoiceIds
  BY ConsumerAssumption DEF ConsumerInv, TypeInv, ControlOK
<1>5. pc[c] \in {"append_insert", "append_commit"} => Exists(cur[c])
  BY ConsumerAssumption DEF ConsumerInv, TypeInv, ControlOK
<1>6. /\ pc[c] \in {"close_lock", "close_write"} =>
            invoice'[cur[c]].status # "NONE" /\ invoice'[cur[c]].res = content[m].res
      /\ pc[c] \in {"append_insert", "append_commit"} => invoice'[cur[c]].res = content[m].res
  BY <1>4, <1>5 DEF Handling, Grows
<1> QED
  BY <1>1, <1>2, <1>3, <1>6 DEF Handling, Exists

\* What a message is for: one of four things.
LEMMA OneKindOfEvent ==
    ASSUME NEW m
    PROVE  /\ Good(m, EvtReservationCreated) =>
                 ~Good(m, EvtReservationCheckedOut) /\ ~IsFee(m) /\ ~Charges(m)
           /\ Good(m, EvtReservationCheckedOut) => ~IsFee(m) /\ ~Charges(m)
           /\ Charges(m) => IsFee(m) /\ ~Good(m, EvtReservationCheckedOut)
           /\ IsFee(m) => ~Good(m, EvtReservationCreated) /\ ~Good(m, EvtReservationCheckedOut)
BY DEF Good, IsFee, Charges, EvtReservationCreated, EvtReservationCheckedOut,
       EvtReservationCancelled, EvtReservationExpired

\* Handle starts what the message asks for.
LEMMA StartHandles ==
    ASSUME ConsumerInv, NEW c \in Consumers, NEW m \in Messages, m = Head(buffer[c]), Start(c)
    PROVE  Handling(c, m)'
<1> USE DEF ConsumerInv, ConsumerTypeOK, TypeOK
<1>1. c \in Procs /\ content[m] \in Event
  BY ConsumerAssumption
<1>2. Handle(c, content[m]) /\ content' = content /\ opened' = opened
  BY DEF Start, broker
<1>3. /\ \A t : Good(m, t)' <=> Good(m, t)
      /\ Charges(m)' <=> Charges(m)
      /\ FeeKind(m)' = FeeKind(m)
      /\ IsFee(m)' <=> IsFee(m)
  BY <1>2 DEF Good, Charges, FeeKind, IsFee
<1>4. CASE Answer(c, "error", NoView)
  BY <1>1, <1>4 DEF Answer, Goto, Handling
<1>5. CASE Answer(c, "ok", NoView) /\ content[m].body # "good"
  <2>1. Applied(m)'
    BY <1>2, <1>5 DEF Applied, Good, Charges
  <2> QED
    BY <1>1, <1>5, <2>1 DEF Answer, Goto, Handling
<1>6. CASE content[m].body = "good" /\ content[m].type = EvtReservationCreated
           /\ CallOpen(c, content[m].res, OwnKey[content[m].res])
  BY <1>1, <1>2, <1>3, <1>6 DEF CallOpen, Begin, Goto, Handling, Good, NoRequest
<1>7. ASSUME content[m].body = "good", content[m].type = EvtReservationCancelled,
             NEW x \in content[m].cancels, CallCancelFee(c, content[m].res, x)
      PROVE  Handling(c, m)'
  <2> DEFINE fee == AmountOf(Apply(CancelSession(x)), "CANCELLATION")
  <2>1. IsFee(m) /\ FeeKind(m) = "CANCELLATION" /\ (Charges(m) => fee > 0)
    BY <1>7 DEF IsFee, Good, FeeKind, Charges, EvtReservationCancelled, EvtReservationExpired
  <2>2. Begin(c, "fee_find", [NoRequest EXCEPT !.op = "fee", !.res = content[m].res,
                                !.kind = "CANCELLATION", !.fee = fee], None)
    BY <1>7 DEF CallCancelFee
  <2> HIDE DEF fee
  <2>3. Charges(m) => fee # 0
    BY <2>1
  <2> QED
    BY <1>1, <1>2, <1>3, <2>1, <2>2, <2>3 DEF Begin, Goto, Handling, NoRequest
<1>8. CASE content[m].body = "good" /\ content[m].type = EvtReservationExpired
           /\ CallNoShowFee(c, content[m].res)
  <2>1. IsFee(m) /\ FeeKind(m) = "NOSHOW"
    BY <1>8 DEF IsFee, Good, FeeKind
  <2> QED
    BY <1>1, <1>2, <1>3, <1>8, <2>1 DEF CallNoShowFee, Begin, Goto, Handling, NoRequest
<1>9. CASE content[m].body = "good" /\ content[m].type = EvtReservationCheckedOut
           /\ CallCheckedOut(c, content[m].res, content[m].stay)
  BY <1>1, <1>2, <1>3, <1>9 DEF CallCheckedOut, Begin, Goto, Handling, Good, NoRequest
<1> QED
  <2>1. content[m].body \in {"garbled", "blank"} => content[m].body # "good"
    OBVIOUS
  <2> QED
    BY <1>2, <1>4, <1>5, <1>6, <1>7, <1>8, <1>9, <2>1 DEF Handle

\* Each statement brings the handler nearer to the effect of its message, or fails.
LEMMA StatementHandles ==
    ASSUME ConsumerInv, ApplyInv, NEW c \in Consumers, NEW m \in Messages, Handling(c, m),
           LockStep(c) \/ FreeStep(c) \/ Fail(c), Grows, UNCHANGED <<content, opened>>
    PROVE  Handling(c, m)'
<1> USE DEF ConsumerInv, TypeInv, TypeOK
<1>1. c \in Procs
  BY ConsumerAssumption
<1>2. /\ \A t : Good(m, t)' <=> Good(m, t)
      /\ Charges(m)' <=> Charges(m)
      /\ FeeKind(m)' = FeeKind(m)
      /\ IsFee(m)' <=> IsFee(m)
  BY DEF Good, Charges, FeeKind, IsFee
<1>3. Applied(m) => Applied(m)'
  BY AppliedStays
<1>4. ASSUME NEW r, NEW v, Answer(c, r, v), r = "ok" => Applied(m)
      PROVE  Handling(c, m)'
  BY <1>1, <1>3, <1>4 DEF Answer, Goto, Handling
<1>5. CASE Fail(c)
  BY <1>4, <1>5 DEF Fail
<1>6. CASE Return(c)
  BY <1>1, <1>6 DEF Return, Goto, Handling
<1>7. CASE OpenInsert(c)
  <2>1. PICK i \in InvoiceIds : invoice' = [invoice EXCEPT ![i] = NewRow(req[c].res, req[c].key)]
    BY <1>7 DEF OpenInsert
  <2>2. Good(m, EvtReservationCreated) /\ req[c].res = content[m].res
    BY <1>7 DEF OpenInsert, Handling
  <2>3. invoice'[i].res = content[m].res /\ invoice'[i].status = "OPEN"
    BY <2>1, <2>2 DEF NewRow
  <2>4. Applied(m)'
    <3>1. Invoiced(content[m].res)'
      BY <2>3 DEF Invoiced, Exists
    <3> QED
      BY <1>2, <2>2, <3>1, OneKindOfEvent DEF Applied
  <2> QED
    BY <1>1, <1>7, <2>4 DEF OpenInsert, Goto, Handling
<1>8. CASE OpenReplay(c)
  BY <1>1, <1>2, <1>8 DEF OpenReplay, WorkOn, Goto, Handling
<1>9. CASE OpenFind(c)
  <2>1. ASSUME NEW i \in InvoiceIds, Exists(i), invoice[i].key = req[c].key, WorkOn(c, i, "get_row")
        PROVE  Handling(c, m)'
    <3>1. Good(m, EvtReservationCreated) /\ req[c].key = OwnKey[content[m].res]
      BY <1>9 DEF OpenFind, Handling
    <3>2. content[m].res \in Reservations /\ Fits(invoice[i].key, invoice[i].res)
      BY <2>1, ConsumerAssumption DEF ApplyInv, OwnKeyOK, ConsumerTypeOK, Event
    <3>3. invoice[i].res = content[m].res
      BY <2>1, <3>1, <3>2 DEF Fits
    <3>4. Applied(m)
      BY <2>1, <3>1, <3>3, OneKindOfEvent DEF Applied, Invoiced
    <3> QED
      BY <1>1, <1>3, <2>1, <3>4 DEF WorkOn, Goto, Handling
  <2> QED
    BY <1>4, <1>9, <2>1 DEF OpenFind
<1>10. CASE CloseFind(c)
  <2>1. ASSUME NEW i \in InvoiceIds, Exists(i), invoice[i].res = req[c].res,
               WorkOn(c, i, "close_lock")
        PROVE  Handling(c, m)'
    BY <1>1, <1>2, <1>10, <2>1 DEF CloseFind, WorkOn, Goto, Handling, tables, Exists
  <2> QED
    BY <1>4, <1>10, <2>1 DEF CloseFind
<1>11. CASE CloseLock(c)
  <2>1. /\ Good(m, EvtReservationCheckedOut)
        /\ cur[c] \in InvoiceIds /\ Exists(cur[c]) /\ invoice[cur[c]].res = content[m].res
    BY <1>1, <1>11 DEF CloseLock, Handling, ControlOK
  <2>2. CASE /\ Goto(c, "close_write")
             /\ UNCHANGED <<tables, req, cur, view, reply>>
    BY <1>1, <1>2, <2>1, <2>2 DEF Goto, Handling, tables, Exists
  <2>3. CASE invoice[cur[c]].status # "OPEN" /\ WorkOn(c, cur[c], "get_row")
    <3>1. invoice[cur[c]].status = "CLOSED"
      BY <2>1, <2>3 DEF Exists, InvoiceRow, Statuses
    <3>2. Applied(m)
      BY <2>1, <3>1, OneKindOfEvent DEF Applied
    <3> QED
      BY <1>1, <1>3, <2>3, <3>2 DEF WorkOn, Goto, Handling
  <2> QED
    BY <1>4, <1>11, <2>1, <2>2, <2>3 DEF CloseLock
<1>12. CASE CloseWrite(c)
  <2>1. /\ Good(m, EvtReservationCheckedOut)
        /\ cur[c] \in InvoiceIds /\ Exists(cur[c]) /\ invoice[cur[c]].res = content[m].res
    BY <1>1, <1>12 DEF CloseWrite, Handling, ControlOK
  <2>2. invoice[cur[c]].status \in {"OPEN", "CLOSED"}
    BY <2>1 DEF Exists, InvoiceRow, Statuses
  <2>3. invoice'[cur[c]].status = "CLOSED" /\ invoice'[cur[c]].res = content[m].res
    BY <1>12, <2>1, <2>2 DEF CloseWrite, InvoiceRow
  <2>4. Applied(m)'
    <3>1. \E i \in InvoiceIds : invoice'[i].res = content[m].res /\ invoice'[i].status = "CLOSED"
      BY <2>1, <2>3
    <3> QED
      BY <1>2, <2>1, <3>1, OneKindOfEvent DEF Applied
  <2> QED
    BY <1>1, <1>12, <2>4 DEF CloseWrite, Goto, Handling
<1>13. CASE FeeFind(c)
  <2>1. /\ IsFee(m) /\ req[c].res = content[m].res /\ req[c].kind = FeeKind(m)
        /\ Charges(m) /\ req[c].kind = "CANCELLATION" => req[c].fee # 0
    BY <1>13 DEF FeeFind, Handling
  <2>2. ASSUME NEW i \in InvoiceIds, invoice[i].res = req[c].res, WorkOn(c, i, "append_insert")
        PROVE  Handling(c, m)'
    BY <1>1, <1>2, <2>1, <2>2 DEF WorkOn, Goto, Handling, tables
  <2>3. ASSUME \/ \A i \in InvoiceIds :
                     Exists(i) /\ invoice[i].res = req[c].res => invoice[i].status # "OPEN"
               \/ req[c].kind = "CANCELLATION" /\ req[c].fee = 0
        PROVE  Applied(m)
    <3>1. ASSUME Charges(m), m \in opened
          PROVE  \E i \in InvoiceIds :
                    Exists(i) /\ invoice[i].res = content[m].res /\ invoice[i].status = "CLOSED"
      <4>1. PICK i \in InvoiceIds : Exists(i) /\ invoice[i].res = content[m].res
        BY <3>1 DEF ApplyInv, Invoiced
      <4>2. invoice[i].status # "OPEN"
        BY <2>1, <2>3, <3>1, <4>1
      <4> QED
        BY <4>1, <4>2 DEF Exists, InvoiceRow, Statuses
    <3> QED
      BY <2>1, <3>1, OneKindOfEvent DEF Applied
  <2> QED
    BY <1>4, <1>13, <2>2, <2>3 DEF FeeFind
<1>14. CASE AppendInsert(c)
  <2>1. IsFee(m) /\ req[c].kind = FeeKind(m) /\ invoice[cur[c]].res = content[m].res
    BY <1>14 DEF AppendInsert, Handling
  <2>2. CASE WorkOn(c, cur[c], "append_commit")
    BY <1>1, <1>2, <2>1, <2>2 DEF WorkOn, Goto, Handling, tables
  <2> QED
    BY <1>4, <1>14, <2>2 DEF AppendInsert
<1>15. CASE AppendCommit(c)
  <2>1. /\ IsFee(m) /\ req[c].kind = FeeKind(m) /\ invoice[cur[c]].res = content[m].res
        /\ cur[c] \in InvoiceIds /\ Exists(cur[c]) /\ FeeKind(m) \in Kinds
    BY <1>1, <1>15 DEF AppendCommit, Handling, ControlOK, FeeKind, Kinds
  <2>2. count'[cur[c]][FeeKind(m)] > 0
    BY <1>15, <2>1 DEF AppendCommit
  <2>3. invoice'[cur[c]].status # "NONE" /\ invoice'[cur[c]].res = content[m].res
    BY <2>1 DEF Grows
  <2>4. Applied(m)'
    <3>1. \E i \in InvoiceIds : /\ invoice'[i].status # "NONE" /\ invoice'[i].res = content[m].res
                                /\ count'[i][FeeKind(m)] > 0
      BY <2>1, <2>2, <2>3
    <3> QED
      BY <1>2, <2>1, <3>1, OneKindOfEvent DEF Applied, Exists
  <2> QED
    BY <1>1, <1>15, <2>4 DEF AppendCommit, Goto, Handling
<1>16. CASE GetRow(c)
  <2>1. Applied(m)
    BY <1>16 DEF GetRow, Handling
  <2>2. CASE Goto(c, "get_lines") /\ UNCHANGED <<tables, req, cur, seen, reply>>
    BY <1>1, <1>3, <2>1, <2>2 DEF Goto, Handling
  <2> QED
    BY <1>4, <1>16, <2>2 DEF GetRow
<1>17. CASE fetchLines(c)
  <2>1. Applied(m)
    BY <1>17 DEF fetchLines, Handling
  <2> QED
    BY <1>4, <1>17, <2>1 DEF fetchLines
<1> QED
  BY <1>5, <1>6, <1>7, <1>8, <1>9, <1>10, <1>11, <1>12, <1>13, <1>14, <1>15, <1>16, <1>17
     DEF LockStep, FreeStep

\* No row gets another reservation's id for its key.
LEMMA RowsOwnKey ==
    ASSUME ConsumerInv, OwnKeyOK, [ConsumerNext]_cvars
    PROVE  \A i \in InvoiceIds : invoice'[i].status # "NONE" =>
              Fits(invoice'[i].key, invoice'[i].res)
<1> DEFINE Sound == \A i \in InvoiceIds : invoice'[i].status # "NONE" =>
                       Fits(invoice'[i].key, invoice'[i].res)
<1> USE DEF ConsumerInv, TypeInv, TypeOK
<1>1. CASE UNCHANGED tables
  BY <1>1 DEF tables, OwnKeyOK, Exists
<1>2. ASSUME NEW p \in Procs, OpenInsert(p) PROVE Sound
  <2>1. PICK n \in InvoiceIds : invoice' = [invoice EXCEPT ![n] = NewRow(req[p].res, req[p].key)]
    BY <1>2 DEF OpenInsert
  <2>2. Fits(req[p].key, req[p].res)
    BY <1>2 DEF OpenInsert, OwnKeyOK
  <2> QED
    BY <2>1, <2>2 DEF NewRow, OwnKeyOK, Exists
<1>3. ASSUME NEW p \in Procs, CloseWrite(p) \/ AppendCommit(p) PROVE Sound
  <2>1. cur[p] \in InvoiceIds /\ Exists(cur[p])
    BY <1>3 DEF CloseWrite, AppendCommit, ControlOK
  <2>2. \A i \in InvoiceIds : invoice'[i].status # "NONE" =>
           Exists(i) /\ invoice'[i].res = invoice[i].res /\ invoice'[i].key = invoice[i].key
    <3>1. CASE CloseWrite(p)
      BY <2>1, <3>1 DEF CloseWrite, Exists, InvoiceRow
    <3>2. CASE AppendCommit(p)
      BY <2>1, <3>2 DEF AppendCommit, Exists, InvoiceRow
    <3> QED
      BY <1>3, <3>1, <3>2
  <2> QED
    BY <2>2 DEF OwnKeyOK
<1>4. CASE [Next]_vars
  BY <1>1, <1>2, <1>3, <1>4, Writers
<1>5. ASSUME NEW c \in Consumers, \/ \E r \in Reservations : CallOpen(c, r, OwnKey[r])
                                  \/ Answer(c, "ok", NoView) \/ Answer(c, "error", NoView)
                                  \/ Restart(c)
      PROVE  UNCHANGED tables
  BY <1>5, Zenon DEF CallOpen, Begin, Answer, Restart, tables
<1> QED
  BY <1>1, <1>4, <1>5, LedgerSteps

\* No open on its way carries another reservation's id as its key.
LEMMA OpensOwnKey ==
    ASSUME ConsumerInv, OwnKeyOK, [ConsumerNext]_cvars, NEW p \in Procs,
           pc'[p] \in {"open_insert", "open_find"}
    PROVE  Fits(req'[p].key, req'[p].res)
<1> DEFINE Sound == Fits(req'[p].key, req'[p].res)
<1> USE DEF ConsumerInv, TypeInv, TypeOK
<1>1. CASE pc'[p] = pc[p] /\ req'[p] = req[p]
  BY <1>1 DEF OwnKeyOK
<1>2. CASE UNCHANGED vars
  BY <1>1, <1>2 DEF vars
<1>3. ASSUME NEW c \in Procs, LockStep(c) \/ FreeStep(c) \/ Fail(c)
      PROVE  Sound
  <2>2. CASE c # p
    BY <1>1, <1>3, <2>2, OnlyOneMoves
  <2>3. CASE c = p
    <3>1. OpenReplay(p)
      <4>1. CASE Fail(p) \/ Return(p) \/ OpenFind(p) \/ CloseFind(p) \/ fetchLines(p)
        BY <4>1 DEF Fail, Return, OpenFind, CloseFind, fetchLines, Answer, WorkOn, Goto
      <4>2. CASE FeeFind(p) \/ AppendInsert(p)
        BY <4>2 DEF FeeFind, AppendInsert, Answer, WorkOn, Goto
      <4>3. CASE OpenInsert(p) \/ AppendCommit(p) \/ CloseWrite(p)
        BY <4>3 DEF OpenInsert, AppendCommit, CloseWrite, Goto
      <4>4. CASE CloseLock(p) \/ GetRow(p)
        BY <4>4 DEF CloseLock, GetRow, Answer, WorkOn, Goto
      <4> QED
        BY <1>3, <2>3, <4>1, <4>2, <4>3, <4>4 DEF LockStep, FreeStep
    <3> QED
      BY <3>1 DEF OpenReplay, WorkOn, OwnKeyOK
  <2> QED
    BY <2>2, <2>3
<1>4. ASSUME NEW c \in Consumers, Restart(c) PROVE Sound
  <2>1. CASE c = p
    BY <1>4, <2>1 DEF Restart
  <2>2. CASE c # p
    BY <1>1, <1>4, <2>2, OnlyOneStarts
  <2> QED
    BY <2>1, <2>2
<1>5. ASSUME NEW c \in Consumers, Start(c) PROVE Sound
  <2>1. CASE c # p
    BY <1>1, <1>5, <2>1, OnlyOneStarts
  <2>2. CASE c = p
    <3>1. PICK e : e = content[Head(buffer[c])]
      OBVIOUS
    <3>2. e.res \in Reservations /\ Handle(p, e)
      <4>1. Head(buffer[c]) \in Messages
        BY <1>5, HeadTailProperties DEF Start, ConsumerTypeOK
      <4> QED
        BY <1>5, <2>2, <3>1, <4>1, ConsumerAssumption DEF Start, ConsumerTypeOK, Event
    <3>3. \/ CallOpen(p, e.res, OwnKey[e.res])
          \/ \E r, v : Answer(p, r, v)
          \/ \E r : Begin(p, "fee_find", r, None)
          \/ \E r : Begin(p, "close_find", r, None)
      BY <3>2, Zenon DEF Handle, CallCancelFee, CallNoShowFee, CallCheckedOut
    <3>4. CallOpen(p, e.res, OwnKey[e.res])
      BY <3>3 DEF Answer, Begin, Goto
    <3>5. req'[p].key = OwnKey[e.res] /\ req'[p].res = e.res
      BY <3>4 DEF CallOpen, Begin, NoRequest
    <3> QED
      BY <3>2, <3>5, ConsumerAssumption DEF Fits
  <2> QED
    BY <2>1, <2>2
<1>6. ASSUME \/ UNCHANGED cvars
             \/ \E m \in Messages : PublishEvent(m)
             \/ \E c \in Consumers : DropConnection(c) \/ \E m \in Messages : Deliver(c, m)
      PROVE  UNCHANGED vars
  BY <1>6 DEF PublishEvent, DropConnection, Deliver, cvars
<1>7. ASSUME NEW q \in Callers, GrpcCall(q) PROVE Sound
  <2>1. CASE q # p
    BY <1>1, <1>7, <2>1, GrpcApart
  <2>2. CASE q = p
    <3>1. \/ \E r \in Reservations : \E k \in KeysOf[r] : CallOpen(p, r, k)
          \/ \E r, i : Begin(p, "close_lock", r, i)
      BY <1>7, <2>2, Zenon DEF GrpcCall, CallClose
    <3>2. PICK r \in Reservations : \E k \in KeysOf[r] : CallOpen(p, r, k)
      BY <3>1 DEF Begin, Goto
    <3>3. PICK k \in KeysOf[r] : req'[p].key = k /\ req'[p].res = r
      BY <3>2 DEF CallOpen, Begin, NoRequest
    <3> QED
      BY <3>2, <3>3, ConsumerAssumption DEF Fits
  <2> QED
    BY <2>1, <2>2
<1>8. ASSUME NEW c \in Consumers, Statement(c) \/ Wait(c) \/ StatementFails(c) \/ Settle(c)
      PROVE  c \in Procs /\ (LockStep(c) \/ FreeStep(c) \/ Fail(c))
  BY <1>8, ConsumerAssumption DEF Statement, Wait, StatementFails, Settle, FreeStep
<1>9. ASSUME NEW q \in Callers, GrpcStep(q) \/ Wait(q) \/ GrpcFails(q)
      PROVE  q \in Procs /\ (LockStep(q) \/ FreeStep(q) \/ Fail(q))
  BY <1>9 DEF Callers, GrpcStep, Wait, GrpcFails
<1> QED
  BY <1>2, <1>3, <1>4, <1>5, <1>6, <1>7, <1>8, <1>9 DEF ConsumerNext, Step

\* A handler beside the step keeps what it has reached, if the step leaves its delivery
\* first in its buffer.
LEMMA OtherHandlers ==
    ASSUME ConsumerInv, ApplyInv, Grows, UNCHANGED content, NEW c \in Consumers,
           pc'[c] = pc[c], req'[c] = req[c], cur'[c] = cur[c], reply'[c] = reply[c],
           up'[c] => up[c], buffer[c] # <<>> => Head(buffer'[c]) = Head(buffer[c]),
           \A m \in Elements(log) : m \in opened' => m \in opened,
           NEW m \in Messages, up'[c], pc'[c] # "idle", m = Head(buffer'[c])
    PROVE  Handling(c, m)'
<1>1. buffer[c] # <<>> /\ buffer[c] \in Seq(Messages) /\ Distinct(buffer[c])
  BY DEF ConsumerInv, ConsumerTypeOK, BrokerOK
<1>2. m = Head(buffer[c])
  BY <1>1
<1>3. m \in Elements(log)
  BY <1>1, <1>2, TailElements DEF ConsumerInv, BrokerOK
<1>4. Handling(c, m)
  BY <1>2 DEF ApplyInv
<1> QED
  BY <1>3, <1>4, HandlingStays

\* The handlers of the next state have reached what their statements need: one case per
\* action.
LEMMA HandlersKept ==
    ASSUME ConsumerInv, ApplyInv, [ConsumerNext]_cvars,
           NEW c \in Consumers, NEW m \in Messages, up'[c], pc'[c] # "idle", m = Head(buffer'[c])
    PROVE  Handling(c, m)'
<1> USE DEF ConsumerInv, TypeInv, TypeOK
<1>0. Grows /\ c \in Procs /\ \A d \in Consumers : d \in Procs
  BY ConsumerGrows, ConsumerAssumption
<1>1. CASE UNCHANGED cvars
  <2>1. UNCHANGED <<pc, req, cur, reply, up, buffer, opened, content>>
    BY <1>1 DEF cvars, vars, broker
  <2> QED
    BY <1>0, <2>1, OtherHandlers
<1>2. ASSUME NEW n \in Messages, PublishEvent(n) PROVE Handling(c, m)'
  <2>1. UNCHANGED <<pc, req, cur, reply, up, buffer, content>>
    BY <1>2 DEF PublishEvent, vars
  <2>2. \A x \in Elements(log) : x \in opened' => x \in opened
    BY <1>2 DEF PublishEvent
  <2> QED
    BY <1>0, <2>1, <2>2, OtherHandlers
<1>3. ASSUME NEW d \in Consumers, NEW n \in Messages, Deliver(d, n) PROVE Handling(c, m)'
  <2>1. UNCHANGED <<pc, req, cur, reply, up, opened, content>>
    BY <1>3 DEF Deliver, vars
  <2>2. buffer[c] # <<>> => Head(buffer'[c]) = Head(buffer[c])
    <3>1. buffer[c] \in Seq(Messages)
      BY DEF ConsumerTypeOK
    <3>2. buffer'[c] = buffer[c] \/ buffer'[c] = Append(buffer[c], n)
      BY <1>3 DEF Deliver, ConsumerTypeOK
    <3> QED
      BY <3>1, <3>2, AppendElements
  <2> QED
    BY <1>0, <2>1, <2>2, OtherHandlers
<1>4. ASSUME NEW d \in Consumers, DropConnection(d) PROVE Handling(c, m)'
  <2>1. UNCHANGED <<pc, req, cur, reply, opened, content>>
    BY <1>4 DEF DropConnection, vars
  <2>2. d # c /\ up'[c] = up[c] /\ buffer'[c] = buffer[c]
    BY <1>4 DEF DropConnection, ConsumerTypeOK
  <2> QED
    BY <1>0, <2>1, <2>2, OtherHandlers
<1>5. ASSUME NEW d \in Consumers, Restart(d) PROVE Handling(c, m)'
  <2>1. UNCHANGED <<buffer, opened, content>>
    BY <1>5 DEF Restart
  <2>2. d # c
    BY <1>0, <1>5 DEF Restart
  <2>3. up'[c] = up[c]
    BY <1>5, <2>2 DEF Restart, ConsumerTypeOK
  <2> QED
    BY <1>0, <1>5, <2>1, <2>2, <2>3, OnlyOneStarts, OtherHandlers
<1>6. ASSUME NEW d \in Consumers, Settle(d) PROVE Handling(c, m)'
  <2>1. d # c
    BY <1>0, <1>6 DEF Settle, Return, Goto
  <2>2. UNCHANGED <<up, opened, content>> /\ buffer'[c] = buffer[c]
    BY <1>6, <2>1 DEF Settle, ConsumerTypeOK
  <2>3. FreeStep(d)
    BY <1>6 DEF Settle, FreeStep
  <2> QED
    BY <1>0, <2>1, <2>2, <2>3, OnlyOneMoves, OtherHandlers
<1>7. ASSUME NEW d \in Consumers, Start(d) PROVE Handling(c, m)'
  <2>1. UNCHANGED <<up, buffer, opened, content>>
    BY <1>7 DEF Start, broker
  <2>2. CASE d = c
    BY <1>7, <2>1, <2>2, StartHandles
  <2>3. CASE d # c
    BY <1>0, <1>7, <2>1, <2>3, OnlyOneStarts, OtherHandlers
  <2> QED
    BY <2>2, <2>3
<1>8. ASSUME NEW d \in Consumers, Statement(d) \/ Wait(d) \/ StatementFails(d)
      PROVE  Handling(c, m)'
  <2>1. /\ UNCHANGED <<up, buffer, opened, content>>
        /\ LockStep(d) \/ FreeStep(d) \/ Fail(d)
    BY <1>8 DEF Statement, Wait, StatementFails, broker
  <2>2. CASE d = c
    <3>1. pc[c] # "idle"
      BY <1>0, <2>1, <2>2, OnlyOneMoves
    <3>2. Handling(c, m)
      BY <2>1, <3>1 DEF ApplyInv
    <3> QED
      BY <1>0, <2>1, <2>2, <3>2, StatementHandles
  <2>3. CASE d # c
    BY <1>0, <2>1, <2>3, OnlyOneMoves, OtherHandlers
  <2> QED
    BY <2>2, <2>3
<1>9. ASSUME NEW p \in Callers, GrpcCall(p) \/ GrpcStep(p) \/ Wait(p) \/ GrpcFails(p)
      PROVE  Handling(c, m)'
  <2>1. UNCHANGED <<up, buffer, opened, content>>
    BY <1>9, GrpcApart DEF broker
  <2>2. /\ pc'[c] = pc[c] /\ req'[c] = req[c]
        /\ cur'[c] = cur[c] /\ reply'[c] = reply[c]
    BY <1>9, GrpcApart
  <2> QED
    BY <1>0, <2>1, <2>2, OtherHandlers
<1> QED
  BY <1>1, <1>2, <1>3, <1>4, <1>5, <1>6, <1>7, <1>8, <1>9 DEF ConsumerNext, Step

\* A message is acknowledged by the handler that has applied it.
LEMMA AckedKept ==
    ASSUME ConsumerInv, ApplyInv, [ConsumerNext]_cvars, NEW m \in acked'
    PROVE  Applied(m)'
<1>0. Grows
  BY ConsumerGrows
<1>1. CASE m \in acked
  <2>1. Applied(m) /\ m \in Messages
    BY <1>1 DEF ApplyInv, AckedIsApplied, ConsumerInv, ConsumerTypeOK
  <2>2. content' = content /\ (m \in opened' => m \in opened)
    <3>1. ASSUME NEW n \in Messages, PublishEvent(n)
          PROVE  content' = content /\ (m \in opened' => m \in opened)
      BY <1>1, <3>1 DEF PublishEvent
    <3>2. CASE ~\E n \in Messages : PublishEvent(n)
      BY <3>2 DEF ConsumerNext, Step, Deliver, Start, Statement, Settle, Wait, StatementFails,
                  DropConnection, Restart, GrpcCall, GrpcStep, GrpcFails,
                  cvars, broker
    <3> QED
      BY <3>1, <3>2 DEF Invoiced
  <2> QED
    BY <1>0, <2>1, <2>2, AppliedStays
<1>2. CASE m \notin acked
  <2>1. PICK c \in Consumers : Settle(c)
    BY <1>2 DEF ConsumerNext, Step, PublishEvent, Deliver, Start, Statement, Wait, StatementFails,
                DropConnection, Restart, GrpcCall, GrpcStep, GrpcFails,
                cvars, broker
  <2>2. up[c] /\ reply[c] = "ok" /\ m = Head(buffer[c])
    BY <1>2, <2>1 DEF Settle, Settlement, Ack, Nack
  <2>3. pc[c] = "done" /\ content' = content /\ opened' = opened
    BY <2>1 DEF Settle, Return
  <2>4. m \in Messages
    BY <2>2, <2>3, TailElements DEF ConsumerInv, ConsumerTypeOK, BrokerOK
  <2>5. Applied(m)
    BY <2>2, <2>3, <2>4 DEF ApplyInv, Handling
  <2> QED
    BY <1>0, <2>3, <2>4, <2>5, AppliedStays
<1> QED
  BY <1>1, <1>2

\* A fee event was sent when its invoice was there, and the invoice stays.
LEMMA OpenedKept ==
    ASSUME ConsumerInv, ApplyInv, [ConsumerNext]_cvars, NEW m \in opened'
    PROVE  \E i \in InvoiceIds : invoice'[i].status # "NONE" /\ invoice'[i].res = content'[m].res
<1>0. Grows
  BY ConsumerGrows
<1>1. content' = content /\ Invoiced(content[m].res)
  <2>1. ASSUME NEW n \in Messages, PublishEvent(n)
        PROVE  content' = content /\ Invoiced(content[m].res)
    <3>1. /\ content' = content
          /\ opened' = opened \/ (Invoiced(content[n].res) /\ opened' = opened \cup {n})
      BY <2>1, Zenon DEF PublishEvent
    <3>2. CASE m = n /\ Invoiced(content[n].res)
      BY <3>1, <3>2 DEF Invoiced
    <3>3. CASE m \in opened
      BY <3>1, <3>3 DEF ApplyInv
    <3>4. m \in opened \/ (m = n /\ Invoiced(content[n].res))
      <4>1. CASE opened' = opened
        BY <4>1
      <4>2. CASE Invoiced(content[n].res) /\ opened' = opened \cup {n}
        BY <4>2
      <4> QED
        BY <3>1, <4>1, <4>2
    <3> QED
      BY <3>2, <3>3, <3>4
  <2>2. CASE ~\E n \in Messages : PublishEvent(n)
    <3>1. content' = content /\ opened' = opened
      BY <2>2 DEF ConsumerNext, Step, Deliver, Start, Statement, Settle, Wait, StatementFails,
                  DropConnection, Restart, GrpcCall, GrpcStep, GrpcFails,
                  cvars, broker
    <3>2. m \in opened
      BY <3>1
    <3> QED
      BY <3>1, <3>2 DEF ApplyInv
  <2> QED
    BY <2>1, <2>2
<1> QED
  BY <1>0, <1>1 DEF Grows, Invoiced

\* The second layer is inductive.
LEMMA ApplyStep == ConsumerInv /\ ApplyInv /\ [ConsumerNext]_cvars => ApplyInv'
<1> SUFFICES ASSUME ConsumerInv, ApplyInv, [ConsumerNext]_cvars PROVE ApplyInv'
  OBVIOUS
<1>1. OwnKeyOK'
  BY RowsOwnKey, OpensOwnKey DEF ApplyInv, OwnKeyOK, Exists
<1>2. \A m \in opened' : Invoiced(content[m].res)'
  BY OpenedKept DEF Invoiced, Exists
<1>3. AckedIsApplied'
  BY AckedKept DEF AckedIsApplied
<1> QED
  BY <1>1, <1>2, <1>3, HandlersKept DEF ApplyInv

\* Every acknowledged reservation event has had its effect on the ledger, for any number of
\* replicas, messages, gRPC calls, failing statements, lost connections and restarts: d.Ack
\* comes after the COMMIT of the effect, and nothing undoes it (reservation.go Handle,
\* subscriber.go Consume).
THEOREM AckedApplied == ConsumerSpec => []AckedIsApplied
<1>1. ConsumerInit => ApplyInv
  BY ConsumerAssumption
     DEF ConsumerInit, Init, ApplyInv, OwnKeyOK, AckedIsApplied, Exists, NoRow
<1>2. ConsumerSpec => []ApplyInv
  BY <1>1, ApplyStep, ConsumerInvariant, PTL DEF ConsumerSpec
<1> QED
  BY <1>2, PTL DEF ApplyInv
=============================================================================
