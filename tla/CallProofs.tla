----------------------------- MODULE CallProofs -----------------------------
(***************************************************************************)
(* Proofs about Call, for any users, any plan of calls and any bounds:     *)
(* type correctness, that a session is only replaced when its call is over *)
(* and its screen is closed or about to be, that setting a call up never   *)
(* kills the process, and that what a phone calls connected has a Peer, a  *)
(* local stream and a place in the room.                                   *)
(*                                                                         *)
(* Nearly every step rewrites one session and hands something to the       *)
(* server.  Follows says what the rewriting respects; SessionStep, that    *)
(* the invariant then survives.  The three steps of the hang-up button are *)
(* the ones that do not follow, and use SessionStepAt.  The lemmas before  *)
(* say what the building blocks of sessions and of the network return.     *)
(*                                                                         *)
(* The last two follow from SetupInv.  PhoneOK speaks of one phone by its  *)
(* sessions, inbox, invitations and rooms, so the lemmas about what may    *)
(* happen to these four are about constants, and an action is one or two   *)
(* of them put together.                                                   *)
(***************************************************************************)
EXTENDS Call, SequenceTheorems, FiniteSetTheorems, TLAPS

-----------------------------------------------------------------------------
(* Building blocks.                                                        *)

LEMMA SeqFacts ==
  ASSUME NEW T, NEW q \in Seq(T)
  PROVE  /\ Len(q) \in Nat /\ DOMAIN q = 1 .. Len(q)
         /\ \A j \in DOMAIN q : q[j] \in T
         /\ q # <<>> => /\ Len(q) > 0 /\ Len(q) \in DOMAIN q
                        /\ Head(q) = q[1] /\ Head(q) \in T /\ Tail(q) \in Seq(T)
                        /\ DOMAIN Tail(q) = 1 .. (Len(q) - 1)
                        /\ \A j \in 1 .. (Len(q) - 1) : Tail(q)[j] = q[j + 1]
<1>1. Len(q) \in Nat /\ DOMAIN q = 1 .. Len(q)
  BY LenProperties
<1>2. \A j \in DOMAIN q : q[j] \in T
  BY ElementOfSeq, <1>1
<1>3. ASSUME q # <<>>
      PROVE  /\ Len(q) > 0 /\ Len(q) \in DOMAIN q
             /\ Head(q) = q[1] /\ Head(q) \in T /\ Tail(q) \in Seq(T)
             /\ DOMAIN Tail(q) = 1 .. (Len(q) - 1)
             /\ \A j \in 1 .. (Len(q) - 1) : Tail(q)[j] = q[j + 1]
  <2>1. Len(q) # 0 BY <1>3, EmptySeq
  <2>2. /\ Head(q) = q[1] /\ Head(q) \in T
        /\ Tail(q) \in Seq(T) /\ Len(Tail(q)) = Len(q) - 1
        /\ \A j \in 1 .. Len(Tail(q)) : Tail(q)[j] = q[j + 1]
    BY <1>1, <1>2, <1>3, <2>1, HeadTailProperties
  <2>3. DOMAIN Tail(q) = 1 .. Len(Tail(q)) BY <2>2, LenProperties
  <2> QED BY <1>1, <2>1, <2>2, <2>3
<1> QED BY <1>1, <1>2, <1>3

LEMMA AppendFacts ==
  ASSUME NEW T, NEW q \in Seq(T), NEW m \in T
  PROVE  /\ Append(q, m) \in Seq(T) /\ Append(q, m) # <<>>
         /\ Len(Append(q, m)) = Len(q) + 1
         /\ DOMAIN Append(q, m) = 1 .. (Len(q) + 1)
         /\ \A j \in 1 .. Len(q) : Append(q, m)[j] = q[j]
         /\ Append(q, m)[Len(q) + 1] = m
<1>1. /\ Append(q, m) \in Seq(T) /\ Len(Append(q, m)) = Len(q) + 1
      /\ \A j \in 1 .. Len(q) : Append(q, m)[j] = q[j]
      /\ Append(q, m)[Len(q) + 1] = m
  BY AppendProperties
<1>2. Len(q) \in Nat /\ DOMAIN Append(q, m) = 1 .. Len(Append(q, m))
  BY <1>1, LenProperties
<1>3. Append(q, m) # <<>> BY <1>1, <1>2, EmptySeq
<1> QED BY <1>1, <1>2, <1>3

LEMMA HasTaskAppend ==
  ASSUME NEW ts \in Seq(Task), NEW t \in Task, NEW k
  PROVE  HasTask(Append(ts, t), k) <=> HasTask(ts, k) \/ t.kind = k
BY SeqFacts, AppendFacts DEF HasTask

LEMMA HasTaskTail ==
  ASSUME NEW ts \in Seq(Task), ts # <<>>, NEW k
  PROVE  HasTask(ts, k) <=> HasTask(Tail(ts), k) \/ Head(ts).kind = k
<1>1. /\ Len(ts) \in Nat /\ Len(ts) > 0 /\ DOMAIN ts = 1 .. Len(ts)
      /\ Head(ts) = ts[1] /\ DOMAIN Tail(ts) = 1 .. (Len(ts) - 1)
      /\ \A j \in 1 .. (Len(ts) - 1) : Tail(ts)[j] = ts[j + 1]
  BY SeqFacts
<1>2. ASSUME HasTask(ts, k) PROVE HasTask(Tail(ts), k) \/ Head(ts).kind = k
  <2>1. PICK j \in DOMAIN ts : ts[j].kind = k BY <1>2 DEF HasTask
  <2>2. CASE j = 1 BY <1>1, <2>1, <2>2
  <2>3. CASE j # 1
    <3>1. j - 1 \in DOMAIN Tail(ts) /\ Tail(ts)[j - 1] = ts[j]
      BY <1>1, <2>1, <2>3
    <3> QED BY <2>1, <3>1 DEF HasTask
  <2> QED BY <2>2, <2>3
<1>3. ASSUME HasTask(Tail(ts), k) PROVE HasTask(ts, k)
  <2>1. PICK j \in DOMAIN Tail(ts) : Tail(ts)[j].kind = k BY <1>3 DEF HasTask
  <2>2. j + 1 \in DOMAIN ts /\ ts[j + 1] = Tail(ts)[j] BY <1>1, <2>1
  <2> QED BY <2>1, <2>2 DEF HasTask
<1>4. 1 \in DOMAIN ts BY <1>1
<1> QED BY <1>1, <1>2, <1>3, <1>4 DEF HasTask

LEMMA HasTaskConcat ==
  ASSUME NEW ts \in Seq(Task), NEW qs \in Seq(Task), NEW k
  PROVE  HasTask(ts \o qs, k) <=> HasTask(ts, k) \/ HasTask(qs, k)
<1>1. /\ ts \o qs \in Seq(Task) /\ Len(ts \o qs) = Len(ts) + Len(qs)
      /\ \A j \in 1 .. Len(ts) : (ts \o qs)[j] = ts[j]
      /\ \A j \in 1 .. Len(qs) : (ts \o qs)[Len(ts) + j] = qs[j]
  <2>1. \A j \in 1 .. Len(ts) + Len(qs) :
          (ts \o qs)[j] = IF j <= Len(ts) THEN ts[j] ELSE qs[j - Len(ts)]
    BY ConcatProperties
  <2> QED BY <2>1, SeqFacts, ConcatProperties
<1>2. /\ Len(ts) \in Nat /\ DOMAIN ts = 1 .. Len(ts)
      /\ Len(qs) \in Nat /\ DOMAIN qs = 1 .. Len(qs)
      /\ DOMAIN (ts \o qs) = 1 .. (Len(ts) + Len(qs))
  BY <1>1, SeqFacts
<1>3. ASSUME HasTask(ts \o qs, k) PROVE HasTask(ts, k) \/ HasTask(qs, k)
  <2>1. PICK j \in DOMAIN (ts \o qs) : (ts \o qs)[j].kind = k
    BY <1>3 DEF HasTask
  <2>2. CASE j <= Len(ts) BY <1>1, <1>2, <2>1, <2>2 DEF HasTask
  <2>3. CASE j > Len(ts)
    <3>1. j - Len(ts) \in DOMAIN qs /\ Len(ts) + (j - Len(ts)) = j
      BY <1>2, <2>1, <2>3
    <3>2. (ts \o qs)[j] = qs[j - Len(ts)] BY <1>1, <1>2, <3>1
    <3> QED BY <2>1, <3>1, <3>2 DEF HasTask
  <2> QED BY <1>2, <2>1, <2>2, <2>3
<1>4. ASSUME HasTask(ts, k) PROVE HasTask(ts \o qs, k)
  <2>1. PICK j \in DOMAIN ts : ts[j].kind = k BY <1>4 DEF HasTask
  <2> QED BY <1>1, <1>2, <2>1 DEF HasTask
<1>5. ASSUME HasTask(qs, k) PROVE HasTask(ts \o qs, k)
  <2>1. PICK j \in DOMAIN qs : qs[j].kind = k BY <1>5 DEF HasTask
  <2>2. Len(ts) + j \in DOMAIN (ts \o qs) BY <1>2, <2>1
  <2> QED BY <1>1, <1>2, <2>1, <2>2 DEF HasTask
<1> QED BY <1>3, <1>4, <1>5

TaskKind == {"create", "ringBack", "join", "refuse", "cancel", "leave",
             "release", "close", "peers", "newPeer"}

\* The screen is closed, or the session's executor is about to close it.
Shut(s) == s.ui = "closed" \/ HasTask(s.tasks, "close")

\* Session o may go on as s, whatever the main thread is at.
Follows(o, s) ==
  /\ o.end # "no" => s.end # "no"
  /\ o.stray => s.stray
  /\ o.ui # "none" => s.ui # "none"
  /\ o.ui = "closed" => s.ui = "closed"
  /\ Shut(o) => Shut(s)
  /\ s.state = "Idle" => o.state = "Idle" \/ Shut(s)

LEMMA FollowsFurther ==
  ASSUME NEW o, NEW s, NEW t, Follows(o, s), Follows(s, t)
  PROVE  Follows(o, t)
BY DEF Follows

\* A new session of a CallSession constructor has the right shape.
LEMMA NewSessionType ==
  ASSUME NEW r \in Room, NEW v \in User, NEW coming \in BOOLEAN
  PROVE  /\ NewSession(r, v, coming) \in Session
         /\ EndsInOrder(NewSession(r, v, coming))
         /\ NewSession(r, v, coming).state # "Idle"
<1> DEFINE k == IF coming THEN "ringBack" ELSE "create"
           q == <<NewTask(k, Nobody)>>
<1>1. /\ NewTask(k, Nobody) \in Task
      /\ NewTask(k, Nobody).kind \notin {"release", "close"}
  BY DEF NewTask, Task
<1>2. q \in Seq(Task) /\ ~HasTask(q, "release") /\ ~HasTask(q, "close")
  BY <1>1 DEF HasTask
<1>3. 0 \in 0 .. MaxClicks
  BY ConstantsAssumption DEF ConstantsAssumption
<1>4. /\ NewSession(r, v, coming).tasks = q
      /\ NewSession(r, v, coming).state # "Idle"
      /\ NewSession(r, v, coming).peer = "none"
  BY DEF NewSession
<1> HIDE DEF q
<1>5. NewSession(r, v, coming) \in Session
  <2>1. /\ (IF coming THEN "Incoming" ELSE "Outgoing") \in State
        /\ (IF coming THEN "none" ELSE "open") \in Ui
        /\ "no" \in End
    BY DEF State, Ui, End
  <2>2. <<NewTask(IF coming THEN "ringBack" ELSE "create", Nobody)>> \in Seq(Task)
    BY <1>2 DEF q
  <2>3. QED
    BY <1>3, <2>1, <2>2 DEF NewSession, Session
<1>6. EndsInOrder(NewSession(r, v, coming))
  BY <1>2, <1>4 DEF EndsInOrder
<1>7. QED
  BY <1>4, <1>5, <1>6

\* Posting a task (executor.execute) keeps the shape of a session; only a
\* release needs the call to be over.
LEMMA PostType ==
  ASSUME NEW s \in Session, NEW k \in TaskKind, NEW v \in User \cup {Nobody}
  PROVE  /\ Post(s, k, v) \in Session
         /\ EndsInOrder(s) /\ k \notin {"release", "close"} =>
              EndsInOrder(Post(s, k, v))
         /\ Follows(s, Post(s, k, v))
         /\ \A l : HasTask(Post(s, k, v).tasks, l) <=> HasTask(s.tasks, l) \/ l = k
         /\ Post(s, k, v) = [s EXCEPT !.tasks = Post(s, k, v).tasks]
<1> DEFINE t == NewTask(k, v)
           q == Append(s.tasks, t)
<1>1. t \in Task /\ t.kind = k
  BY DEF NewTask, Task, TaskKind
<1>2. s.tasks \in Seq(Task)
  BY DEF Session
<1>3. q \in Seq(Task)
  BY <1>1, <1>2, AppendProperties
<1>4. \A l : HasTask(q, l) <=> HasTask(s.tasks, l) \/ l = k
  BY <1>1, <1>2, HasTaskAppend
<1>5. Post(s, k, v) = [s EXCEPT !.tasks = q]
  BY DEF Post
<1> HIDE DEF q, t
<1>6. Post(s, k, v) \in Session /\ Post(s, k, v).tasks = q
  BY <1>3, <1>5 DEF Session
<1> DEFINE p == Post(s, k, v)
<1>7. /\ p.end = s.end /\ p.ui = s.ui /\ p.stray = s.stray
      /\ p.state = s.state /\ p.peer = s.peer
  BY <1>5 DEF Session
<1> HIDE DEF p
<1>8. EndsInOrder(s) /\ k \notin {"release", "close"} => EndsInOrder(p)
  BY <1>4, <1>6, <1>7 DEF EndsInOrder, p
<1>9. Follows(s, p)
  BY <1>4, <1>6, <1>7 DEF Follows, Shut, p
<1>10. QED
  BY <1>4, <1>5, <1>6, <1>8, <1>9 DEF p

\* Taking the first task off the queue of an executor.
LEMMA RestType ==
  ASSUME NEW s \in Session, s.tasks # <<>>
  PROVE  /\ Head(s.tasks) \in Task
         /\ Rest(s) \in Session
         /\ EndsInOrder(s) => EndsInOrder(Rest(s))
         /\ Head(s.tasks).kind # "close" \/ s.ui = "closed" => Follows(s, Rest(s))
         /\ Rest(s).ui = s.ui
<1>1. s.tasks \in Seq(Task)
  BY DEF Session
<1> DEFINE q == Tail(s.tasks)
<1>2. Head(s.tasks) \in Task /\ q \in Seq(Task)
  BY <1>1, SeqFacts
<1>3. \A l : HasTask(s.tasks, l) <=> HasTask(q, l) \/ Head(s.tasks).kind = l
  BY <1>1, HasTaskTail
<1>4. Rest(s) = [s EXCEPT !.tasks = q]
  BY DEF Rest
<1> HIDE DEF q
<1>5. Rest(s) \in Session /\ Rest(s).tasks = q
  BY <1>2, <1>4 DEF Session
<1> DEFINE p == Rest(s)
<1>6. /\ p.end = s.end /\ p.ui = s.ui /\ p.stray = s.stray
      /\ p.state = s.state /\ p.peer = s.peer
  BY <1>4 DEF Session
<1> HIDE DEF p
<1>7. EndsInOrder(s) => EndsInOrder(p)
  BY <1>3, <1>5, <1>6 DEF EndsInOrder, p
<1>8. Head(s.tasks).kind # "close" \/ s.ui = "closed" => Follows(s, p)
  BY <1>3, <1>5, <1>6 DEF Follows, Shut, p
<1>9. QED
  BY <1>2, <1>5, <1>6, <1>7, <1>8 DEF p

-----------------------------------------------------------------------------
(* The network.                                                            *)

NetType ==
  /\ inbox \in [User -> Seq(Msg)]
  /\ invites \in [User -> Seq([from : User, room : Room])]
  /\ members \in [Room -> SUBSET User]

MsgKind == {"peers", "newPeer", "ring", "reject", "leave"}

\* What the server puts in the inboxes are messages.
LEMMA MessageType ==
  ASSUME NEW k \in MsgKind, NEW u \in User \cup {Nobody}, NEW r \in Room
  PROVE  <<Message(k, u, r)>> \in Seq(Msg)
<1>1. Message(k, u, r) \in Msg
  BY DEF Message, Msg, MsgKind
<1>2. QED
  BY <1>1

\* Delivering messages keeps inboxes inboxes.
LEMMA DeliverType ==
  ASSUME inbox \in [User -> Seq(Msg)], NEW out, out \in [User -> Seq(Msg)],
         Deliver(out)
  PROVE  inbox' \in [User -> Seq(Msg)]
<1>1. \A v \in User : inbox[v] \in Seq(Msg) /\ out[v] \in Seq(Msg)
  OBVIOUS
<1>2. \A v \in User : inbox[v] \o out[v] \in Seq(Msg)
  BY <1>1, ConcatProperties
<1>3. QED
  BY <1>1, <1>2 DEF Deliver

\* Relaying a message to a user.
LEMMA RelayType ==
  ASSUME NetType, NEW k \in MsgKind, NEW u \in User, NEW v \in User,
         NEW r \in Room, Relay(k, u, v, r)
  PROVE  NetType'
<1> DEFINE out == [Nothing EXCEPT ![v] = <<Message(k, u, r)>>]
<1>1. <<Message(k, u, r)>> \in Seq(Msg)
  BY MessageType
<1>2. <<>> \in Seq(Msg)
  OBVIOUS
<1>3. out \in [User -> Seq(Msg)]
  BY <1>1, <1>2 DEF Nothing
<1>4. Deliver(out) /\ UNCHANGED <<invites, members>>
  BY DEF Relay
<1> HIDE DEF out
<1>5. inbox' \in [User -> Seq(Msg)]
  BY <1>3, <1>4, DeliverType DEF NetType
<1>6. QED
  BY <1>4, <1>5 DEF NetType

\* Entering a room.
LEMMA EnterType ==
  ASSUME NetType, NEW u \in User, NEW r \in Room, ServerEnter(u, r)
  PROVE  NetType'
<1> DEFINE others == members[r] \ {u}
           out(w) == [v \in User |->
                        IF v = u THEN <<Message("peers", w, r)>>
                        ELSE IF v \in others THEN <<Message("newPeer", u, r)>>
                        ELSE <<>>]
<1>1. others \subseteq User
  BY DEF NetType
<1>2. PICK w \in IF others = {} THEN {Nobody} ELSE others : Deliver(out(w))
  BY DEF ServerEnter
<1>3. w \in User \cup {Nobody}
  BY <1>1, <1>2
<1>4. /\ <<Message("peers", w, r)>> \in Seq(Msg)
      /\ <<Message("newPeer", u, r)>> \in Seq(Msg)
  BY <1>3, MessageType DEF MsgKind
<1>5. out(w) \in [User -> Seq(Msg)]
  BY <1>4
<1>6. inbox' \in [User -> Seq(Msg)]
  <2> HIDE DEF out
  <2>1. QED
    BY <1>2, <1>5, DeliverType DEF NetType
<1>7. members' \in [Room -> SUBSET User]
  BY DEF ServerEnter, NetType
<1>8. QED
  BY <1>6, <1>7 DEF ServerEnter, NetType

\* Inviting a user.
LEMMA InviteType ==
  ASSUME NetType, NEW u \in User, NEW v \in User, NEW r \in Room,
         ServerInvite(u, v, r)
  PROVE  NetType'
<1>1. [from |-> u, room |-> r] \in [from : User, room : Room]
  OBVIOUS
<1>2. Append(invites[v], [from |-> u, room |-> r])
        \in Seq([from : User, room : Room])
  BY <1>1, AppendProperties DEF NetType
<1>3. QED
  BY <1>2 DEF ServerInvite, NetType

\* Leaving a room.
LEMMA LeaveType ==
  ASSUME NetType, NEW u \in User, NEW r \in Room, ServerLeave(u, r)
  PROVE  NetType'
<1> DEFINE out == [v \in User |-> IF v \in members[r] \ {u}
                                  THEN <<Message("leave", u, r)>> ELSE <<>>]
<1>1. <<Message("leave", u, r)>> \in Seq(Msg)
  BY MessageType DEF MsgKind
<1>2. out \in [User -> Seq(Msg)]
  BY <1>1
<1>3. Deliver(out)
  BY DEF ServerLeave
<1> HIDE DEF out
<1>4. inbox' \in [User -> Seq(Msg)]
  BY <1>2, <1>3, DeliverType DEF NetType
<1>5. QED
  BY <1>4 DEF ServerLeave, NetType

-----------------------------------------------------------------------------
(* The sessions.                                                           *)

PhoneType ==
  /\ alive \in [User -> BOOLEAN]
  /\ ring \in [User -> {"off", "incoming", "ringback"}]
  /\ died \in [User -> {NotDead} \cup Death]

SesInv ==
  /\ ses \in [User -> Seq(Session)]
  /\ main \in [User -> MainAt]
  /\ \A u \in User : \A i \in DOMAIN ses[u] : EndsInOrder(ses[u][i])
  /\ \A u \in User : HasSession(u) => ClosesOnTime(Current(u), Cur(u), main[u])
  /\ ReplacedIsOver

LEMMA IInvParts == IInv <=> PhoneType /\ NetType /\ SesInv
BY DEF IInv, TypeOK, PhoneType, NetType, SesInv

\* A present session that goes on closes on time.
LEMMA ClosesFollowing ==
  ASSUME NEW o, NEW s, NEW n, NEW m, ClosesOnTime(o, n, m), Follows(o, s)
  PROVE  ClosesOnTime(s, n, m)
BY DEF ClosesOnTime, Follows, Shut

\* Rewriting one session: what is over stays over, a replaced session gets no
\* screen, and the present one closes on time.
LEMMA SessionStepAt ==
  ASSUME SesInv, NEW u \in User, NEW i \in DOMAIN ses[u], NEW s \in Session,
         NEW m \in MainAt, EndsInOrder(s),
         ses[u][i].end # "no" => s.end # "no",
         i = Cur(u) \/ (HasScreen(s) => HasScreen(ses[u][i]) /\ Follows(ses[u][i], s)),
         HasSession(u) =>
           ClosesOnTime(IF i = Cur(u) THEN s ELSE Current(u), Cur(u), m),
         SetSession(u, i, s), main' = [main EXCEPT ![u] = m], alive' = alive
  PROVE  SesInv'
<1> DEFINE q == [ses[u] EXCEPT ![i] = s]
<1>1. ses[u] \in Seq(Session) /\ ses \in [User -> Seq(Session)]
  BY DEF SesInv
<1>2. /\ q \in Seq(Session) /\ Len(q) = Len(ses[u])
      /\ DOMAIN q = DOMAIN ses[u]
      /\ \A j \in DOMAIN q : q[j] = IF j = i THEN s ELSE ses[u][j]
  BY <1>1, ExceptSeq
<1>3. ses' = [ses EXCEPT ![u] = q]
  BY DEF SetSession
<1> HIDE DEF q
<1>4. /\ ses' \in [User -> Seq(Session)]
      /\ ses'[u] = q
      /\ \A v \in User \ {u} : ses'[v] = ses[v]
  BY <1>1, <1>2, <1>3
<1>5. ASSUME NEW v \in User, NEW j \in DOMAIN ses'[v]
      PROVE  EndsInOrder(ses'[v][j])
  <2>1. CASE v = u /\ j = i
    BY <1>2, <1>4, <2>1
  <2>2. CASE v = u /\ j # i
    BY <1>2, <1>4, <1>5, <2>2 DEF SesInv
  <2>3. CASE v # u
    BY <1>4, <1>5, <2>3 DEF SesInv
  <2>4. QED
    BY <2>1, <2>2, <2>3
<1>6. ASSUME NEW v \in User, NEW j \in DOMAIN ses'[v], j # Len(ses'[v])
      PROVE  /\ ses'[v][j].end # "no"
             /\ HasScreen(ses'[v][j]) =>
                  ses'[v][j].stray \/ HasTask(ses'[v][j].tasks, "close")
  <2>1. CASE v # u
    BY <1>4, <1>6, <2>1 DEF SesInv, ReplacedIsOver, Cur
  <2>2. CASE v = u /\ j # i
    BY <1>2, <1>4, <1>6, <2>2 DEF SesInv, ReplacedIsOver, Cur
  <2>3. CASE v = u /\ j = i
    <3>1. i # Cur(u) /\ ses'[v][j] = s
      BY <1>2, <1>4, <1>6, <2>3 DEF Cur
    <3>2. /\ ses[u][i].end # "no"
          /\ HasScreen(ses[u][i]) =>
               ses[u][i].stray \/ HasTask(ses[u][i].tasks, "close")
      BY <3>1 DEF SesInv, ReplacedIsOver
    <3>3. HasScreen(s) => s.stray \/ HasTask(s.tasks, "close")
      BY <3>1, <3>2 DEF Follows, Shut, HasScreen
    <3>4. QED
      BY <3>1, <3>2, <3>3
  <2>4. QED
    BY <2>1, <2>2, <2>3
<1>7. ASSUME NEW v \in User, HasSession(v)'
      PROVE  ClosesOnTime(Current(v), Cur(v), main[v])'
  <2>1. /\ main \in [User -> MainAt]
        /\ \A w \in User : main'[w] = IF w = u THEN m ELSE main[w]
    BY DEF SesInv
  <2>2. CASE v # u
    <3>1. HasSession(v) /\ ses'[v] = ses[v]
      BY <1>4, <1>7, <2>2 DEF HasSession
    <3>2. Current(v)' = Current(v) /\ Cur(v)' = Cur(v) /\ main'[v] = main[v]
      BY <2>1, <2>2, <3>1 DEF Current, Cur
    <3>3. ClosesOnTime(Current(v), Cur(v), main[v])
      BY <3>1 DEF SesInv
    <3>4. QED
      BY <3>2, <3>3 DEF ClosesOnTime
  <2>3. CASE v = u
    <3>1. /\ ses'[u] # <<>> /\ Len(q) \in Nat /\ Len(q) # 0
          /\ Len(q) \in DOMAIN q
      <4>1. q # <<>>
        BY <1>4, <1>7, <2>3 DEF HasSession
      <4>2. QED
        BY <1>2, <1>4, <4>1, SeqFacts
    <3>2. HasSession(u)
      BY <1>2, <1>7, <2>3, <3>1 DEF HasSession
    <3>3. Cur(u)' = Cur(u)
      BY <1>2, <1>4 DEF Cur
    <3>4. Current(u)' = IF i = Cur(u) THEN s ELSE Current(u)
      BY <1>2, <1>4, <3>1 DEF Cur, Current
    <3>5. QED
      BY <2>1, <2>3, <3>2, <3>3, <3>4 DEF ClosesOnTime
  <2>4. QED
    BY <2>2, <2>3
<1>8. main' \in [User -> MainAt]
  BY DEF SesInv
<1>9. QED
  BY <1>4, <1>5, <1>6, <1>7, <1>8 DEF SesInv, ReplacedIsOver, Cur

\* ... while the main thread stays where it is.
LEMMA SessionStep ==
  ASSUME SesInv, NEW u \in User, NEW i \in DOMAIN ses[u], NEW s \in Session,
         EndsInOrder(s), Follows(ses[u][i], s),
         i = Cur(u) \/ (HasScreen(s) => HasScreen(ses[u][i])),
         SetSession(u, i, s), UNCHANGED <<alive, main>>
  PROVE  SesInv'
<1>1. main[u] \in MainAt /\ main' = [main EXCEPT ![u] = main[u]]
  BY DEF SesInv
<1>2. ses[u][i].end # "no" => s.end # "no"
  BY DEF Follows
<1>3. ASSUME HasSession(u)
      PROVE  ClosesOnTime(IF i = Cur(u) THEN s ELSE Current(u), Cur(u), main[u])
  <2>1. ClosesOnTime(Current(u), Cur(u), main[u])
    BY <1>3 DEF SesInv
  <2>2. i = Cur(u) => ClosesOnTime(s, Cur(u), main[u])
    BY <2>1, ClosesFollowing DEF Current
  <2>3. QED
    BY <2>1, <2>2
<1>4. QED
  BY <1>1, <1>2, <1>3, SessionStepAt

\* Starting a session: the one it replaces is over.
LEMMA AppendStep ==
  ASSUME SesInv, NEW u \in User, NEW s \in Session, EndsInOrder(s),
         s.state # "Idle", alive[u], ~Busy(u), main[u].at = "loop",
         ses' = [ses EXCEPT ![u] = Append(@, s)], UNCHANGED <<alive, main>>
  PROVE  SesInv'
<1> DEFINE q == Append(ses[u], s)
<1>1. ses[u] \in Seq(Session) /\ ses \in [User -> Seq(Session)]
  BY DEF SesInv
<1>2. /\ q \in Seq(Session) /\ Len(q) = Len(ses[u]) + 1
      /\ \A j \in 1 .. Len(ses[u]) : q[j] = ses[u][j]
      /\ q[Len(ses[u]) + 1] = s
  BY <1>1, AppendProperties
<1>3. /\ DOMAIN ses[u] = 1 .. Len(ses[u]) /\ Len(ses[u]) \in Nat
      /\ DOMAIN q = 1 .. Len(q)
  BY <1>1, <1>2, LenProperties
<1>4. ses' = [ses EXCEPT ![u] = q]
  OBVIOUS
<1> HIDE DEF q
<1>5. /\ ses' \in [User -> Seq(Session)]
      /\ ses'[u] = q
      /\ \A v \in User \ {u} : ses'[v] = ses[v]
  BY <1>1, <1>2, <1>4
<1>6. ASSUME NEW v \in User, NEW j \in DOMAIN ses'[v]
      PROVE  EndsInOrder(ses'[v][j])
  <2>1. CASE v = u /\ j \in 1 .. Len(ses[u])
    BY <1>2, <1>3, <1>5, <2>1 DEF SesInv
  <2>2. CASE v = u /\ j = Len(ses[u]) + 1
    BY <1>2, <1>5, <2>2
  <2>3. CASE v # u
    BY <1>5, <1>6, <2>3 DEF SesInv
  <2>4. QED
    BY <1>2, <1>3, <1>5, <1>6, <2>1, <2>2, <2>3
<1>7. ASSUME NEW v \in User, NEW j \in DOMAIN ses'[v], j # Len(ses'[v])
      PROVE  /\ ses'[v][j].end # "no"
             /\ HasScreen(ses'[v][j]) =>
                  ses'[v][j].stray \/ HasTask(ses'[v][j].tasks, "close")
  <2>1. CASE v # u
    BY <1>5, <1>7, <2>1 DEF SesInv, ReplacedIsOver, Cur
  <2>2. CASE v = u
    <3>1. j \in 1 .. Len(ses[u]) /\ ses'[v][j] = ses[u][j]
      BY <1>2, <1>3, <1>5, <1>7, <2>2
    <3>2. CASE j # Cur(u)
      BY <1>3, <3>1, <3>2 DEF SesInv, ReplacedIsOver
    <3>3. CASE j = Cur(u)
      <4>1. ses[u] # <<>> /\ Current(u) = ses[u][j]
        BY <1>1, <1>3, <3>1, <3>3, EmptySeq DEF Current
      <4>2. Current(u).state = "Idle" /\ EndsInOrder(Current(u))
        BY <1>3, <3>1, <4>1 DEF Busy, SesInv
      <4>3. ClosesOnTime(Current(u), Cur(u), main[u])
        BY <4>1 DEF SesInv, HasSession
      <4>4. main[u] # [at |-> "finish", screen |-> Cur(u)]
        OBVIOUS
      <4>5. HasScreen(Current(u)) =>
              Current(u).stray \/ HasTask(Current(u).tasks, "close")
        BY <4>2, <4>3, <4>4 DEF ClosesOnTime, HasScreen
      <4>6. QED
        BY <3>1, <4>1, <4>2, <4>5 DEF EndsInOrder
    <3>4. QED
      BY <3>2, <3>3
  <2>3. QED
    BY <2>1, <2>2
<1>8. ASSUME NEW v \in User, HasSession(v)'
      PROVE  ClosesOnTime(Current(v), Cur(v), main[v])'
  <2>1. CASE v # u
    <3>1. HasSession(v) /\ ses'[v] = ses[v]
      BY <1>5, <1>8, <2>1 DEF HasSession
    <3>2. Current(v)' = Current(v) /\ Cur(v)' = Cur(v) /\ main'[v] = main[v]
      BY <3>1 DEF Current, Cur
    <3>3. ClosesOnTime(Current(v), Cur(v), main[v])
      BY <3>1 DEF SesInv
    <3>4. QED
      BY <3>2, <3>3 DEF ClosesOnTime
  <2>2. CASE v = u
    <3>1. Current(u)' = s
      BY <1>2, <1>5 DEF Current, Cur
    <3>2. main'[u].at = "loop"
      OBVIOUS
    <3>3. QED
      BY <2>2, <3>1, <3>2 DEF ClosesOnTime
  <2>3. QED
    BY <2>1, <2>2
<1>9. main' \in [User -> MainAt]
  BY DEF SesInv
<1>10. QED
  BY <1>5, <1>6, <1>7, <1>8, <1>9 DEF SesInv, ReplacedIsOver, Cur

\* A task takes itself off the queue of its session.
LEMMA TaskStep ==
  ASSUME SesInv, NEW u \in User, NEW i \in DOMAIN ses[u], NEW s \in Session,
         s.tasks # <<>>, Head(s.tasks).kind # "close" \/ s.ui = "closed",
         EndsInOrder(s), Follows(ses[u][i], s),
         HasScreen(s) => HasScreen(ses[u][i]),
         SetSession(u, i, Rest(s)), UNCHANGED <<alive, main>>
  PROVE  SesInv'
<1>1. /\ Rest(s) \in Session /\ EndsInOrder(Rest(s))
      /\ Follows(s, Rest(s)) /\ Rest(s).ui = s.ui
  BY RestType
<1>2. Follows(ses[u][i], Rest(s))
  BY <1>1, FollowsFurther
<1>3. HasScreen(Rest(s)) => HasScreen(ses[u][i])
  BY <1>1 DEF HasScreen
<1>4. QED
  BY <1>1, <1>2, <1>3, SessionStep

\* A process that dies loses its sessions and what was on its way to it.
LEMMA DieStep ==
  ASSUME IInv, NEW u \in User, NEW i \in DOMAIN ses[u],
         NEW k \in {"release", "peers", "newPeer"}, Die(u, i, k), main' = main
  PROVE  IInv'
<1>1. PhoneType /\ NetType /\ SesInv
  BY IInvParts
<1>2. ses[u][i] \in Session
  BY <1>1, SeqFacts DEF SesInv
<1>3. [task |-> k, stray |-> ses[u][i].stray, end |-> ses[u][i].end] \in Death
  BY <1>2 DEF Session, Death
<1>4. PhoneType'
  BY <1>1, <1>3 DEF PhoneType, Die
<1>5. NetType'
  <2>1. /\ <<>> \in Seq(Msg)
        /\ <<>> \in Seq([from : User, room : Room])
    OBVIOUS
  <2>2. QED
    BY <1>1, <2>1 DEF NetType, Die
<1>6. SesInv'
  <2>1. /\ ses \in [User -> Seq(Session)]
        /\ <<>> \in Seq(Session)
        /\ ses' = [ses EXCEPT ![u] = <<>>]
        /\ alive' = [alive EXCEPT ![u] = FALSE]
    BY <1>1 DEF SesInv, Die
  <2>2. /\ ses' \in [User -> Seq(Session)]
        /\ ses'[u] = <<>>
        /\ \A v \in User \ {u} : ses'[v] = ses[v] /\ alive'[v] = alive[v]
    BY <1>1, <2>1 DEF PhoneType
  <2>3. DOMAIN ses'[u] = {}
    BY <2>2
  <2>4. ASSUME NEW v \in User, HasSession(v)'
        PROVE  ClosesOnTime(Current(v), Cur(v), main[v])'
    <3>1. v # u /\ ses'[v] = ses[v] /\ alive'[v] = alive[v]
      BY <2>2, <2>4 DEF HasSession
    <3>2. HasSession(v) /\ Current(v)' = Current(v) /\ Cur(v)' = Cur(v)
      BY <2>4, <3>1 DEF HasSession, Current, Cur
    <3>3. ClosesOnTime(Current(v), Cur(v), main[v])
      BY <1>1, <3>2 DEF SesInv
    <3>4. QED
      BY <3>2, <3>3 DEF ClosesOnTime
  <2>5. ASSUME NEW v \in User, NEW j \in DOMAIN ses'[v]
        PROVE  EndsInOrder(ses'[v][j])
    BY <1>1, <2>2, <2>3, <2>5 DEF SesInv
  <2>6. ReplacedIsOver'
    BY <1>1, <2>2, <2>3 DEF SesInv, ReplacedIsOver, Cur
  <2>7. main' \in [User -> MainAt]
    BY <1>1 DEF SesInv
  <2>8. QED
    BY <2>2, <2>4, <2>5, <2>6, <2>7 DEF SesInv
<1>7. PhoneType' /\ NetType' /\ SesInv'
  BY <1>4, <1>5, <1>6
<1>8. QED
  BY <1>7 DEF IInv, TypeOK, PhoneType, NetType, SesInv

-----------------------------------------------------------------------------
(* The main thread.                                                        *)

\* startOutCall.
LEMMA DialStep ==
  ASSUME IInv, NEW u \in User, OnLooper(u, Dial(u))
  PROVE  IInv'
<1>1. PhoneType /\ NetType /\ SesInv
  BY IInvParts
<1>2. PICK n \in DOMAIN Plan[u] :
        ses' = [ses EXCEPT ![u] =
                  Append(@, NewSession(<<u, n>>, Plan[u][n], FALSE))]
  BY DEF OnLooper, Dial
<1>3. <<u, n>> \in Room /\ Plan[u][n] \in User
  BY ConstantsAssumption DEF ConstantsAssumption, Room
<1>4. /\ NewSession(<<u, n>>, Plan[u][n], FALSE) \in Session
      /\ EndsInOrder(NewSession(<<u, n>>, Plan[u][n], FALSE))
      /\ NewSession(<<u, n>>, Plan[u][n], FALSE).state # "Idle"
  BY <1>3, NewSessionType
<1>5. /\ alive[u] /\ ~Busy(u) /\ main[u].at = "loop"
      /\ UNCHANGED <<alive, ring, died>> /\ UNCHANGED net /\ main' = main
  BY DEF OnLooper, Dial
<1>6. SesInv'
  BY <1>1, <1>2, <1>4, <1>5, AppendStep
<1>7. PhoneType' /\ NetType'
  BY <1>1, <1>5 DEF PhoneType, NetType, net
<1>8. QED
  BY <1>6, <1>7 DEF IInv, TypeOK, PhoneType, NetType, SesInv

\* VoipReceiver.onReceive and startInCall.
LEMMA ReceiveInviteStep ==
  ASSUME IInv, NEW u \in User, OnLooper(u, ReceiveInvite(u))
  PROVE  IInv'
<1>1. PhoneType /\ NetType /\ SesInv
  BY IInvParts
<1> DEFINE inv == Head(invites[u])
<1>2. /\ inv \in [from : User, room : Room]
      /\ Tail(invites[u]) \in Seq([from : User, room : Room])
  BY <1>1, HeadTailProperties DEF NetType, OnLooper, ReceiveInvite
<1>3. /\ invites' = [invites EXCEPT ![u] = Tail(@)]
      /\ UNCHANGED members
      /\ alive[u] /\ main[u].at = "loop" /\ main' = main
  BY DEF OnLooper, ReceiveInvite
<1>4. /\ invites' \in [User -> Seq([from : User, room : Room])]
      /\ members' \in [Room -> SUBSET User]
  BY <1>1, <1>2, <1>3 DEF NetType
<1>5. CASE Busy(u)
  <2> DEFINE out == [Nothing EXCEPT ![inv.from] =
                       <<Message("reject", u, inv.room)>>]
  <2>1. /\ Deliver(out)
        /\ UNCHANGED phone
    BY <1>5 DEF OnLooper, ReceiveInvite
  <2>2. <<Message("reject", u, inv.room)>> \in Seq(Msg)
    BY <1>2, MessageType DEF MsgKind
  <2>3. out \in [User -> Seq(Msg)]
    <3>1. <<>> \in Seq(Msg)
      OBVIOUS
    <3> HIDE DEF inv
    <3>2. QED
      BY <2>2, <3>1 DEF Nothing
  <2> HIDE DEF out
  <2>4. inbox' \in [User -> Seq(Msg)]
    BY <1>1, <2>1, <2>3, DeliverType DEF NetType
  <2>5. PhoneType' /\ SesInv'
    BY <1>1, <1>3, <2>1 DEF PhoneType, SesInv, ReplacedIsOver, HasSession, Current,
                            Cur, phone
  <2>6. QED
    BY <1>4, <2>4, <2>5 DEF IInv, TypeOK, PhoneType, SesInv
<1>6. CASE ~Busy(u)
  <2> DEFINE b == \E i \in DOMAIN ses[u] : ses[u][i].room = inv.room
             s == NewSession(inv.room, inv.from, TRUE)
             t == [s EXCEPT !.stray = b]
  <2>1. /\ ses' = [ses EXCEPT ![u] = Append(@, t)]
        /\ ring' = [ring EXCEPT ![u] = "incoming"]
        /\ UNCHANGED <<alive, died, inbox>>
    BY <1>6 DEF OnLooper, ReceiveInvite
  <2>2. s \in Session /\ EndsInOrder(s) /\ s.state # "Idle"
    BY <1>2, NewSessionType
  <2>3. b \in BOOLEAN
    OBVIOUS
  <2> HIDE DEF s, b
  <2>4. t \in Session /\ EndsInOrder(t) /\ t.state # "Idle"
    BY <2>2, <2>3 DEF Session, EndsInOrder
  <2> HIDE DEF t
  <2>5. SesInv'
    BY <1>1, <1>3, <1>6, <2>1, <2>4, AppendStep
  <2>6. PhoneType' /\ NetType'
    BY <1>1, <1>4, <2>1 DEF PhoneType, NetType
  <2>7. QED
    BY <2>5, <2>6 DEF IInv, TypeOK, PhoneType, NetType, SesInv
<1>7. QED
  BY <1>5, <1>6

\* mCurrentCallSession is one of the sessions.
LEMMA CurrentType ==
  ASSUME SesInv, NEW u \in User, HasSession(u)
  PROVE  /\ Cur(u) \in DOMAIN ses[u]
         /\ Current(u) = ses[u][Cur(u)]
         /\ Current(u) \in Session
         /\ EndsInOrder(Current(u))
<1>1. ses[u] \in Seq(Session) /\ ses[u] # <<>>
  BY DEF SesInv, HasSession
<1>2. /\ Len(ses[u]) \in Nat /\ DOMAIN ses[u] = 1 .. Len(ses[u])
      /\ Len(ses[u]) # 0
  BY <1>1, LenProperties, EmptySeq
<1>3. Cur(u) \in DOMAIN ses[u]
  BY <1>2 DEF Cur
<1>4. QED
  BY <1>1, <1>2, <1>3 DEF SesInv, Current

\* One of the sessions of a phone.
LEMMA SessionType ==
  ASSUME SesInv, NEW u \in User, NEW i \in DOMAIN ses[u]
  PROVE  ses[u][i] \in Session /\ EndsInOrder(ses[u][i])
<1>1. ses[u] \in Seq(Session)
  BY DEF SesInv
<1>2. QED
  BY <1>1, SeqFacts DEF SesInv

\* The main thread rewrites the current session.
LEMMA CurrentStep ==
  ASSUME SesInv, NEW u \in User, HasSession(u), NEW s \in Session,
         EndsInOrder(s), Follows(Current(u), s),
         SetSession(u, Cur(u), s), UNCHANGED <<alive, main>>
  PROVE  SesInv'
BY CurrentType, SessionStep

\* The screen of an incoming call opens.
LEMMA OpenUiStep ==
  ASSUME IInv, NEW u \in User, OpenUi(u), main' = main
  PROVE  IInv'
<1>1. PhoneType /\ NetType /\ SesInv
  BY IInvParts
<1> DEFINE o == Current(u)
<1>2. HasSession(u) /\ o.ui = "none"
  BY DEF OpenUi
<1>3. o \in Session /\ EndsInOrder(o)
  BY <1>1, <1>2, CurrentType
<1>4. PICK ui \in {"open", "closed"} : SetSession(u, Cur(u), [o EXCEPT !.ui = ui])
  BY DEF OpenUi
<1>5. UNCHANGED <<alive, ring, died>> /\ UNCHANGED net
  BY DEF OpenUi
<1> DEFINE s == [o EXCEPT !.ui = ui]
<1> HIDE DEF o
<1>6. /\ s \in Session /\ s.ui = ui /\ s.tasks = o.tasks /\ s.end = o.end
      /\ s.stray = o.stray /\ s.state = o.state
  BY <1>3 DEF Session, Ui
<1> HIDE DEF s
<1>7. EndsInOrder(s) /\ Follows(o, s)
  BY <1>2, <1>3, <1>6 DEF EndsInOrder, Follows, Shut, o
<1>8. SesInv'
  BY <1>1, <1>2, <1>4, <1>5, <1>6, <1>7, CurrentStep DEF o, s
<1>9. PhoneType' /\ NetType'
  BY <1>1, <1>5 DEF PhoneType, NetType, net
<1>10. QED
  BY <1>8, <1>9 DEF IInv, TypeOK, PhoneType, NetType, SesInv

\* What a press of the accept button does to the current session, or to the
\* session of the screen.
LEMMA PressType ==
  ASSUME NEW s \in Session, EndsInOrder(s), s.clicks < MaxClicks,
         NEW b \in BOOLEAN
  PROVE  LET p == [Post(s, "join", Nobody) EXCEPT !.clicks = @ + 1,
                                                  !.stray  = @ \/ b]
             c == [s EXCEPT !.ui = "closed", !.clicks = @ + 1]
         IN /\ p \in Session /\ EndsInOrder(p) /\ Follows(s, p)
            /\ c \in Session /\ EndsInOrder(c) /\ Follows(s, c)
<1> DEFINE q == Post(s, "join", Nobody)
           p == [q EXCEPT !.clicks = @ + 1, !.stray = @ \/ b]
           c == [s EXCEPT !.ui = "closed", !.clicks = @ + 1]
<1>1. s.clicks + 1 \in 0 .. MaxClicks
  BY ConstantsAssumption DEF Session, ConstantsAssumption
<1>2. "join" \in TaskKind /\ Nobody \in User \cup {Nobody}
  BY DEF TaskKind
<1>3. /\ q \in Session /\ EndsInOrder(q) /\ Follows(s, q)
      /\ q = [s EXCEPT !.tasks = q.tasks]
  BY <1>2, PostType
<1> HIDE DEF q
<1>4. q.clicks = s.clicks
  BY <1>3 DEF Session
<1>5. (q.stray \/ b) \in BOOLEAN
  BY <1>3 DEF Session
<1>6. /\ p \in Session /\ p.tasks = q.tasks /\ p.end = q.end /\ p.ui = q.ui
      /\ p.state = q.state /\ p.peer = q.peer /\ p.stray = (q.stray \/ b)
  BY <1>1, <1>3, <1>4, <1>5 DEF Session
<1> HIDE DEF p
<1>7. EndsInOrder(p) /\ Follows(q, p)
  BY <1>3, <1>6 DEF EndsInOrder, Follows, Shut
<1>8. /\ c \in Session /\ c.tasks = s.tasks /\ c.end = s.end /\ c.ui = "closed"
      /\ c.state = s.state /\ c.peer = s.peer /\ c.stray = s.stray
  BY <1>1 DEF Session, Ui
<1> HIDE DEF c
<1>9. EndsInOrder(c) /\ Follows(s, c)
  BY <1>8 DEF EndsInOrder, Follows, Shut
<1>10. Follows(s, p)
  BY <1>3, <1>7, FollowsFurther
<1>11. QED
  BY <1>6, <1>7, <1>8, <1>9, <1>10 DEF p, c, q

\* The accept button.
LEMMA AcceptStep ==
  ASSUME IInv, NEW u \in User, NEW i \in DOMAIN ses[u], Accept(u, i),
         main' = main
  PROVE  IInv'
<1>1. PhoneType /\ NetType /\ SesInv
  BY IInvParts
<1>2. HasSession(u) /\ UNCHANGED <<alive, ring, died>> /\ UNCHANGED net
  BY DEF Accept, OnTop
<1>3. /\ Current(u) \in Session /\ EndsInOrder(Current(u))
      /\ ses[u][i] \in Session /\ EndsInOrder(ses[u][i])
  BY <1>1, <1>2, CurrentType, SessionType
<1>4. ASSUME Current(u).state = "Incoming" PROVE SesInv'
  <2> DEFINE b == i # Cur(u)
             p == [Post(Current(u), "join", Nobody) EXCEPT !.clicks = @ + 1,
                                                           !.stray  = @ \/ b]
  <2>1. SetSession(u, Cur(u), p) /\ Current(u).clicks < MaxClicks
    BY <1>4 DEF Accept
  <2>2. p \in Session /\ EndsInOrder(p) /\ Follows(Current(u), p)
    <3>1. b \in BOOLEAN
      OBVIOUS
    <3>2. QED
      BY <1>3, <2>1, <3>1, PressType
  <2> HIDE DEF p
  <2>3. QED
    BY <1>1, <1>2, <2>1, <2>2, CurrentStep
<1>5. ASSUME Current(u).state # "Incoming" PROVE SesInv'
  <2> DEFINE c == [ses[u][i] EXCEPT !.ui = "closed", !.clicks = @ + 1]
  <2>1. SetSession(u, i, c) /\ ses[u][i].clicks < MaxClicks
    BY <1>5 DEF Accept
  <2>2. c \in Session /\ EndsInOrder(c) /\ Follows(ses[u][i], c)
    BY <1>3, <2>1, PressType
  <2>3. ~HasScreen(c)
    BY <1>3 DEF HasScreen, Session
  <2> HIDE DEF c
  <2>4. QED
    BY <1>1, <1>2, <2>1, <2>2, <2>3, SessionStep
<1>6. SesInv'
  BY <1>4, <1>5
<1>7. PhoneType' /\ NetType'
  BY <1>1, <1>2 DEF PhoneType, NetType, net
<1>8. QED
  BY <1>6, <1>7 DEF IInv, TypeOK, PhoneType, NetType, SesInv

\* The screen shows a connected call.
LEMMA ShowConnectedStep ==
  ASSUME IInv, NEW u \in User, NEW i \in DOMAIN ses[u], ShowConnected(u, i),
         main' = main
  PROVE  IInv'
<1> DEFINE o == ses[u][i]
           s == [o EXCEPT !.ui = "shown"]
<1>1. PhoneType /\ NetType /\ SesInv
  BY IInvParts
<1>2. /\ o.ui = "open" /\ SetSession(u, i, s)
      /\ UNCHANGED <<alive, ring, died>> /\ UNCHANGED net
  BY DEF ShowConnected
<1>3. o \in Session /\ EndsInOrder(o)
  BY <1>1, SessionType
<1> HIDE DEF o
<1>4. /\ s \in Session /\ s.ui = "shown" /\ s.tasks = o.tasks /\ s.end = o.end
      /\ s.stray = o.stray /\ s.state = o.state
  BY <1>3 DEF Session, Ui
<1> HIDE DEF s
<1>5. EndsInOrder(s) /\ Follows(o, s) /\ HasScreen(o)
  BY <1>2, <1>3, <1>4 DEF EndsInOrder, Follows, Shut, HasScreen
<1>6. SesInv'
  BY <1>1, <1>2, <1>4, <1>5, SessionStep DEF o
<1>7. PhoneType' /\ NetType'
  BY <1>1, <1>2 DEF PhoneType, NetType, net
<1>8. QED
  BY <1>6, <1>7 DEF IInv, TypeOK, PhoneType, NetType, SesInv

\* endCall posts tasks, none of them a close.
LEMMA PostEachType ==
  ASSUME NEW s \in Session
  PROVE  /\ PostEach(s, EndTasks(s)) \in Session
         /\ PostEach(s, EndTasks(s)) = [s EXCEPT !.tasks =
              PostEach(s, EndTasks(s)).tasks]
         /\ HasTask(PostEach(s, EndTasks(s)).tasks, "close")
              <=> HasTask(s.tasks, "close")
<1> DEFINE ks == EndTasks(s)
           q  == [j \in DOMAIN ks |-> NewTask(ks[j], Nobody)]
           p  == s.tasks \o q
           ok == {k \in TaskKind : k # "close"}
<1>1. ks \in Seq(ok)
  <2>1. /\ <<"refuse">> \in Seq(ok)
        /\ <<"cancel">> \in Seq(ok)
        /\ <<"leave", "release">> \in Seq(ok)
    BY DEF TaskKind
  <2> HIDE DEF ok
  <2>2. QED
    BY <2>1 DEF EndTasks
<1>2. q \in Seq(Task) /\ ~HasTask(q, "close")
  <2> HIDE DEF ks, ok
  <2>1. /\ Len(ks) \in Nat /\ DOMAIN ks = 1 .. Len(ks)
        /\ \A j \in DOMAIN ks : ks[j] \in ok
    BY <1>1, LenProperties, ElementOfSeq
  <2>2. \A j \in DOMAIN ks : /\ NewTask(ks[j], Nobody) \in Task
                             /\ NewTask(ks[j], Nobody).kind # "close"
    BY <2>1 DEF NewTask, Task, TaskKind, ok
  <2>3. q \in Seq(Task)
    BY <2>1, <2>2
  <2>4. QED
    BY <2>2, <2>3 DEF HasTask
<1>3. PostEach(s, ks) = [s EXCEPT !.tasks = p]
  BY DEF PostEach
<1>4. p \in Seq(Task) /\ (HasTask(p, "close") <=> HasTask(s.tasks, "close"))
  <2>1. s.tasks \in Seq(Task)
    BY DEF Session
  <2> HIDE DEF q
  <2>2. QED
    BY <1>2, <2>1, ConcatProperties, HasTaskConcat
<1> HIDE DEF p, q, ks
<1>5. /\ [s EXCEPT !.tasks = p] \in Session
      /\ [s EXCEPT !.tasks = p].tasks = p
  BY <1>4 DEF Session
<1>6. QED
  BY <1>3, <1>4, <1>5 DEF ks

\* The hang-up button: the call is over, and endCall has yet to set Idle.
LEMMA HangUpStep ==
  ASSUME IInv, NEW u \in User, NEW i \in DOMAIN ses[u], HangUp(u, i)
  PROVE  IInv'
<1>1. PhoneType /\ NetType /\ SesInv
  BY IInvParts
<1>2. HasSession(u) /\ HasScreen(ses[u][i]) /\ main[u].at = "loop"
  BY DEF HangUp, OnTop
<1> DEFINE s == Current(u)
           p == PostEach(s, EndTasks(s))
           e == IF EndTasks(s) = <<"cancel">> THEN "cancelled" ELSE "hungUp"
           b == i # Cur(u)
           t == [p EXCEPT !.end = e, !.stray = @ \/ b]
           m == [at |-> "idle", screen |-> i]
<1>3. s \in Session /\ EndsInOrder(s) /\ s = ses[u][Cur(u)]
  BY <1>1, <1>2, CurrentType
<1>4. /\ SetSession(u, Cur(u), t)
      /\ ring' = [ring EXCEPT ![u] = "off"]
      /\ main' = [main EXCEPT ![u] = m]
      /\ UNCHANGED <<alive, died>> /\ UNCHANGED net
  BY DEF HangUp
<1>5. /\ p \in Session /\ p = [s EXCEPT !.tasks = p.tasks]
      /\ HasTask(p.tasks, "close") <=> HasTask(s.tasks, "close")
  BY <1>3, PostEachType
<1>6. e \in {"cancelled", "hungUp"} /\ b \in BOOLEAN
  OBVIOUS
<1>7. m \in MainAt
  <2>1. i \in Nat
    BY <1>1, SeqFacts DEF SesInv
  <2>2. QED
    BY <2>1 DEF MainAt
<1>8. ClosesOnTime(s, Cur(u), main[u])
  BY <1>1, <1>2 DEF SesInv
<1> HIDE DEF s, p, e
<1>9. /\ p.ui = s.ui /\ p.stray = s.stray /\ p.state = s.state /\ p.peer = s.peer
  BY <1>3, <1>5 DEF Session
<1>10. (p.stray \/ b) \in BOOLEAN /\ e \in End
  BY <1>5, <1>6 DEF Session, End
<1>11. /\ t \in Session /\ t.tasks = p.tasks /\ t.ui = s.ui /\ t.state = s.state
       /\ t.peer = s.peer /\ t.stray = (s.stray \/ b) /\ t.end = e
  BY <1>5, <1>9, <1>10 DEF Session
<1> HIDE DEF t
<1>12. EndsInOrder(t) /\ t.end # "no"
  BY <1>3, <1>5, <1>6, <1>11 DEF EndsInOrder
<1>13. ClosesOnTime(t, Cur(u), m)
  <2>1. i = Cur(u) => t.ui # "none"
    BY <1>2, <1>3, <1>11 DEF HasScreen
  <2>2. m.at = "idle" /\ m.screen = i
    OBVIOUS
  <2>3. t.stray \/ (t.ui # "none" /\ m.screen = Cur(u))
    BY <1>11, <2>1, <2>2
  <2>4. t.state = "Idle" /\ ~t.stray => s.state = "Idle" /\ ~s.stray
    BY <1>11
  <2> HIDE DEF m, b
  <2>5. t.state = "Idle" /\ ~t.stray => Shut(s)
    BY <1>2, <1>8, <2>4 DEF ClosesOnTime, Shut
  <2>6. QED
    BY <1>5, <1>11, <1>12, <2>3, <2>5 DEF ClosesOnTime, Shut
<1> HIDE DEF m
<1>14. SesInv'
  BY <1>1, <1>2, <1>4, <1>7, <1>11, <1>12, <1>13, CurrentType, SessionStepAt
<1>15. PhoneType' /\ NetType'
  BY <1>1, <1>4 DEF PhoneType, NetType, net
<1>16. QED
  BY <1>14, <1>15 DEF IInv, TypeOK, PhoneType, NetType, SesInv

\* ... it does, and the screen has yet to finish.
LEMMA HangUpIdleStep ==
  ASSUME IInv, NEW u \in User, HangUpIdle(u)
  PROVE  IInv'
<1>1. PhoneType /\ NetType /\ SesInv
  BY IInvParts
<1> DEFINE s == Current(u)
           t == [s EXCEPT !.state = "Idle"]
           m == [main[u] EXCEPT !.at = "finish"]
<1>2. /\ HasSession(u) /\ main[u].at = "idle"
      /\ SetSession(u, Cur(u), t)
      /\ main' = [main EXCEPT ![u] = m]
      /\ UNCHANGED <<alive, ring, died>> /\ UNCHANGED net
  BY DEF HangUpIdle
<1>3. s \in Session /\ EndsInOrder(s)
  BY <1>1, <1>2, CurrentType
<1>4. ClosesOnTime(s, Cur(u), main[u])
  BY <1>1, <1>2 DEF SesInv
<1>5. main[u] \in MainAt /\ m = [at |-> "finish", screen |-> main[u].screen]
  BY <1>1 DEF SesInv, MainAt
<1>6. m \in MainAt
  BY <1>5 DEF MainAt
<1> HIDE DEF s, m
<1>7. /\ t \in Session /\ t.tasks = s.tasks /\ t.ui = s.ui /\ t.state = "Idle"
      /\ t.peer = s.peer /\ t.stray = s.stray /\ t.end = s.end
  BY <1>3 DEF Session, State
<1> HIDE DEF t
<1>8. s.end # "no" /\ EndsInOrder(t) /\ t.end # "no"
  BY <1>2, <1>3, <1>4, <1>7 DEF ClosesOnTime, EndsInOrder
<1>9. ClosesOnTime(t, Cur(u), m)
  BY <1>2, <1>4, <1>5, <1>7 DEF ClosesOnTime
<1>10. SesInv'
  BY <1>1, <1>2, <1>6, <1>7, <1>8, <1>9, CurrentType, SessionStepAt
<1>11. PhoneType' /\ NetType'
  BY <1>1, <1>2 DEF PhoneType, NetType, net
<1>12. QED
  BY <1>10, <1>11 DEF IInv, TypeOK, PhoneType, NetType, SesInv

\* ... and it finishes.
LEMMA HangUpFinishStep ==
  ASSUME IInv, NEW u \in User, NEW i \in DOMAIN ses[u], HangUpFinish(u, i)
  PROVE  IInv'
<1>1. PhoneType /\ NetType /\ SesInv
  BY IInvParts
<1> DEFINE o == ses[u][i]
           t == [o EXCEPT !.ui = "closed"]
<1>2. /\ main[u] = [at |-> "finish", screen |-> i]
      /\ SetSession(u, i, t)
      /\ main' = [main EXCEPT ![u] = InLoop]
      /\ UNCHANGED <<alive, ring, died>> /\ UNCHANGED net
  BY DEF HangUpFinish
<1>3. o \in Session /\ EndsInOrder(o)
  BY <1>1, SessionType
<1>4. InLoop \in MainAt
  BY DEF InLoop, MainAt
<1> HIDE DEF o
<1>5. /\ t \in Session /\ t.tasks = o.tasks /\ t.ui = "closed"
      /\ t.state = o.state /\ t.peer = o.peer /\ t.end = o.end
  BY <1>3 DEF Session, Ui
<1> HIDE DEF t
<1>6. EndsInOrder(t) /\ (o.end # "no" => t.end # "no") /\ ~HasScreen(t)
  BY <1>3, <1>5 DEF EndsInOrder, HasScreen
<1>7. ASSUME HasSession(u)
      PROVE  ClosesOnTime(IF i = Cur(u) THEN t ELSE Current(u), Cur(u), InLoop)
  <2>1. ClosesOnTime(t, Cur(u), InLoop)
    BY <1>5 DEF ClosesOnTime, InLoop
  <2>2. ClosesOnTime(Current(u), Cur(u), main[u])
    BY <1>1, <1>7 DEF SesInv
  <2>3. i # Cur(u) => ClosesOnTime(Current(u), Cur(u), InLoop)
    BY <1>2, <2>2 DEF ClosesOnTime, InLoop
  <2>4. QED
    BY <2>1, <2>3
<1>8. SesInv'
  BY <1>1, <1>2, <1>4, <1>5, <1>6, <1>7, SessionStepAt DEF o
<1>9. PhoneType' /\ NetType'
  BY <1>1, <1>2 DEF PhoneType, NetType, net
<1>10. QED
  BY <1>8, <1>9 DEF IInv, TypeOK, PhoneType, NetType, SesInv

\* Taking a message out of the inbox.
LEMMA HandledType ==
  ASSUME PhoneType, ring' \in [User -> {"off", "incoming", "ringback"}],
         NetType, NEW u \in User, inbox[u] # <<>>, Handled(u)
  PROVE  PhoneType' /\ NetType' /\ Head(inbox[u]) \in Msg
<1>1. Head(inbox[u]) \in Msg /\ Tail(inbox[u]) \in Seq(Msg)
  BY HeadTailProperties DEF NetType
<1>2. PhoneType'
  BY DEF PhoneType, Handled
<1>3. NetType'
  BY <1>1 DEF NetType, Handled
<1>4. QED
  BY <1>1, <1>2, <1>3

\* A message of another call is only noted.
LEMMA TouchedType ==
  ASSUME SesInv, NEW u \in User, HasSession(u)
  PROVE  /\ Touched(u) \in Session /\ EndsInOrder(Touched(u))
         /\ Follows(Current(u), Touched(u))
<1> DEFINE s == Current(u)
           b == s.stray \/ Head(inbox[u]).room # s.room
<1>1. s \in Session /\ EndsInOrder(s)
  BY CurrentType
<1>2. b \in BOOLEAN
  BY <1>1 DEF Session
<1>3. Touched(u) = [s EXCEPT !.stray = b]
  BY DEF Touched
<1> HIDE DEF s, b
<1> DEFINE t == Touched(u)
<1>4. /\ t \in Session /\ t.tasks = s.tasks /\ t.ui = s.ui /\ t.state = s.state
      /\ t.peer = s.peer /\ t.end = s.end /\ t.stray = b
  BY <1>1, <1>2, <1>3 DEF Session
<1> HIDE DEF t
<1>5. EndsInOrder(t) /\ Follows(s, t)
  BY <1>1, <1>4 DEF EndsInOrder, Follows, Shut, b
<1>6. QED
  BY <1>4, <1>5 DEF s, t

\* onJoinHome and newPeer.
LEMMA HandlePostingStep ==
  ASSUME IInv, NEW u \in User, NEW k \in {"peers", "newPeer"},
         HandlePosting(u, k), main' = main
  PROVE  IInv'
<1>1. PhoneType /\ NetType /\ SesInv
  BY IInvParts
<1>2. /\ HasSession(u) /\ inbox[u] # <<>> /\ Handled(u) /\ ring' = ring
      /\ alive' = alive
  BY DEF HandlePosting, Receives, Handled
<1>3. PhoneType' /\ NetType' /\ Head(inbox[u]) \in Msg
  BY <1>1, <1>2, HandledType DEF PhoneType
<1>4. /\ Touched(u) \in Session /\ EndsInOrder(Touched(u))
      /\ Follows(Current(u), Touched(u))
  BY <1>1, <1>2, TouchedType
<1> DEFINE v == Head(inbox[u]).from
           t == Post(Touched(u), k, v)
<1>5. v \in User \cup {Nobody} /\ k \in TaskKind /\ k \notin {"release", "close"}
  BY <1>3 DEF Msg, TaskKind
<1>6. SetSession(u, Cur(u), t)
  BY DEF HandlePosting
<1> HIDE DEF v
<1>7. t \in Session /\ EndsInOrder(t) /\ Follows(Current(u), t)
  BY <1>4, <1>5, PostType, FollowsFurther
<1> HIDE DEF t
<1>8. SesInv'
  BY <1>1, <1>2, <1>6, <1>7, CurrentStep
<1>9. QED
  BY <1>3, <1>8 DEF IInv, TypeOK, PhoneType, NetType, SesInv

\* onRing.
LEMMA OnRingStep ==
  ASSUME IInv, NEW u \in User, OnRing(u), main' = main
  PROVE  IInv'
<1>1. PhoneType /\ NetType /\ SesInv
  BY IInvParts
<1>2. /\ HasSession(u) /\ inbox[u] # <<>> /\ Handled(u)
      /\ ring' = [ring EXCEPT ![u] = "ringback"] /\ alive' = alive
      /\ SetSession(u, Cur(u), Touched(u))
  BY DEF OnRing, Receives, Handled
<1>3. ring' \in [User -> {"off", "incoming", "ringback"}]
  BY <1>1, <1>2 DEF PhoneType
<1>4. PhoneType' /\ NetType'
  BY <1>1, <1>2, <1>3, HandledType
<1>5. SesInv'
  BY <1>1, <1>2, TouchedType, CurrentStep
<1>6. QED
  BY <1>4, <1>5 DEF IInv, TypeOK, PhoneType, NetType, SesInv

\* onRefuse and onLeave: the release is posted for a call that is over.
LEMMA HandleEndingStep ==
  ASSUME IInv, NEW u \in User, NEW k, HandleEnding(u, k), main' = main
  PROVE  IInv'
<1>1. PhoneType /\ NetType /\ SesInv
  BY IInvParts
<1>2. /\ HasSession(u) /\ inbox[u] # <<>> /\ Handled(u) /\ ring' = ring
      /\ alive' = alive
  BY DEF HandleEnding, Receives, Handled
<1>3. PhoneType' /\ NetType'
  BY <1>1, <1>2, HandledType DEF PhoneType
<1>4. /\ Touched(u) \in Session /\ EndsInOrder(Touched(u))
      /\ Follows(Current(u), Touched(u))
  BY <1>1, <1>2, TouchedType
<1> DEFINE s == Touched(u)
           p == Post(s, "release", Nobody)
           e == IF p.end = "no" THEN "over" ELSE p.end
           t == [p EXCEPT !.end = IF @ = "no" THEN "over" ELSE @]
<1>5. SetSession(u, Cur(u), t)
  BY DEF HandleEnding
<1>6. "release" \in TaskKind /\ Nobody \in User \cup {Nobody}
  BY DEF TaskKind
<1>7. /\ p \in Session /\ Follows(s, p)
      /\ HasTask(p.tasks, "close") <=> HasTask(s.tasks, "close")
      /\ p.ui = s.ui /\ p.peer = s.peer
  <2> HIDE DEF s
  <2>1. p \in Session /\ p = [s EXCEPT !.tasks = p.tasks]
    BY <1>4, <1>6, PostType DEF s
  <2>2. p.ui = s.ui /\ p.peer = s.peer
    <3> HIDE DEF p
    <3>1. QED
      BY <1>4, <2>1 DEF Session, s
  <2>3. QED
    BY <1>4, <1>6, <2>1, <2>2, PostType DEF s
<1> HIDE DEF s, p
<1>8. e \in End /\ e # "no" /\ t = [p EXCEPT !.end = e]
  BY <1>7 DEF End, Session
<1> HIDE DEF t, e
<1>9. /\ t \in Session /\ t.tasks = p.tasks /\ t.ui = p.ui /\ t.state = p.state
      /\ t.peer = p.peer /\ t.end = e /\ t.stray = p.stray
  BY <1>7, <1>8 DEF Session
<1>10. EndsInOrder(t) /\ Follows(p, t)
  BY <1>4, <1>7, <1>8, <1>9 DEF EndsInOrder, Follows, Shut, s
<1>11. Follows(Current(u), t)
  BY <1>4, <1>7, <1>10, FollowsFurther DEF s
<1>12. SesInv'
  BY <1>1, <1>2, <1>5, <1>9, <1>10, <1>11, CurrentStep
<1>13. QED
  BY <1>3, <1>12 DEF IInv, TypeOK, PhoneType, NetType, SesInv

-----------------------------------------------------------------------------
(* The executors.                                                          *)

\* The session of a task, and the task.
LEMMA RunningType ==
  ASSUME SesInv, NEW u \in User, NEW i \in DOMAIN ses[u], NEW k,
         Running(u, i, k)
  PROVE  /\ ses[u][i] \in Session /\ EndsInOrder(ses[u][i])
         /\ ses[u][i].tasks # <<>>
         /\ Head(ses[u][i].tasks) \in Task /\ Head(ses[u][i].tasks).kind = k
         /\ HasTask(ses[u][i].tasks, k)
<1> DEFINE s == ses[u][i]
<1>1. s \in Session /\ EndsInOrder(s)
  BY SessionType
<1>2. s.tasks # <<>> /\ Head(s.tasks).kind = k
  BY DEF Running
<1> HIDE DEF s
<1>3. s.tasks \in Seq(Task)
  BY <1>1 DEF Session
<1>4. Head(s.tasks) \in Task
  BY <1>2, <1>3, HeadTailProperties
<1>5. HasTask(s.tasks, k)
  BY <1>2, <1>3, HasTaskTail
<1>6. QED
  BY <1>1, <1>2, <1>4, <1>5 DEF s

\* A task that is done with the phone leaves its session in order.
LEMMA DoneStep ==
  ASSUME IInv, NEW u \in User, NEW i \in DOMAIN ses[u], NEW s \in Session,
         s.tasks # <<>>, Head(s.tasks).kind # "close" \/ s.ui = "closed",
         EndsInOrder(s), Follows(ses[u][i], s),
         HasScreen(s) => HasScreen(ses[u][i]),
         Done(u, i, s), NetType', main' = main
  PROVE  IInv'
<1>1. PhoneType /\ SesInv
  BY IInvParts
<1>2. SetSession(u, i, Rest(s)) /\ UNCHANGED <<alive, ring, died>>
  BY DEF Done
<1>3. SesInv'
  BY <1>1, <1>2, TaskStep
<1>4. PhoneType'
  BY <1>1, <1>2 DEF PhoneType
<1>5. QED
  BY <1>3, <1>4 DEF IInv, TypeOK, PhoneType, NetType, SesInv

\* A call is connected.
LEMMA ConnectStep ==
  ASSUME IInv, NEW u \in User, NEW i \in DOMAIN ses[u], NEW s \in Session,
         s.tasks # <<>>, Head(s.tasks).kind # "close" \/ s.ui = "closed",
         EndsInOrder(s), Follows(ses[u][i], s),
         HasScreen(s) => HasScreen(ses[u][i]),
         Connect(u, i, s), main' = main
  PROVE  IInv'
<1>1. PhoneType /\ NetType /\ SesInv
  BY IInvParts
<1> DEFINE t == [s EXCEPT !.state = "Connected"]
<1>2. /\ SetSession(u, i, Rest(t))
      /\ ring' = [ring EXCEPT ![u] = "off"]
      /\ UNCHANGED <<alive, died>> /\ UNCHANGED net
  BY DEF Connect
<1>3. /\ t \in Session /\ t.tasks = s.tasks /\ t.end = s.end /\ t.ui = s.ui
      /\ t.peer = s.peer /\ t.stray = s.stray /\ t.state = "Connected"
  BY DEF Session, State
<1> HIDE DEF t
<1>4. /\ EndsInOrder(t) /\ Follows(s, t)
      /\ HasScreen(t) => HasScreen(ses[u][i])
  BY <1>3 DEF EndsInOrder, Follows, Shut, HasScreen
<1>5. Follows(ses[u][i], t)
  BY <1>4, FollowsFurther
<1>6. SesInv'
  BY <1>1, <1>2, <1>3, <1>4, <1>5, TaskStep
<1>7. PhoneType' /\ NetType'
  BY <1>1, <1>2 DEF PhoneType, NetType, net
<1>8. QED
  BY <1>6, <1>7 DEF IInv, TypeOK, PhoneType, NetType, SesInv

\* The tasks that only talk to the server, and the one that joins.
LEMMA TalkingStep ==
  ASSUME IInv, NEW u \in User, NEW i \in DOMAIN ses[u],
         \/ TaskCreate(u, i) \/ TaskRingBack(u, i) \/ TaskJoin(u, i)
         \/ TaskRefuse(u, i) \/ TaskCancel(u, i) \/ TaskLeave(u, i),
         main' = main
  PROVE  IInv'
<1> DEFINE s == ses[u][i]
<1>1. PhoneType /\ NetType /\ SesInv
  BY IInvParts
<1>2. /\ s \in Session /\ EndsInOrder(s) /\ s.tasks # <<>>
      /\ Head(s.tasks).kind # "close" /\ Follows(s, s)
  BY <1>1, RunningType DEF TaskCreate, TaskRingBack, TaskJoin, TaskRefuse,
                           TaskCancel, TaskLeave, Follows
<1>3. s.room \in Room /\ s.target \in User
  BY <1>2 DEF Session
<1>4. "ring" \in MsgKind /\ "reject" \in MsgKind
  BY DEF MsgKind
<1>5. CASE TaskCreate(u, i)
  <2>1. ServerEnter(u, s.room) /\ Done(u, i, s)
    BY <1>5 DEF TaskCreate
  <2>2. NetType'
    BY <1>1, <1>3, <2>1, EnterType
  <2>3. QED
    BY <1>2, <2>1, <2>2, DoneStep
<1>6. CASE TaskRingBack(u, i)
  <2>1. Relay("ring", u, s.target, s.room) /\ Done(u, i, s)
    BY <1>6 DEF TaskRingBack
  <2>2. NetType'
    BY <1>1, <1>3, <1>4, <2>1, RelayType
  <2>3. QED
    BY <1>2, <2>1, <2>2, DoneStep
<1>7. CASE TaskJoin(u, i)
  <2> DEFINE t == [s EXCEPT !.state = "Connecting"]
  <2>1. ServerEnter(u, s.room) /\ Done(u, i, t)
    BY <1>7 DEF TaskJoin
  <2>2. NetType'
    BY <1>1, <1>3, <2>1, EnterType
  <2>3. /\ t \in Session /\ EndsInOrder(t) /\ t.tasks = s.tasks
        /\ Follows(s, t) /\ (HasScreen(t) => HasScreen(s))
    <3> HIDE DEF s
    <3>1. /\ t \in Session /\ t.tasks = s.tasks /\ t.end = s.end /\ t.ui = s.ui
          /\ t.peer = s.peer /\ t.stray = s.stray /\ t.state = "Connecting"
      BY <1>2 DEF Session, State
    <3> HIDE DEF t
    <3>2. QED
      BY <1>2, <3>1 DEF EndsInOrder, Follows, Shut, HasScreen
  <2> HIDE DEF t
  <2>4. QED
    BY <1>2, <2>1, <2>2, <2>3, DoneStep
<1>8. CASE TaskRefuse(u, i)
  <2>1. Relay("reject", u, s.target, s.room) /\ Done(u, i, s)
    BY <1>8 DEF TaskRefuse
  <2>2. NetType'
    BY <1>1, <1>3, <1>4, <2>1, RelayType
  <2>3. QED
    BY <1>2, <2>1, <2>2, DoneStep
<1>9. CASE TaskCancel(u, i)
  <2>1. Done(u, i, s) /\ UNCHANGED net
    BY <1>9 DEF TaskCancel
  <2>2. NetType'
    BY <1>1, <2>1 DEF NetType, net
  <2>3. QED
    BY <1>2, <2>1, <2>2, DoneStep
<1>10. CASE TaskLeave(u, i)
  <2>1. ServerLeave(u, s.room) /\ Done(u, i, s)
    BY <1>10 DEF TaskLeave
  <2>2. NetType'
    BY <1>1, <1>3, <2>1, LeaveType
  <2>3. QED
    BY <1>2, <2>1, <2>2, DoneStep
<1>11. QED
  BY <1>5, <1>6, <1>7, <1>8, <1>9, <1>10

\* release, until the state is Idle: its call is over, a session with a Peer
\* has had a screen, and the screen is going to be closed.
LEMMA ReleaseStep ==
  ASSUME IInv, NEW u \in User, NEW i \in DOMAIN ses[u], TaskRelease(u, i),
         main' = main
  PROVE  IInv'
<1> DEFINE s == ses[u][i]
           q == <<NewTask("close", Nobody)>> \o Tail(s.tasks)
           t == [s EXCEPT !.local = "disposed", !.remote = "disposed",
                          !.peer = "closed", !.factory = FALSE,
                          !.state = "Idle", !.tasks = q]
<1>1. PhoneType /\ NetType /\ SesInv
  BY IInvParts
<1>2. Running(u, i, "release")
  BY DEF TaskRelease
<1>3. /\ s \in Session /\ EndsInOrder(s) /\ s.tasks # <<>>
      /\ HasTask(s.tasks, "release")
  BY <1>1, <1>2, RunningType
<1>4. CASE s.local = "live" /\ s.remote = "live" /\ s.peer # "none"
  <2>1. /\ SetSession(u, i, t)
        /\ UNCHANGED <<alive, ring, died>> /\ UNCHANGED net
    BY <1>4 DEF TaskRelease
  <2>2. q \in Seq(Task) /\ HasTask(q, "close")
    <3>1. Tail(s.tasks) \in Seq(Task)
      BY <1>3, SeqFacts DEF Session
    <3>2. NewTask("close", Nobody) \in Task
      BY DEF NewTask, Task
    <3>3. <<NewTask("close", Nobody)>> \in Seq(Task)
      BY <3>2
    <3>4. HasTask(<<NewTask("close", Nobody)>>, "close")
      BY DEF HasTask, NewTask
    <3> HIDE DEF s
    <3>5. QED
      BY <3>1, <3>3, <3>4, HasTaskConcat, ConcatProperties
  <2> HIDE DEF s, q
  <2>3. /\ t \in Session /\ t.tasks = q /\ t.end = s.end /\ t.ui = s.ui
        /\ t.stray = s.stray /\ t.state = "Idle"
    <3>1. s \in Session /\ "Idle" \in State /\ q \in Seq(Task)
      BY <1>3, <2>2 DEF State
    <3>2. QED
      BY ONLY <3>1 DEF Session
  <2> HIDE DEF t
  <2>4. EndsInOrder(t) /\ Follows(s, t) /\ (HasScreen(t) => HasScreen(s))
    BY <1>3, <1>4, <2>2, <2>3 DEF EndsInOrder, Follows, Shut, HasScreen
  <2>5. SesInv'
    BY <1>1, <2>1, <2>3, <2>4, SessionStep DEF s, t
  <2>6. PhoneType' /\ NetType'
    BY <1>1, <2>1 DEF PhoneType, NetType, net
  <2>7. QED
    BY <2>5, <2>6 DEF IInv, TypeOK, PhoneType, NetType, SesInv
<1>5. CASE ~(s.local = "live" /\ s.remote = "live" /\ s.peer # "none")
  <2>1. Die(u, i, "release")
    BY <1>5 DEF TaskRelease
  <2>2. QED
    BY <2>1, DieStep
<1>6. QED
  BY <1>4, <1>5

\* ... the rest of release closes it.
LEMMA CloseStep ==
  ASSUME IInv, NEW u \in User, NEW i \in DOMAIN ses[u], TaskClose(u, i),
         main' = main
  PROVE  IInv'
<1> DEFINE s == ses[u][i]
           e == IF HasScreen(s) THEN "closed" ELSE s.ui
           t == [s EXCEPT !.ui = IF HasScreen(s) THEN "closed" ELSE @]
<1>1. PhoneType /\ NetType /\ SesInv
  BY IInvParts
<1>2. Running(u, i, "close") /\ Done(u, i, t) /\ UNCHANGED net
  BY DEF TaskClose
<1>3. /\ s \in Session /\ EndsInOrder(s) /\ s.tasks # <<>>
      /\ HasTask(s.tasks, "close")
  BY <1>1, <1>2, RunningType
<1> HIDE DEF s
<1>4. e = "closed"
  BY <1>3 DEF EndsInOrder, HasScreen, Session, Ui
<1>5. t = [s EXCEPT !.ui = "closed"]
  BY <1>4
<1> HIDE DEF t, e
<1>6. /\ t \in Session /\ t.tasks = s.tasks /\ t.end = s.end /\ t.ui = "closed"
      /\ t.peer = s.peer /\ t.stray = s.stray /\ t.state = s.state
  BY <1>3, <1>5 DEF Session, Ui
<1>7. EndsInOrder(t) /\ Follows(s, t) /\ ~HasScreen(t)
  BY <1>3, <1>6 DEF EndsInOrder, Follows, Shut, HasScreen
<1>8. NetType'
  BY <1>1, <1>2 DEF NetType, net
<1>9. QED
  BY <1>2, <1>3, <1>6, <1>7, <1>8, DoneStep DEF s

\* onJoinHome: a Peer is only made while there is a screen.
LEMMA PeersStep ==
  ASSUME IInv, NEW u \in User, NEW i \in DOMAIN ses[u], TaskPeers(u, i),
         main' = main
  PROVE  IInv'
<1> DEFINE o == ses[u][i]
           who == Head(o.tasks).who
           s == [o EXCEPT !.target = IF who = Nobody THEN @ ELSE who,
                          !.factory = TRUE,
                          !.local = IF @ = "none" THEN "live" ELSE @]
           t == [s EXCEPT !.peer = "open"]
<1>1. PhoneType /\ NetType /\ SesInv
  BY IInvParts
<1>2. Running(u, i, "peers")
  BY DEF TaskPeers
<1>3. /\ o \in Session /\ EndsInOrder(o) /\ o.tasks # <<>>
      /\ Head(o.tasks) \in Task /\ Head(o.tasks).kind # "close"
  BY <1>1, <1>2, RunningType
<1>4. IF ~s.coming
      THEN ServerInvite(u, s.target, s.room) /\ Done(u, i, s)
      ELSE IF s.local = "disposed" \/ s.ui = "none"
      THEN Die(u, i, "peers")
      ELSE Connect(u, i, t)
  BY DEF TaskPeers
<1>5. who \in User \cup {Nobody}
  BY <1>3 DEF Task
<1> HIDE DEF o, who
<1>6. /\ s \in Session /\ EndsInOrder(s) /\ s.tasks = o.tasks
      /\ Follows(o, s) /\ (HasScreen(s) => HasScreen(o))
  <2>1. (IF who = Nobody THEN o.target ELSE who) \in User
    BY <1>3, <1>5 DEF Session
  <2>2. s \in Session
    BY <1>3, <2>1 DEF Session
  <2>3. /\ s.tasks = o.tasks /\ s.end = o.end /\ s.ui = o.ui
        /\ s.state = o.state /\ s.peer = o.peer /\ s.stray = o.stray
    BY <1>3 DEF Session
  <2> HIDE DEF s
  <2>4. QED
    BY <1>3, <2>2, <2>3 DEF EndsInOrder, Follows, Shut, HasScreen
<1> HIDE DEF s
<1>7. CASE ~s.coming
  <2>1. s.target \in User /\ s.room \in Room
    BY <1>6 DEF Session
  <2>2. NetType'
    BY <1>1, <1>4, <1>7, <2>1, InviteType
  <2>3. QED
    BY <1>3, <1>4, <1>6, <1>7, <2>2, DoneStep DEF o
<1>8. CASE s.coming /\ (s.local = "disposed" \/ s.ui = "none")
  BY <1>4, <1>8, DieStep
<1>9. CASE s.coming /\ ~(s.local = "disposed" \/ s.ui = "none")
  <2>1. Connect(u, i, t)
    BY <1>4, <1>9
  <2>2. /\ t \in Session /\ t.tasks = s.tasks /\ t.end = s.end /\ t.ui = s.ui
        /\ t.state = s.state /\ t.stray = s.stray
    BY <1>6 DEF Session
  <2> HIDE DEF t
  <2>3. EndsInOrder(t) /\ Follows(s, t) /\ (HasScreen(t) => HasScreen(o))
    BY <1>6, <1>9, <2>2 DEF EndsInOrder, Follows, Shut, HasScreen
  <2>4. Follows(o, t)
    BY <1>6, <2>3, FollowsFurther
  <2>5. QED
    BY <1>3, <1>6, <2>1, <2>2, <2>3, <2>4, ConnectStep DEF o
<1>10. QED
  BY <1>7, <1>8, <1>9

\* newPeer: a Peer is only made while there is a screen.
LEMMA NewPeerStep ==
  ASSUME IInv, NEW u \in User, NEW i \in DOMAIN ses[u], TaskNewPeer(u, i),
         main' = main
  PROVE  IInv'
<1> DEFINE s == ses[u][i]
           t == [s EXCEPT !.local = IF @ = "none" THEN "live" ELSE @,
                          !.peer  = IF s.factory THEN "open" ELSE @]
<1>1. PhoneType /\ NetType /\ SesInv
  BY IInvParts
<1>2. Running(u, i, "newPeer")
  BY DEF TaskNewPeer
<1>3. /\ s \in Session /\ EndsInOrder(s) /\ s.tasks # <<>>
      /\ Head(s.tasks).kind # "close"
  BY <1>1, <1>2, RunningType
<1>4. CASE (s.local = "none" /\ ~s.factory) \/ s.ui = "none"
  <2>1. Die(u, i, "newPeer")
    BY <1>4 DEF TaskNewPeer
  <2>2. QED
    BY <2>1, DieStep
<1>5. CASE ~((s.local = "none" /\ ~s.factory) \/ s.ui = "none")
  <2>1. Connect(u, i, t)
    BY <1>5 DEF TaskNewPeer
  <2>2. /\ t \in Session /\ EndsInOrder(t) /\ t.tasks = s.tasks
        /\ Follows(s, t) /\ (HasScreen(t) => HasScreen(s))
    <3> HIDE DEF s
    <3>1. t \in Session
      BY <1>3 DEF Session
    <3>2. /\ t.tasks = s.tasks /\ t.end = s.end /\ t.ui = s.ui
          /\ t.state = s.state /\ t.stray = s.stray
      BY <1>3 DEF Session
    <3> HIDE DEF t
    <3>3. QED
      BY <1>3, <1>5, <3>1, <3>2 DEF EndsInOrder, Follows, Shut, HasScreen
  <2> HIDE DEF t
  <2>3. QED
    BY <1>3, <2>1, <2>2, ConnectStep
<1>6. QED
  BY <1>4, <1>5

\* Peer.onAddStream.
LEMMA RemoteStreamStep ==
  ASSUME IInv, NEW u \in User, NEW i \in DOMAIN ses[u], RemoteStream(u, i),
         main' = main
  PROVE  IInv'
<1> DEFINE s == ses[u][i]
           t == [s EXCEPT !.remote = "live"]
<1>1. PhoneType /\ NetType /\ SesInv
  BY IInvParts
<1>2. s \in Session /\ EndsInOrder(s)
  BY <1>1, SessionType
<1>3. /\ SetSession(u, i, t)
      /\ UNCHANGED <<alive, ring, died>> /\ UNCHANGED net
  BY DEF RemoteStream
<1>4. /\ t \in Session /\ EndsInOrder(t)
      /\ Follows(s, t) /\ (HasScreen(t) => HasScreen(s))
  <2> HIDE DEF s
  <2>1. /\ t \in Session /\ t.tasks = s.tasks /\ t.end = s.end /\ t.ui = s.ui
        /\ t.peer = s.peer /\ t.stray = s.stray /\ t.state = s.state
    BY <1>2 DEF Session
  <2> HIDE DEF t
  <2>2. QED
    BY <1>2, <2>1 DEF EndsInOrder, Follows, Shut, HasScreen
<1> HIDE DEF t
<1>5. SesInv'
  BY <1>1, <1>3, <1>4, SessionStep
<1>6. PhoneType' /\ NetType'
  BY <1>1, <1>3 DEF PhoneType, NetType, net
<1>7. QED
  BY <1>5, <1>6 DEF IInv, TypeOK, PhoneType, NetType, SesInv

-----------------------------------------------------------------------------
(* The theorems.                                                           *)

\* The invariant holds at first.
LEMMA InitInv == Init => IInv
<1> SUFFICES ASSUME Init PROVE IInv
  OBVIOUS
<1>1. PhoneType
  BY DEF Init, PhoneType
<1>2. NetType
  <2>1. /\ <<>> \in Seq(Msg)
        /\ <<>> \in Seq([from : User, room : Room])
    OBVIOUS
  <2>2. QED
    BY <2>1 DEF Init, NetType
<1>3. SesInv
  <2>1. <<>> \in Seq(Session)
    OBVIOUS
  <2>2. \A u \in User : DOMAIN ses[u] = {}
    BY DEF Init
  <2>3. InLoop \in MainAt
    BY DEF InLoop, MainAt
  <2>4. QED
    BY <2>1, <2>2, <2>3 DEF Init, SesInv, ReplacedIsOver, HasSession
<1>4. QED
  BY <1>1, <1>2, <1>3, IInvParts

\* Every step of every thread keeps it.
LEMMA NextInv == IInv /\ [Next]_vars => IInv'
<1> SUFFICES ASSUME IInv, [Next]_vars PROVE IInv'
  OBVIOUS
<1>1. CASE UNCHANGED vars
  BY <1>1 DEF vars, IInv, TypeOK, ReplacedIsOver, HasSession, Current, Cur,
              ClosesOnTime
<1>2. ASSUME NEW u \in User, OnLooper(u, Looper(u)) PROVE IInv'
  <2>1. main' = main
    BY <1>2 DEF OnLooper
  <2>2. CASE Dial(u)
    BY <1>2, <2>2, DialStep DEF OnLooper
  <2>3. CASE ReceiveInvite(u)
    BY <1>2, <2>3, ReceiveInviteStep DEF OnLooper
  <2>4. CASE OpenUi(u)
    BY <2>1, <2>4, OpenUiStep
  <2>5. CASE \E i \in DOMAIN ses[u] : Accept(u, i) \/ ShowConnected(u, i)
    BY <2>1, <2>5, AcceptStep, ShowConnectedStep
  <2>6. CASE Handle(u)
    <3>1. CASE OnPeers(u)
      BY <2>1, <3>1, HandlePostingStep DEF OnPeers
    <3>2. CASE OnNewPeer(u)
      BY <2>1, <3>2, HandlePostingStep DEF OnNewPeer
    <3>3. CASE OnRing(u)
      BY <2>1, <3>3, OnRingStep
    <3>4. CASE OnReject(u)
      BY <2>1, <3>4, HandleEndingStep DEF OnReject
    <3>5. CASE OnLeave(u)
      BY <2>1, <3>5, HandleEndingStep DEF OnLeave
    <3>6. QED
      BY <2>6, <3>1, <3>2, <3>3, <3>4, <3>5 DEF Handle
  <2>7. QED
    BY <1>2, <2>2, <2>3, <2>4, <2>5, <2>6 DEF OnLooper, Looper
<1>3. ASSUME NEW u \in User, NEW i \in DOMAIN ses[u], HangUp(u, i) PROVE IInv'
  BY <1>3, HangUpStep
<1>4. ASSUME NEW u \in User, HangingUp(u) PROVE IInv'
  BY <1>4, HangUpIdleStep, HangUpFinishStep DEF HangingUp
<1>5. ASSUME NEW u \in User, NEW i \in DOMAIN ses[u], Execute(u, i), main' = main
      PROVE  IInv'
  BY <1>5, TalkingStep, ReleaseStep, CloseStep, PeersStep, NewPeerStep DEF Execute
<1>6. ASSUME NEW u \in User, NEW i \in DOMAIN ses[u], RemoteStream(u, i),
             main' = main
      PROVE  IInv'
  BY <1>6, RemoteStreamStep
<1>7. QED
  BY <1>1, <1>2, <1>3, <1>4, <1>5, <1>6 DEF Next

\* IInv is an invariant, for any users and any plan of calls.
THEOREM Invariance == Spec => []IInv
BY InitInv, NextInv, PTL DEF Spec

\* Every variable keeps its type: in particular every session, inbox and room
\* of the server holds only what the tasks and handlers expect.
THEOREM TypeCorrect == Spec => []TypeOK
<1>1. IInv => TypeOK
  BY DEF IInv
<1>2. QED
  BY <1>1, Invariance, PTL

\* A session is only replaced when its call is over, and a screen it leaves
\* behind is about to be closed by its release, unless another call's message
\* or click got into it: however hang-ups, refusals and the executors'
\* releases interleave.
THEOREM ReplacedIsOverAlways == Spec => []ReplacedIsOver
<1>1. IInv => ReplacedIsOver
  BY DEF IInv
<1>2. QED
  BY <1>1, Invariance, PTL

-----------------------------------------------------------------------------
(* The messages of an inbox and the tasks of an executor, in their order.  *)

LEMMA HasMsgAppend ==
  ASSUME NEW q \in Seq(Msg), NEW m \in Msg, NEW k, NEW r
  PROVE  HasMsg(Append(q, m), k, r)
           <=> HasMsg(q, k, r) \/ (m.kind = k /\ m.room = r)
BY SeqFacts, AppendFacts DEF HasMsg

LEMMA HasMsgTail ==
  ASSUME NEW q \in Seq(Msg), q # <<>>, NEW k, NEW r
  PROVE  HasMsg(q, k, r)
           <=> HasMsg(Tail(q), k, r) \/ (Head(q).kind = k /\ Head(q).room = r)
<1>1. /\ Len(q) \in Nat /\ Len(q) > 0 /\ DOMAIN q = 1 .. Len(q)
      /\ Head(q) = q[1] /\ DOMAIN Tail(q) = 1 .. (Len(q) - 1)
      /\ \A j \in 1 .. (Len(q) - 1) : Tail(q)[j] = q[j + 1]
  BY SeqFacts
<1>2. ASSUME HasMsg(q, k, r)
      PROVE  HasMsg(Tail(q), k, r) \/ (Head(q).kind = k /\ Head(q).room = r)
  <2>1. PICK j \in DOMAIN q : q[j].kind = k /\ q[j].room = r
    BY <1>2 DEF HasMsg
  <2>2. CASE j = 1 BY <1>1, <2>1, <2>2
  <2>3. CASE j # 1
    <3>1. j - 1 \in DOMAIN Tail(q) /\ Tail(q)[j - 1] = q[j]
      BY <1>1, <2>1, <2>3
    <3> QED BY <2>1, <3>1 DEF HasMsg
  <2> QED BY <2>2, <2>3
<1>3. ASSUME HasMsg(Tail(q), k, r) PROVE HasMsg(q, k, r)
  <2>1. PICK j \in DOMAIN Tail(q) : Tail(q)[j].kind = k /\ Tail(q)[j].room = r
    BY <1>3 DEF HasMsg
  <2>2. j + 1 \in DOMAIN q /\ q[j + 1] = Tail(q)[j] BY <1>1, <2>1
  <2> QED BY <2>1, <2>2 DEF HasMsg
<1>4. 1 \in DOMAIN q BY <1>1
<1> QED BY <1>1, <1>2, <1>3, <1>4 DEF HasMsg

\* A newPeer joins the queue when a peers is in it, or dealt with.
LEMMA MsgsAppend ==
  ASSUME NEW q \in Seq(Msg), NEW m \in Msg, NEW r, NEW d \in BOOLEAN,
         MsgsInOrder(q, r, d),
         m.kind = "newPeer" /\ m.room = r => d \/ HasMsg(q, "peers", r)
  PROVE  MsgsInOrder(Append(q, m), r, d)
<1> SUFFICES ASSUME NEW k \in DOMAIN Append(q, m),
                    Append(q, m)[k].kind = "newPeer",
                    Append(q, m)[k].room = r, ~d
             PROVE  \E j \in 1 .. (k - 1) : /\ Append(q, m)[j].kind = "peers"
                                            /\ Append(q, m)[j].room = r
  BY DEF MsgsInOrder
<1>1. /\ Len(q) \in Nat /\ DOMAIN q = 1 .. Len(q)
      /\ DOMAIN Append(q, m) = 1 .. (Len(q) + 1)
      /\ \A j \in 1 .. Len(q) : Append(q, m)[j] = q[j]
      /\ Append(q, m)[Len(q) + 1] = m
  BY SeqFacts, AppendFacts
<1>2. CASE k \in 1 .. Len(q)
  <2>1. PICK j \in 1 .. (k - 1) : q[j].kind = "peers" /\ q[j].room = r
    BY <1>1, <1>2 DEF MsgsInOrder
  <2> QED BY <1>1, <1>2, <2>1
<1>3. CASE k = Len(q) + 1
  <2>1. PICK j \in DOMAIN q : q[j].kind = "peers" /\ q[j].room = r
    BY <1>1, <1>3 DEF HasMsg
  <2> QED BY <1>1, <1>3, <2>1
<1> QED BY <1>1, <1>2, <1>3

LEMMA MsgsTail ==
  ASSUME NEW q \in Seq(Msg), q # <<>>, NEW r,
         NEW d \in BOOLEAN, NEW e \in BOOLEAN, MsgsInOrder(q, r, d), d => e,
         Head(q).kind = "peers" /\ Head(q).room = r => e
  PROVE  MsgsInOrder(Tail(q), r, e)
<1> SUFFICES ASSUME NEW k \in DOMAIN Tail(q), Tail(q)[k].kind = "newPeer",
                    Tail(q)[k].room = r, ~e
             PROVE  \E j \in 1 .. (k - 1) : /\ Tail(q)[j].kind = "peers"
                                            /\ Tail(q)[j].room = r
  BY DEF MsgsInOrder
<1>1. /\ Len(q) \in Nat /\ Len(q) > 0 /\ DOMAIN q = 1 .. Len(q)
      /\ Head(q) = q[1] /\ DOMAIN Tail(q) = 1 .. (Len(q) - 1)
      /\ \A j \in 1 .. (Len(q) - 1) : Tail(q)[j] = q[j + 1]
  BY SeqFacts
<1>2. k + 1 \in DOMAIN q /\ q[k + 1] = Tail(q)[k]
  BY <1>1
<1>3. PICK j \in 1 .. k : q[j].kind = "peers" /\ q[j].room = r
  <2>1. (k + 1) - 1 = k BY <1>1
  <2> QED BY <1>2, <2>1 DEF MsgsInOrder
<1>4. j # 1 BY <1>1, <1>3
<1>5. /\ j - 1 \in 1 .. (k - 1) /\ j - 1 \in 1 .. (Len(q) - 1)
      /\ (j - 1) + 1 = j
  BY <1>1, <1>3, <1>4
<1>6. Tail(q)[j - 1] = q[j] BY <1>1, <1>5
<1> QED BY <1>3, <1>5, <1>6

LEMMA MsgsKnown ==
  ASSUME NEW q, NEW r, NEW d \in BOOLEAN, NEW e \in BOOLEAN,
         MsgsInOrder(q, r, d), d => e
  PROVE  MsgsInOrder(q, r, e)
BY DEF MsgsInOrder

\* The first message, if it is a newPeer, has nothing before it.
LEMMA MsgsHead ==
  ASSUME NEW q \in Seq(Msg), q # <<>>, NEW r, NEW d \in BOOLEAN,
         MsgsInOrder(q, r, d), Head(q).kind = "newPeer", Head(q).room = r
  PROVE  d
<1>1. Head(q) = q[1] /\ 1 \in DOMAIN q
  BY SeqFacts
<1> QED BY <1>1 DEF MsgsInOrder

LEMMA TasksAppend ==
  ASSUME NEW ts \in Seq(Task), NEW t \in Task, NEW d \in BOOLEAN,
         TasksInOrder(ts, d),
         t.kind = "newPeer" => d \/ HasTask(ts, "peers")
  PROVE  TasksInOrder(Append(ts, t), d)
<1> SUFFICES ASSUME NEW k \in DOMAIN Append(ts, t),
                    Append(ts, t)[k].kind = "newPeer", ~d
             PROVE  \E j \in 1 .. (k - 1) : Append(ts, t)[j].kind = "peers"
  BY DEF TasksInOrder
<1>1. /\ Len(ts) \in Nat /\ DOMAIN ts = 1 .. Len(ts)
      /\ DOMAIN Append(ts, t) = 1 .. (Len(ts) + 1)
      /\ \A j \in 1 .. Len(ts) : Append(ts, t)[j] = ts[j]
      /\ Append(ts, t)[Len(ts) + 1] = t
  BY SeqFacts, AppendFacts
<1>2. CASE k \in 1 .. Len(ts)
  <2>1. PICK j \in 1 .. (k - 1) : ts[j].kind = "peers"
    BY <1>1, <1>2 DEF TasksInOrder
  <2> QED BY <1>1, <1>2, <2>1
<1>3. CASE k = Len(ts) + 1
  <2>1. PICK j \in DOMAIN ts : ts[j].kind = "peers"
    BY <1>1, <1>3 DEF HasTask
  <2> QED BY <1>1, <1>3, <2>1
<1> QED BY <1>1, <1>2, <1>3

LEMMA TasksTail ==
  ASSUME NEW ts \in Seq(Task), ts # <<>>, NEW d \in BOOLEAN, NEW e \in BOOLEAN,
         TasksInOrder(ts, d), d => e, Head(ts).kind = "peers" => e
  PROVE  TasksInOrder(Tail(ts), e)
<1> SUFFICES ASSUME NEW k \in DOMAIN Tail(ts), Tail(ts)[k].kind = "newPeer", ~e
             PROVE  \E j \in 1 .. (k - 1) : Tail(ts)[j].kind = "peers"
  BY DEF TasksInOrder
<1>1. /\ Len(ts) \in Nat /\ Len(ts) > 0 /\ DOMAIN ts = 1 .. Len(ts)
      /\ Head(ts) = ts[1] /\ DOMAIN Tail(ts) = 1 .. (Len(ts) - 1)
      /\ \A j \in 1 .. (Len(ts) - 1) : Tail(ts)[j] = ts[j + 1]
  BY SeqFacts
<1>2. k + 1 \in DOMAIN ts /\ ts[k + 1] = Tail(ts)[k]
  BY <1>1
<1>3. PICK j \in 1 .. k : ts[j].kind = "peers"
  <2>1. (k + 1) - 1 = k BY <1>1
  <2> QED BY <1>2, <2>1 DEF TasksInOrder
<1>4. j # 1 BY <1>1, <1>3
<1>5. /\ j - 1 \in 1 .. (k - 1) /\ j - 1 \in 1 .. (Len(ts) - 1)
      /\ (j - 1) + 1 = j
  BY <1>1, <1>3, <1>4
<1>6. Tail(ts)[j - 1] = ts[j] BY <1>1, <1>5
<1> QED BY <1>3, <1>5, <1>6

LEMMA TasksHead ==
  ASSUME NEW ts \in Seq(Task), ts # <<>>, NEW d \in BOOLEAN,
         TasksInOrder(ts, d), Head(ts).kind = "newPeer"
  PROVE  d
<1>1. Head(ts) = ts[1] /\ 1 \in DOMAIN ts
  BY SeqFacts
<1> QED BY <1>1 DEF TasksInOrder

-----------------------------------------------------------------------------
(* A session that is prepared stays so.                                    *)

Entering == {"peers", "newPeer"}

\* A message arrives; N is the rooms the phone is in now.
LEMMA PreparedAppend ==
  ASSUME NEW s \in Session, NEW q \in Seq(Msg), NEW m \in Msg,
         NEW M, NEW N, Prepared(s, q, M), s.room \in M => s.room \in N,
         s.room \in N => s.room \in M \/ (m.kind = "peers" /\ m.room = s.room),
         m.kind = "peers" /\ m.room = s.room => s.room \in N,
         m.kind = "newPeer" /\ m.room = s.room => s.room \in M
  PROVE  Prepared(s, Append(q, m), N)
<1> DEFINE d == s.factory \/ HasTask(s.tasks, "peers")
<1>1. d \in BOOLEAN BY DEF Session, HasTask
<1>2. \A k : HasMsg(Append(q, m), k, s.room)
               <=> HasMsg(q, k, s.room) \/ (m.kind = k /\ m.room = s.room)
  BY HasMsgAppend
<1>3. MsgsInOrder(Append(q, m), s.room, d)
  <2>1. /\ MsgsInOrder(q, s.room, d)
        /\ s.room \in M => d \/ HasMsg(q, "peers", s.room)
    BY DEF Prepared
  <2> HIDE DEF d
  <2> QED BY <1>1, <2>1, MsgsAppend
<1> QED BY <1>2, <1>3 DEF Prepared

\* The first message is not for this call.
LEMMA PreparedDrop ==
  ASSUME NEW s \in Session, NEW q \in Seq(Msg), q # <<>>, NEW M,
         Prepared(s, q, M),
         ~(Head(q).kind \in Entering /\ Head(q).room = s.room)
  PROVE  Prepared(s, Tail(q), M)
<1> DEFINE d == s.factory \/ HasTask(s.tasks, "peers")
<1>1. d \in BOOLEAN BY DEF Session, HasTask
<1>2. \A k \in Entering :
        HasMsg(q, k, s.room) <=> HasMsg(Tail(q), k, s.room)
  BY HasMsgTail DEF Entering
<1>3. MsgsInOrder(Tail(q), s.room, d)
  <2>1. MsgsInOrder(q, s.room, d) BY DEF Prepared
  <2> HIDE DEF d
  <2> QED BY <1>1, <2>1, MsgsTail DEF Entering
<1> QED BY <1>2, <1>3 DEF Prepared, Entering

\* The first message becomes a task.
LEMMA PreparedPost ==
  ASSUME NEW s \in Session, NEW t \in Session, NEW x \in Task,
         NEW q \in Seq(Msg), q # <<>>, NEW M, Prepared(s, q, M),
         Head(q).kind \in Entering, Head(q).room = s.room,
         t.tasks = Append(s.tasks, x), x.kind = Head(q).kind,
         t.room = s.room, t.factory = s.factory, t.state = s.state,
         t.peer = s.peer, t.local = s.local, t.ui = s.ui, s.ui # "none"
  PROVE  Prepared(t, Tail(q), M)
<1> DEFINE d == s.factory \/ HasTask(s.tasks, "peers")
           e == t.factory \/ HasTask(t.tasks, "peers")
<1>1. d \in BOOLEAN /\ e \in BOOLEAN /\ s.factory \in BOOLEAN
  BY DEF Session, HasTask
<1>2. s.tasks \in Seq(Task) BY DEF Session
<1>3. \A k : HasMsg(q, k, s.room)
               <=> HasMsg(Tail(q), k, s.room) \/ Head(q).kind = k
  BY HasMsgTail
<1>4. \A k : HasTask(t.tasks, k) <=> HasTask(s.tasks, k) \/ x.kind = k
  BY <1>2, HasTaskAppend
<1>5. MsgsInOrder(q, s.room, d) BY DEF Prepared
<1>6. MsgsInOrder(Tail(q), t.room, e)
  <2>1. (d => e) /\ (Head(q).kind = "peers" => e) BY <1>4
  <2> HIDE DEF d, e
  <2> QED BY <1>1, <1>5, <2>1, MsgsTail
<1>7. TasksInOrder(t.tasks, t.factory)
  <2>1. x.kind = "newPeer" => d
    <3> HIDE DEF d
    <3> QED BY <1>1, <1>5, MsgsHead
  <2> QED BY <1>1, <1>2, <2>1, TasksAppend DEF Prepared
<1>8. s.room \in M BY <1>3 DEF Prepared, Entering
<1>9. t.factory \/ HasTask(t.tasks, "peers") \/ HasMsg(Tail(q), "peers", t.room)
  <2>1. d \/ HasMsg(q, "peers", s.room) BY <1>8 DEF Prepared
  <2> QED BY <1>3, <1>4, <2>1
<1>10. t.state = "Connected" =>
         t.peer = "open" /\ t.local = "live" /\ t.room \in M
  BY DEF Prepared
<1>11. MsgsInOrder(Tail(q), t.room, t.factory \/ HasTask(t.tasks, "peers"))
  BY <1>6
<1>12. t.room \in M /\ t.ui # "none" BY <1>8
<1> HIDE DEF d, e
<1> QED BY <1>7, <1>9, <1>10, <1>11, <1>12 DEF Prepared

\* The session changes, its messages do not.
LEMMA PreparedStep ==
  ASSUME NEW s \in Session, NEW t \in Session, NEW q \in Seq(Msg),
         NEW M, Prepared(s, q, M),
         t.room = s.room, s.factory => t.factory,
         s.ui # "none" => t.ui # "none",
         t.state = "Connected" => t.peer = "open" /\ t.local = "live" /\ s.room \in M,
         \/ t.tasks = s.tasks
         \/ \E x \in Task : x.kind \notin Entering /\ t.tasks = Append(s.tasks, x)
         \/ /\ s.tasks # <<>> /\ t.tasks = Tail(s.tasks)
            /\ Head(s.tasks).kind = "peers" => t.factory
  PROVE  Prepared(t, q, M)
<1> DEFINE d == s.factory \/ HasTask(s.tasks, "peers")
           e == t.factory \/ HasTask(t.tasks, "peers")
<1>1. /\ d \in BOOLEAN /\ e \in BOOLEAN
      /\ s.factory \in BOOLEAN /\ t.factory \in BOOLEAN
      /\ s.tasks \in Seq(Task)
  BY DEF Session, HasTask
<1> DEFINE G == /\ d => e
                /\ \A k \in Entering : HasTask(t.tasks, k) => HasTask(s.tasks, k)
                /\ TasksInOrder(t.tasks, t.factory)
<1>2. G
  <2>0. TasksInOrder(s.tasks, s.factory) BY DEF Prepared
  <2>1. CASE t.tasks = s.tasks BY <2>0, <2>1 DEF TasksInOrder
  <2>2. ASSUME NEW x \in Task, x.kind \notin Entering,
               t.tasks = Append(s.tasks, x)
        PROVE  G
    <3>1. \A k : HasTask(t.tasks, k) <=> HasTask(s.tasks, k) \/ x.kind = k
      BY <1>1, <2>2, HasTaskAppend
    <3>2. TasksInOrder(t.tasks, s.factory)
      BY <1>1, <2>0, <2>2, TasksAppend DEF Entering
    <3> QED BY <2>2, <3>1, <3>2 DEF TasksInOrder, Entering
  <2>3. ASSUME s.tasks # <<>>, t.tasks = Tail(s.tasks),
               Head(s.tasks).kind = "peers" => t.factory
        PROVE  G
    <3>1. \A k : HasTask(s.tasks, k)
                   <=> HasTask(t.tasks, k) \/ Head(s.tasks).kind = k
      BY <1>1, <2>3, HasTaskTail
    <3>2. TasksInOrder(t.tasks, t.factory)
      BY <1>1, <2>0, <2>3, TasksTail
    <3> QED BY <2>3, <3>1, <3>2
  <2> QED BY <2>1, <2>2, <2>3
<1>3. MsgsInOrder(q, s.room, e)
  <2>1. MsgsInOrder(q, s.room, d) BY DEF Prepared
  <2>2. d => e BY <1>2
  <2> HIDE DEF d, e, G
  <2> QED BY <1>1, <2>1, <2>2, MsgsKnown
<1>4. /\ s.room \in M => e \/ HasMsg(q, "peers", s.room)
      /\ HasMsg(q, "peers", s.room) \/ HasMsg(q, "newPeer", s.room) => s.room \in M
  BY <1>2 DEF Prepared
<1>5. HasTask(t.tasks, "peers") \/ HasTask(t.tasks, "newPeer") =>
        s.room \in M /\ t.ui # "none"
  <2>1. "peers" \in Entering /\ "newPeer" \in Entering BY DEF Entering
  <2>2. HasTask(t.tasks, "peers") \/ HasTask(t.tasks, "newPeer") =>
          HasTask(s.tasks, "peers") \/ HasTask(s.tasks, "newPeer")
    BY <1>2, <2>1
  <2> QED BY <2>2 DEF Prepared
<1>6. TasksInOrder(t.tasks, t.factory) BY <1>2
<1> QED BY <1>3, <1>4, <1>5, <1>6 DEF Prepared

-----------------------------------------------------------------------------
(* What may happen to a phone.                                             *)

Invitation == [from : User, room : Room]

\* One session is rewritten, the current one perhaps for the first message.
LEMMA Rewrite ==
  ASSUME NEW u \in User, NEW S \in Seq(Session), NEW q \in Seq(Msg),
         NEW p \in Seq(Msg), NEW vs, NEW M, PhoneOK(u, S, q, vs, M),
         NEW i \in DOMAIN S, NEW s \in Session,
         \/ p = q
         \/ i = Len(S) /\ q # <<>> /\ p = Tail(q),
         s.room = S[i].room, s.coming = S[i].coming,
         S[i].ui # "none" => s.ui # "none", S[i].stray => s.stray,
         s.coming \/ s.target # u,
         \A j \in DOMAIN s.tasks : s.tasks[j].kind = "peers" => s.tasks[j].who # u,
         EntersWithScreen(s),
         Undisturbed(s) => Undisturbed(S[i]),
         i = Len(S) /\ Undisturbed(s) => Prepared(s, p, M)
  PROVE  PhoneOK(u, [S EXCEPT ![i] = s], p, vs, M)
<1> DEFINE T == [S EXCEPT ![i] = s]
           n == Cardinality(Dialled(S))
<1>1. /\ T \in Seq(Session) /\ Len(T) = Len(S) /\ DOMAIN T = DOMAIN S
      /\ \A j \in DOMAIN T : T[j] = IF j = i THEN s ELSE S[j]
  BY ExceptSeq
<1>2. Dialled(T) = Dialled(S)
  BY <1>1 DEF Dialled
<1> HIDE DEF T
<1>3. \A j \in DOMAIN S : OwnRoom(u, S[j], n) /\ EntersWithScreen(S[j])
  BY DEF PhoneOK
<1>4. \A j \in DOMAIN T : OwnRoom(u, T[j], Cardinality(Dialled(T)))
                          /\ EntersWithScreen(T[j])
  <2> HIDE DEF n
  <2>1. OwnRoom(u, s, n) BY <1>3 DEF OwnRoom
  <2> QED BY <1>1, <1>2, <1>3, <2>1 DEF n
<1>5. /\ \A j \in DOMAIN p : p[j].kind = "peers" => p[j].from # u
      /\ \A k, r : HasMsg(p, k, r) => HasMsg(q, k, r)
  <2>1. CASE p = q BY <2>1 DEF PhoneOK
  <2>2. CASE q # <<>> /\ p = Tail(q)
    <3>1. /\ \A j \in DOMAIN q : q[j].kind = "peers" => q[j].from # u
          /\ \A j \in DOMAIN p : j + 1 \in DOMAIN q /\ p[j] = q[j + 1]
      <4>1. /\ Len(q) \in Nat /\ DOMAIN q = 1 .. Len(q)
            /\ DOMAIN Tail(q) = 1 .. (Len(q) - 1)
            /\ \A j \in 1 .. (Len(q) - 1) : Tail(q)[j] = q[j + 1]
        BY <2>2, SeqFacts
      <4>2. DOMAIN p = 1 .. (Len(q) - 1) BY <2>2, <4>1
      <4>3. \A j \in DOMAIN p : j + 1 \in DOMAIN q BY <4>1, <4>2
      <4>4. \A j \in DOMAIN p : p[j] = q[j + 1] BY <2>2, <4>1, <4>2
      <4> QED BY <4>3, <4>4 DEF PhoneOK
    <3>2. \A k, r : HasMsg(p, k, r) => HasMsg(q, k, r) BY <2>2, HasMsgTail
    <3>3. \A j \in DOMAIN p : p[j].kind = "peers" => p[j].from # u BY <3>1
    <3> QED BY <3>2, <3>3
  <2> QED BY <2>1, <2>2
<1>6. ASSUME NEW r \in Room,
             r \in M \/ HasMsg(p, "peers", r) \/ HasMsg(p, "newPeer", r)
      PROVE  \E j \in DOMAIN T : T[j].room = r /\ (T[j].ui # "none" \/ T[j].stray)
  <2>1. PICK j \in DOMAIN S : S[j].room = r /\ (S[j].ui # "none" \/ S[j].stray)
    BY <1>5, <1>6 DEF PhoneOK
  <2> QED BY <1>1, <2>1
<1>7. ASSUME T # <<>>, Undisturbed(T[Len(T)])
      PROVE  /\ \A j \in DOMAIN T : T[j].room = T[Len(T)].room => j = Len(T)
             /\ Prepared(T[Len(T)], p, M)
  <2>1. S # <<>> /\ Len(S) \in DOMAIN S
    BY <1>1, <1>7, SeqFacts, EmptySeq
  <2>2. Undisturbed(S[Len(S)]) BY <1>1, <1>7, <2>1
  <2>3. /\ \A j \in DOMAIN S : S[j].room = S[Len(S)].room => j = Len(S)
        /\ Prepared(S[Len(S)], q, M)
    BY <2>1, <2>2 DEF PhoneOK
  <2>4. \A j \in DOMAIN S : T[j].room = S[j].room BY <1>1
  <2>5. Prepared(T[Len(T)], p, M)
    <3>1. CASE i = Len(S)
      <4>1. T[Len(T)] = s BY <1>1, <2>1, <3>1
      <4> QED BY <1>7, <3>1, <4>1
    <3>2. CASE i # Len(S)
      <4>1. T[Len(T)] = S[Len(S)] /\ p = q BY <1>1, <2>1, <3>2
      <4> QED BY <2>3, <4>1
    <3> QED BY <3>1, <3>2
  <2> QED BY <1>1, <2>1, <2>3, <2>4, <2>5
<1> QED BY <1>4, <1>5, <1>6, <1>7 DEF PhoneOK, T

\* A message of another phone arrives: newPeer comes only to who is in.
LEMMA Arrive ==
  ASSUME NEW u \in User, NEW S \in Seq(Session), NEW q \in Seq(Msg), NEW vs,
         NEW M, PhoneOK(u, S, q, vs, M), NEW m \in Msg, m.kind # "peers",
         m.kind = "newPeer" => m.room \in M
  PROVE  PhoneOK(u, S, Append(q, m), vs, M)
<1>1. \A k, r : HasMsg(Append(q, m), k, r)
                  <=> HasMsg(q, k, r) \/ (m.kind = k /\ m.room = r)
  BY HasMsgAppend
<1>2. \A j \in DOMAIN Append(q, m) :
        Append(q, m)[j].kind = "peers" => Append(q, m)[j].from # u
  BY SeqFacts, AppendFacts DEF PhoneOK
<1>3. ASSUME S # <<>>, Undisturbed(S[Len(S)])
      PROVE  Prepared(S[Len(S)], Append(q, m), M)
  <2>1. S[Len(S)] \in Session BY <1>3, SeqFacts
  <2>2. Prepared(S[Len(S)], q, M) BY <1>3 DEF PhoneOK
  <2> QED BY <2>1, <2>2, PreparedAppend
<1>4. ASSUME NEW r \in Room, r \in M \/ HasMsg(Append(q, m), "peers", r)
                                   \/ HasMsg(Append(q, m), "newPeer", r)
      PROVE  \E j \in DOMAIN S : S[j].room = r /\ (S[j].ui # "none" \/ S[j].stray)
  BY <1>1, <1>4 DEF PhoneOK
<1> QED BY <1>2, <1>3, <1>4 DEF PhoneOK

\* The phone enters the room of a session and is told who is there.
LEMMA Enter ==
  ASSUME NEW u \in User, NEW S \in Seq(Session), NEW q \in Seq(Msg), NEW vs,
         NEW M, PhoneOK(u, S, q, vs, M), NEW i \in DOMAIN S,
         S[i].ui # "none" \/ S[i].stray,
         NEW m \in Msg, m.kind = "peers", m.from # u, m.room = S[i].room
  PROVE  PhoneOK(u, S, Append(q, m), vs, M \cup {S[i].room})
<1> DEFINE N == M \cup {S[i].room}
<1>1. \A k, r : HasMsg(Append(q, m), k, r)
                  <=> HasMsg(q, k, r) \/ (m.kind = k /\ m.room = r)
  BY HasMsgAppend
<1>2. \A j \in DOMAIN Append(q, m) :
        Append(q, m)[j].kind = "peers" => Append(q, m)[j].from # u
  BY SeqFacts, AppendFacts DEF PhoneOK
<1>3. ASSUME S # <<>>, Undisturbed(S[Len(S)])
      PROVE  Prepared(S[Len(S)], Append(q, m), N)
  <2>1. S[Len(S)] \in Session BY <1>3, SeqFacts
  <2>2. Prepared(S[Len(S)], q, M) BY <1>3 DEF PhoneOK
  <2> QED BY <2>1, <2>2, PreparedAppend
<1>4. ASSUME NEW r \in Room, r \in N \/ HasMsg(Append(q, m), "peers", r)
                                   \/ HasMsg(Append(q, m), "newPeer", r)
      PROVE  \E j \in DOMAIN S : S[j].room = r /\ (S[j].ui # "none" \/ S[j].stray)
  BY <1>1, <1>4 DEF PhoneOK
<1> QED BY <1>2, <1>3, <1>4 DEF PhoneOK

\* The phone leaves the room of a call that is over.
LEMMA Depart ==
  ASSUME NEW u \in User, NEW S \in Seq(Session), NEW q \in Seq(Msg), NEW vs,
         NEW M, PhoneOK(u, S, q, vs, M), NEW i \in DOMAIN S, S[i].end # "no"
  PROVE  PhoneOK(u, S, q, vs, M \ {S[i].room})
<1> DEFINE N == M \ {S[i].room}
<1>1. ASSUME S # <<>>, Undisturbed(S[Len(S)])
      PROVE  Prepared(S[Len(S)], q, N)
  <2>1. S[i].room # S[Len(S)].room BY <1>1 DEF PhoneOK, Undisturbed
  <2> QED BY <1>1, <2>1 DEF PhoneOK, Prepared
<1> QED BY <1>1 DEF PhoneOK

\* An invitation comes, or is taken.
LEMMA Invited ==
  ASSUME NEW u \in User, NEW S, NEW q, NEW vs \in Seq(Invitation), NEW M,
         PhoneOK(u, S, q, vs, M), NEW inv \in Invitation, inv.room[1] # u
  PROVE  PhoneOK(u, S, q, Append(vs, inv), M)
<1>1. \A j \in DOMAIN Append(vs, inv) : Append(vs, inv)[j].room[1] # u
  BY SeqFacts, AppendFacts DEF PhoneOK
<1> QED BY <1>1 DEF PhoneOK

LEMMA InviteTaken ==
  ASSUME NEW u \in User, NEW S, NEW q, NEW vs \in Seq(Invitation), NEW M,
         PhoneOK(u, S, q, vs, M), vs # <<>>
  PROVE  PhoneOK(u, S, q, Tail(vs), M) /\ Head(vs).room[1] # u
<1>1. /\ Len(vs) \in Nat /\ Len(vs) > 0 /\ DOMAIN vs = 1 .. Len(vs)
      /\ Head(vs) = vs[1] /\ DOMAIN Tail(vs) = 1 .. (Len(vs) - 1)
      /\ \A j \in 1 .. (Len(vs) - 1) : Tail(vs)[j] = vs[j + 1]
  BY SeqFacts
<1>2. \A j \in DOMAIN Tail(vs) : Tail(vs)[j].room[1] # u
  BY <1>1 DEF PhoneOK
<1> QED BY <1>1, <1>2 DEF PhoneOK

-----------------------------------------------------------------------------
(* A call begins.                                                          *)

LEMMA RoomShape ==
  ASSUME NEW r \in Room
  PROVE  r = <<r[1], r[2]>> /\ r[1] \in User /\ r[2] \in Nat
<1>1. PICK v \in User : r \in {v} \X DOMAIN Plan[v]
  BY DEF Room
<1>2. Plan[v] \in Seq(User)
  BY ConstantsAssumption DEF ConstantsAssumption
<1>3. DOMAIN Plan[v] \subseteq Nat
  <2>1. Len(Plan[v]) \in Nat /\ DOMAIN Plan[v] = 1 .. Len(Plan[v])
    BY <1>2, LenProperties
  <2> QED BY <2>1
<1> QED BY <1>1, <1>3

LEMMA DialledAppend ==
  ASSUME NEW S \in Seq(Session), NEW s \in Session
  PROVE  /\ Cardinality(Dialled(S)) \in Nat
         /\ Cardinality(Dialled(Append(S, s))) =
              IF s.coming THEN Cardinality(Dialled(S))
              ELSE Cardinality(Dialled(S)) + 1
<1>1. /\ Len(S) \in Nat /\ DOMAIN S = 1 .. Len(S)
      /\ DOMAIN Append(S, s) = 1 .. (Len(S) + 1)
      /\ \A j \in 1 .. Len(S) : Append(S, s)[j] = S[j]
      /\ Append(S, s)[Len(S) + 1] = s
  BY SeqFacts, AppendFacts
<1>2. IsFiniteSet(Dialled(S))
  <2>1. IsFiniteSet(1 .. Len(S)) BY <1>1, FS_Interval
  <2>2. Dialled(S) \in SUBSET (1 .. Len(S)) BY <1>1 DEF Dialled
  <2> QED BY <2>1, <2>2, FS_Subset
<1>3. Cardinality(Dialled(S)) \in Nat BY <1>2, FS_CardinalityType
<1>4. CASE s.coming
  <2>1. Dialled(Append(S, s)) = Dialled(S) BY <1>1, <1>4 DEF Dialled
  <2> QED BY <1>3, <1>4, <2>1
<1>5. CASE ~s.coming
  <2>1. /\ Dialled(Append(S, s)) = Dialled(S) \cup {Len(S) + 1}
        /\ Len(S) + 1 \notin Dialled(S)
    BY <1>1, <1>5 DEF Dialled
  <2> QED BY <1>2, <1>3, <1>5, <2>1, FS_AddElement
<1> QED BY <1>4, <1>5

\* A session nobody has spoken of yet.
LEMMA Begin ==
  ASSUME NEW u \in User, NEW S \in Seq(Session), NEW q \in Seq(Msg), NEW vs,
         NEW M, M \subseteq Room, PhoneOK(u, S, q, vs, M), NEW s \in Session,
         s.coming => s.room[1] # u,
         ~s.coming => s.room = <<u, Cardinality(Dialled(S)) + 1>> /\ s.target # u,
         s.coming \/ s.ui # "none",
         s.state # "Connected", s.local = "none",
         NEW x \in Task, s.tasks = <<x>>,
         x.kind = IF s.coming THEN "ringBack" ELSE "create",
         s.coming => s.stray \/ \A i \in DOMAIN S : S[i].room # s.room
  PROVE  PhoneOK(u, Append(S, s), q, vs, M)
<1> DEFINE T == Append(S, s)
           n == Cardinality(Dialled(S))
           m == Cardinality(Dialled(T))
<1>1. /\ Len(S) \in Nat /\ DOMAIN S = 1 .. Len(S)
      /\ DOMAIN T = 1 .. (Len(S) + 1) /\ Len(T) = Len(S) + 1
      /\ \A j \in 1 .. Len(S) : T[j] = S[j] /\ S[j] \in Session
      /\ T[Len(S) + 1] = s
  BY SeqFacts, AppendFacts
<1>2. n \in Nat /\ m = IF s.coming THEN n ELSE n + 1
  BY DialledAppend
<1>3. \A j \in DOMAIN S : OwnRoom(u, S[j], n) /\ EntersWithScreen(S[j])
  BY DEF PhoneOK
<1> HIDE DEF n, m, T
<1>4. \A j \in DOMAIN S : OwnRoom(u, S[j], m)
  <2> SUFFICES ASSUME NEW j \in DOMAIN S PROVE OwnRoom(u, S[j], m)
    OBVIOUS
  <2>1. S[j].room[2] \in Nat
    <3>1. S[j].room \in Room BY <1>1 DEF Session
    <3> QED BY <3>1, RoomShape
  <2>2. S[j].room[2] <= n => S[j].room[2] <= m BY <1>2, <2>1
  <2> QED BY <1>3, <2>2 DEF OwnRoom
<1>5. \A k : HasTask(s.tasks, k) <=> x.kind = k
  <2>1. DOMAIN s.tasks = {1} /\ s.tasks[1] = x
    <3>1. DOMAIN <<x>> = {1} /\ <<x>>[1] = x OBVIOUS
    <3> QED BY <3>1
  <2> QED BY <2>1 DEF HasTask
<1>6. OwnRoom(u, s, m) /\ EntersWithScreen(s)
  <2>1. \A j \in DOMAIN s.tasks : s.tasks[j].kind # "peers"
    BY <1>5 DEF HasTask
  <2>2. ~s.coming => s.room[1] = u /\ s.room[2] <= m /\ s.target # u
    <3>1. ASSUME ~s.coming PROVE s.room[1] = u /\ s.room[2] = m
      BY <1>2, <3>1 DEF n
    <3> QED BY <1>2, <3>1
  <2>3. OwnRoom(u, s, m) BY <2>1, <2>2 DEF OwnRoom
  <2>4. EntersWithScreen(s) BY <1>5 DEF EntersWithScreen
  <2> QED BY <2>3, <2>4
<1>7. \A j \in DOMAIN T : OwnRoom(u, T[j], Cardinality(Dialled(T)))
                          /\ EntersWithScreen(T[j])
  BY <1>1, <1>3, <1>4, <1>6 DEF m
<1>8. ASSUME NEW r \in Room,
             r \in M \/ HasMsg(q, "peers", r) \/ HasMsg(q, "newPeer", r)
      PROVE  \E j \in DOMAIN S : S[j].room = r /\ (S[j].ui # "none" \/ S[j].stray)
  BY <1>8 DEF PhoneOK
<1>9. \A r \in Room :
        r \in M \/ HasMsg(q, "peers", r) \/ HasMsg(q, "newPeer", r) =>
          \E j \in DOMAIN T : T[j].room = r /\ (T[j].ui # "none" \/ T[j].stray)
  BY <1>1, <1>8
<1>10. ASSUME Undisturbed(s) PROVE \A i \in DOMAIN S : S[i].room # s.room
  <2>1. CASE s.coming BY <1>10, <2>1 DEF Undisturbed
  <2>2. CASE ~s.coming
    <3> SUFFICES ASSUME NEW i \in DOMAIN S, S[i].room = s.room PROVE FALSE
      OBVIOUS
    <3>1. s.room[1] = u /\ s.room[2] = n + 1 BY <2>2 DEF n
    <3>2. S[i].room[2] <= n BY <1>3, <3>1 DEF OwnRoom
    <3> QED BY <1>2, <3>1, <3>2
  <2> QED BY <2>1, <2>2
<1>11. ASSUME Undisturbed(s)
       PROVE  /\ \A j \in DOMAIN T : T[j].room = s.room => j = Len(T)
              /\ Prepared(s, q, M)
  <2>1. \A j \in DOMAIN T : T[j].room = s.room => j = Len(T)
    BY <1>1, <1>10, <1>11
  <2>2. s.room \in Room BY DEF Session
  <2>3. /\ s.room \notin M /\ ~HasMsg(q, "peers", s.room)
        /\ ~HasMsg(q, "newPeer", s.room)
    BY <1>8, <1>10, <1>11, <2>2
  <2>4. MsgsInOrder(q, s.room, s.factory \/ HasTask(s.tasks, "peers"))
    BY <2>3 DEF HasMsg, MsgsInOrder
  <2>5. ~HasTask(s.tasks, "peers") /\ ~HasTask(s.tasks, "newPeer")
    BY <1>5
  <2>6. TasksInOrder(s.tasks, s.factory) BY <2>5 DEF HasTask, TasksInOrder
  <2> QED BY <2>1, <2>3, <2>4, <2>5, <2>6 DEF Prepared
<1> QED BY <1>1, <1>7, <1>9, <1>11 DEF PhoneOK, T

-----------------------------------------------------------------------------
(* The network, when the sessions of the phones are S.                     *)

PhonesOK(S) ==
  \A v \in User : alive[v] =>
    PhoneOK(v, S[v], inbox[v], invites[v], RoomsOf(v))

\* What the server delivers to a phone is appended to its inbox.
LEMMA Delivered ==
  ASSUME inbox \in [User -> Seq(Msg)], NEW out, Deliver(out),
         NEW v \in User, alive[v]
  PROVE  /\ inbox[v] \in Seq(Msg)
         /\ out[v] = <<>> => inbox'[v] = inbox[v]
         /\ \A m \in Msg : out[v] = <<m>> => inbox'[v] = Append(inbox[v], m)
<1>1. inbox[v] \in Seq(Msg) /\ inbox'[v] = inbox[v] \o out[v]
  BY DEF Deliver
<1>2. inbox[v] \o <<>> = inbox[v] BY <1>1, ConcatEmptySeq
<1>3. \A m \in Msg : inbox[v] \o <<m>> = Append(inbox[v], m)
  BY <1>1, AppendIsConcat
<1> QED BY <1>1, <1>2, <1>3

LEMMA RelaySetup ==
  ASSUME NetType, NEW S \in [User -> Seq(Session)], PhonesOK(S),
         NEW k \in {"ring", "reject", "leave"}, NEW u \in User, NEW w \in User,
         NEW r \in Room, Deliver([Nothing EXCEPT ![w] = <<Message(k, u, r)>>]),
         UNCHANGED <<invites, members>>
  PROVE  \A v \in User : alive[v] =>
           PhoneOK(v, S[v], inbox'[v], invites'[v], RoomsOf(v)')
<1> SUFFICES ASSUME NEW v \in User, alive[v]
             PROVE  PhoneOK(v, S[v], inbox'[v], invites'[v], RoomsOf(v)')
  OBVIOUS
<1> DEFINE m == Message(k, u, r)
           out == [Nothing EXCEPT ![w] = <<m>>]
<1>1. m \in Msg /\ m.kind = k BY DEF Message, Msg
<1> HIDE DEF m
<1>2. out[v] = IF v = w THEN <<m>> ELSE <<>> BY DEF Nothing
<1>3. Deliver(out) BY DEF m
<1> HIDE DEF out
<1>4. /\ inbox[v] \in Seq(Msg)
      /\ inbox'[v] = IF v = w THEN Append(inbox[v], m) ELSE inbox[v]
  BY <1>1, <1>2, <1>3, Delivered DEF NetType
<1>5. RoomsOf(v)' = RoomsOf(v) /\ invites'[v] = invites[v] BY DEF RoomsOf
<1>6. PhoneOK(v, S[v], inbox[v], invites[v], RoomsOf(v)) /\ S[v] \in Seq(Session)
  BY DEF PhonesOK
<1>7. PhoneOK(v, S[v], Append(inbox[v], m), invites[v], RoomsOf(v))
  BY <1>1, <1>4, <1>6, Arrive
<1> QED BY <1>4, <1>5, <1>6, <1>7

LEMMA EnterSetup ==
  ASSUME NetType, NEW S \in [User -> Seq(Session)], PhonesOK(S),
         NEW u \in User, NEW i \in DOMAIN S[u], S[u][i].ui # "none" \/ S[u][i].stray,
         S[u][i].room \in Room, ServerEnter(u, S[u][i].room)
  PROVE  \A v \in User : alive[v] =>
           PhoneOK(v, S[v], inbox'[v], invites'[v], RoomsOf(v)')
<1> SUFFICES ASSUME NEW v \in User, alive[v]
             PROVE  PhoneOK(v, S[v], inbox'[v], invites'[v], RoomsOf(v)')
  OBVIOUS
<1> DEFINE r == S[u][i].room
           others == members[r] \ {u}
           out(w) == [x \in User |->
                        IF x = u THEN <<Message("peers", w, r)>>
                        ELSE IF x \in others THEN <<Message("newPeer", u, r)>>
                        ELSE <<>>]
<1>1. PICK w \in IF others = {} THEN {Nobody} ELSE others : Deliver(out(w))
  BY DEF ServerEnter
<1>2. w \in User \cup {Nobody} /\ w # u
  BY ConstantsAssumption DEF ConstantsAssumption, NetType
<1>3. /\ invites'[v] = invites[v]
      /\ members' = [members EXCEPT ![r] = @ \cup {u}]
  BY DEF ServerEnter
<1>4. RoomsOf(v)' = IF v = u THEN RoomsOf(v) \cup {r} ELSE RoomsOf(v)
  BY <1>3 DEF RoomsOf, NetType
<1>5. PhoneOK(v, S[v], inbox[v], invites[v], RoomsOf(v)) /\ S[v] \in Seq(Session)
  BY DEF PhonesOK
<1>6. CASE v = u
  <2> DEFINE m == Message("peers", w, r)
  <2>1. m \in Msg /\ m.kind = "peers" /\ m.from = w /\ m.room = r
    BY <1>2 DEF Message, Msg
  <2>2. out(w)[v] = <<m>> BY <1>6
  <2> HIDE DEF m, out
  <2>3. inbox[v] \in Seq(Msg) /\ inbox'[v] = Append(inbox[v], m)
    BY <1>1, <2>1, <2>2, Delivered DEF NetType
  <2>4. PhoneOK(v, S[v], Append(inbox[v], m), invites[v], RoomsOf(v) \cup {S[v][i].room})
    BY <1>2, <1>5, <1>6, <2>1, <2>3, Enter
  <2> QED BY <1>3, <1>4, <1>6, <2>3, <2>4
<1>7. CASE v # u /\ v \in others
  <2> DEFINE m == Message("newPeer", u, r)
  <2>1. m \in Msg /\ m.kind = "newPeer" /\ m.room = r
    BY DEF Message, Msg
  <2>2. out(w)[v] = <<m>> BY <1>7
  <2>3. r \in RoomsOf(v) BY <1>7 DEF RoomsOf
  <2> HIDE DEF m, out
  <2>4. inbox[v] \in Seq(Msg) /\ inbox'[v] = Append(inbox[v], m)
    BY <1>1, <2>1, <2>2, Delivered DEF NetType
  <2>5. PhoneOK(v, S[v], Append(inbox[v], m), invites[v], RoomsOf(v))
    BY <1>5, <2>1, <2>3, <2>4, Arrive
  <2> QED BY <1>3, <1>4, <1>7, <2>4, <2>5
<1>8. CASE v # u /\ v \notin others
  <2>1. out(w)[v] = <<>> BY <1>8
  <2> HIDE DEF out
  <2>2. inbox'[v] = inbox[v]
    BY <1>1, <2>1, Delivered DEF NetType
  <2> QED BY <1>3, <1>4, <1>5, <1>8, <2>2
<1> QED BY <1>6, <1>7, <1>8

LEMMA LeaveSetup ==
  ASSUME NetType, NEW S \in [User -> Seq(Session)], PhonesOK(S),
         NEW u \in User, NEW i \in DOMAIN S[u], S[u][i].end # "no",
         S[u][i].room \in Room, ServerLeave(u, S[u][i].room)
  PROVE  \A v \in User : alive[v] =>
           PhoneOK(v, S[v], inbox'[v], invites'[v], RoomsOf(v)')
<1> SUFFICES ASSUME NEW v \in User, alive[v]
             PROVE  PhoneOK(v, S[v], inbox'[v], invites'[v], RoomsOf(v)')
  OBVIOUS
<1> DEFINE r == S[u][i].room
           m == Message("leave", u, r)
           out == [x \in User |-> IF x \in members[r] \ {u} THEN <<m>> ELSE <<>>]
<1>1. m \in Msg /\ m.kind = "leave" BY DEF Message, Msg
<1>2. Deliver(out) BY DEF ServerLeave
<1> HIDE DEF m
<1>3. out[v] = IF v \in members[r] \ {u} THEN <<m>> ELSE <<>> OBVIOUS
<1> HIDE DEF out
<1>4. /\ inbox[v] \in Seq(Msg)
      /\ inbox'[v] = IF v \in members[r] \ {u} THEN Append(inbox[v], m)
                     ELSE inbox[v]
  BY <1>1, <1>2, <1>3, Delivered DEF NetType
<1>5. /\ invites'[v] = invites[v]
      /\ members' = [members EXCEPT ![r] = @ \ {u}]
  BY DEF ServerLeave
<1>6. RoomsOf(v)' = IF v = u THEN RoomsOf(v) \ {r} ELSE RoomsOf(v)
  BY <1>5 DEF RoomsOf, NetType
<1>7. PhoneOK(v, S[v], inbox[v], invites[v], RoomsOf(v)) /\ S[v] \in Seq(Session)
  BY DEF PhonesOK
<1>8. CASE v = u
  <2>1. PhoneOK(v, S[v], inbox[v], invites[v], RoomsOf(v) \ {S[v][i].room})
    BY <1>4, <1>7, <1>8, Depart
  <2> QED BY <1>4, <1>5, <1>6, <1>8, <2>1
<1>9. CASE v # u
  <2>1. PhoneOK(v, S[v], Append(inbox[v], m), invites[v], RoomsOf(v))
    BY <1>1, <1>4, <1>7, Arrive
  <2> QED BY <1>4, <1>5, <1>6, <1>7, <1>9, <2>1
<1> QED BY <1>8, <1>9

LEMMA InviteSetup ==
  ASSUME NetType, NEW S \in [User -> Seq(Session)], PhonesOK(S),
         NEW u \in User, NEW w \in User, NEW r \in Room, r[1] # w,
         ServerInvite(u, w, r)
  PROVE  \A v \in User : alive[v] =>
           PhoneOK(v, S[v], inbox'[v], invites'[v], RoomsOf(v)')
<1> SUFFICES ASSUME NEW v \in User, alive[v]
             PROVE  PhoneOK(v, S[v], inbox'[v], invites'[v], RoomsOf(v)')
  OBVIOUS
<1> DEFINE inv == [from |-> u, room |-> r]
<1>1. inv \in Invitation /\ inv.room = r BY DEF Invitation
<1>2. /\ invites[v] \in Seq(Invitation)
      /\ invites'[v] = IF v = w THEN Append(invites[v], inv) ELSE invites[v]
  BY DEF NetType, ServerInvite, Invitation
<1> HIDE DEF inv
<1>3. RoomsOf(v)' = RoomsOf(v) /\ inbox'[v] = inbox[v]
  BY DEF RoomsOf, ServerInvite
<1>4. PhoneOK(v, S[v], inbox[v], invites[v], RoomsOf(v))
  BY DEF PhonesOK
<1>5. CASE v = w
  <2>1. PhoneOK(v, S[v], inbox[v], Append(invites[v], inv), RoomsOf(v))
    BY <1>1, <1>2, <1>4, <1>5, Invited
  <2> QED BY <1>2, <1>3, <1>5, <2>1
<1>6. CASE v # w BY <1>2, <1>3, <1>4, <1>6
<1> QED BY <1>5, <1>6

\* Nothing is sent, and no process dies.
LEMMA SilentSetup ==
  ASSUME NEW S \in [User -> Seq(Session)], PhonesOK(S), UNCHANGED net
  PROVE  \A v \in User : alive[v] =>
           PhoneOK(v, S[v], inbox'[v], invites'[v], RoomsOf(v)')
<1>1. /\ inbox' = inbox /\ invites' = invites
      /\ \A v : RoomsOf(v)' = RoomsOf(v)
  BY DEF net, RoomsOf
<1> QED BY <1>1 DEF PhonesOK

LEMMA SetupKept ==
  ASSUME SetupInv, UNCHANGED <<alive, died>>,
         \A v \in User : alive[v] =>
           PhoneOK(v, ses'[v], inbox'[v], invites'[v], RoomsOf(v)')
  PROVE  SetupInv'
<1>1. SetupNeverFatal' BY DEF SetupInv, SetupNeverFatal
<1>2. \A v \in User : alive'[v] => alive[v] OBVIOUS
<1> QED BY <1>1, <1>2 DEF SetupInv

-----------------------------------------------------------------------------
(* A step rewrites a session.                                              *)

Keeps(u, o, s) ==
  /\ s.room = o.room /\ s.coming = o.coming
  /\ o.ui # "none" => s.ui # "none"
  /\ o.stray => s.stray
  /\ s.coming \/ s.target # u
  /\ \A j \in DOMAIN s.tasks : s.tasks[j].kind = "peers" => s.tasks[j].who # u
  /\ EntersWithScreen(s)
  /\ Undisturbed(s) => Undisturbed(o)

\* What the invariants say of one session.
LEMMA SessionFacts ==
  ASSUME IInv, SetupInv, NEW u \in User, alive[u], NEW i \in DOMAIN ses[u]
  PROVE  /\ ses[u] \in Seq(Session) /\ ses[u] # <<>>
         /\ ses[u][i] \in Session /\ EndsInOrder(ses[u][i])
         /\ inbox[u] \in Seq(Msg)
         /\ Keeps(u, ses[u][i], ses[u][i])
         /\ ~ses[u][i].coming => ses[u][i].room[1] = u
         /\ Undisturbed(ses[u][i]) =>
              /\ i = Cur(u)
              /\ \A j \in DOMAIN ses[u] : ses[u][j].room = ses[u][i].room => j = i
              /\ Prepared(ses[u][i], inbox[u], RoomsOf(u))
<1>1. /\ ses[u] \in Seq(Session) /\ inbox[u] \in Seq(Msg)
  BY DEF IInv, TypeOK
<1>2. ses[u][i] \in Session /\ ses[u] # <<>>
  BY <1>1, SeqFacts
<1>3. EndsInOrder(ses[u][i]) BY DEF IInv
<1>4. PhoneOK(u, ses[u], inbox[u], invites[u], RoomsOf(u)) BY DEF SetupInv
<1>5. /\ OwnRoom(u, ses[u][i], Cardinality(Dialled(ses[u])))
      /\ EntersWithScreen(ses[u][i])
  BY <1>4 DEF PhoneOK
<1>6. Keeps(u, ses[u][i], ses[u][i]) BY <1>5 DEF OwnRoom, Keeps
<1>7. ~ses[u][i].coming => ses[u][i].room[1] = u BY <1>5 DEF OwnRoom
<1>8. ASSUME Undisturbed(ses[u][i])
      PROVE  /\ i = Cur(u)
             /\ \A j \in DOMAIN ses[u] : ses[u][j].room = ses[u][i].room => j = i
             /\ Prepared(ses[u][i], inbox[u], RoomsOf(u))
  <2>1. i = Cur(u) BY <1>8 DEF IInv, ReplacedIsOver, Undisturbed
  <2> QED BY <1>2, <1>4, <1>8, <2>1 DEF PhoneOK, Cur
<1> QED BY <1>1, <1>2, <1>3, <1>6, <1>7, <1>8

LEMMA Rewritten ==
  ASSUME IInv, SetupInv, NEW u \in User, alive[u], NEW i \in DOMAIN ses[u],
         NEW s \in Session, Keeps(u, ses[u][i], s), SetSession(u, i, s),
         NEW p \in Seq(Msg),
         p = inbox[u] \/ (i = Cur(u) /\ inbox[u] # <<>> /\ p = Tail(inbox[u])),
         i = Cur(u) /\ Undisturbed(s) => Prepared(s, p, RoomsOf(u))
  PROVE  /\ ses' \in [User -> Seq(Session)]
         /\ \A v \in User : alive[v] =>
              PhoneOK(v, ses'[v], IF v = u THEN p ELSE inbox[v], invites[v],
                      RoomsOf(v))
<1> DEFINE T == [ses[u] EXCEPT ![i] = s]
<1>1. /\ ses \in [User -> Seq(Session)] /\ inbox[u] \in Seq(Msg)
      /\ ses[u] \in Seq(Session)
  BY DEF IInv, TypeOK
<1>2. T \in Seq(Session) /\ i \in 1 .. Len(ses[u])
  BY <1>1, SeqFacts, ExceptSeq
<1>3. ses' = [ses EXCEPT ![u] = T] BY DEF SetSession
<1>4. PhoneOK(u, ses[u], inbox[u], invites[u], RoomsOf(u)) BY DEF SetupInv
<1>5. PhoneOK(u, T, p, invites[u], RoomsOf(u))
  BY <1>1, <1>4, Rewrite DEF Keeps, Cur
<1> HIDE DEF T
<1>6. /\ ses' \in [User -> Seq(Session)]
      /\ \A v \in User : ses'[v] = IF v = u THEN T ELSE ses[v]
  BY <1>1, <1>2, <1>3
<1>7. ASSUME NEW v \in User, alive[v]
      PROVE  PhoneOK(v, ses'[v], IF v = u THEN p ELSE inbox[v], invites[v],
                     RoomsOf(v))
  <2>1. CASE v = u BY <1>5, <1>6, <2>1
  <2>2. CASE v # u BY <1>6, <1>7, <2>2 DEF SetupInv
  <2> QED BY <2>1, <2>2
<1> QED BY <1>6, <1>7

\* The session is rewritten and no message is taken.
LEMMA RewrittenOnly ==
  ASSUME IInv, SetupInv, NEW u \in User, alive[u], NEW i \in DOMAIN ses[u],
         NEW s \in Session, Keeps(u, ses[u][i], s), SetSession(u, i, s),
         i = Cur(u) /\ Undisturbed(s) => Prepared(s, inbox[u], RoomsOf(u))
  PROVE  ses' \in [User -> Seq(Session)] /\ PhonesOK(ses')
<1>1. inbox[u] \in Seq(Msg) BY DEF IInv, TypeOK
<1>2. /\ ses' \in [User -> Seq(Session)]
      /\ \A v \in User : alive[v] =>
           PhoneOK(v, ses'[v], IF v = u THEN inbox[u] ELSE inbox[v], invites[v],
                   RoomsOf(v))
  BY <1>1, Rewritten
<1>3. \A v \in User : inbox[v] = IF v = u THEN inbox[u] ELSE inbox[v]
  OBVIOUS
<1> QED BY <1>2, <1>3 DEF PhonesOK

\* ... by a task, which takes itself off the queue.
LEMMA TaskRewritten ==
  ASSUME IInv, SetupInv, NEW u \in User, NEW i \in DOMAIN ses[u], NEW k,
         Running(u, i, k), NEW t \in Session, t.tasks = ses[u][i].tasks,
         Keeps(u, ses[u][i], t), t.end = ses[u][i].end,
         ses[u][i].factory => t.factory, k = "peers" => t.factory,
         Undisturbed(ses[u][i]) /\ t.state = "Connected" =>
           t.peer = "open" /\ t.local = "live" /\ t.room \in RoomsOf(u),
         SetSession(u, i, Rest(t))
  PROVE  ses' \in [User -> Seq(Session)] /\ PhonesOK(ses')
<1> DEFINE o == ses[u][i]
           s == Rest(t)
<1>1. alive[u] /\ o.tasks # <<>> /\ Head(o.tasks).kind = k BY DEF Running
<1>2. o \in Session /\ inbox[u] \in Seq(Msg) BY <1>1, SessionFacts
<1>3. s \in Session /\ t.tasks \in Seq(Task) BY <1>1, RestType DEF Session
<1>4. /\ s.tasks = Tail(t.tasks) /\ s.room = t.room /\ s.coming = t.coming
      /\ s.ui = t.ui /\ s.target = t.target /\ s.local = t.local
      /\ s.end = t.end /\ s.stray = t.stray /\ s.factory = t.factory
      /\ s.state = t.state /\ s.peer = t.peer
  BY DEF Rest, Session
<1> HIDE DEF s
<1>5. \A l : HasTask(s.tasks, l) => HasTask(t.tasks, l)
  BY <1>1, <1>3, <1>4, HasTaskTail
<1>6. \A j \in DOMAIN s.tasks : s.tasks[j].kind = "peers" => s.tasks[j].who # u
  <2>1. /\ Len(t.tasks) \in Nat /\ DOMAIN t.tasks = 1 .. Len(t.tasks)
        /\ DOMAIN Tail(t.tasks) = 1 .. (Len(t.tasks) - 1)
        /\ \A j \in 1 .. (Len(t.tasks) - 1) : Tail(t.tasks)[j] = t.tasks[j + 1]
    BY <1>1, <1>3, SeqFacts
  <2>2. \A j \in DOMAIN s.tasks :
          j + 1 \in DOMAIN t.tasks /\ s.tasks[j] = t.tasks[j + 1]
    BY <1>4, <2>1
  <2> QED BY <2>2 DEF Keeps
<1>7. Keeps(u, o, s)
  <2>1. EntersWithScreen(s) BY <1>4, <1>5 DEF Keeps, EntersWithScreen
  <2> QED BY <1>4, <1>6, <2>1 DEF Keeps, Undisturbed
<1>8. ASSUME Undisturbed(s) PROVE Prepared(s, inbox[u], RoomsOf(u))
  <2>1. Undisturbed(o) BY <1>7, <1>8 DEF Keeps
  <2>2. Prepared(o, inbox[u], RoomsOf(u)) BY <1>1, <2>1, SessionFacts
  <2> HIDE DEF o
  <2>3. /\ s.room = o.room
        /\ o.ui # "none" => s.ui # "none"
    BY <1>4, <1>7 DEF Keeps, o
  <2>4. s.state = "Connected" =>
          s.peer = "open" /\ s.local = "live" /\ o.room \in RoomsOf(u)
    BY <1>4, <2>1, <2>3 DEF o
  <2>5. o.factory => s.factory BY <1>4 DEF o
  <2>6. /\ o.tasks # <<>> /\ s.tasks = Tail(o.tasks)
        /\ Head(o.tasks).kind = "peers" => s.factory
    BY <1>1, <1>4 DEF o
  <2> QED BY <1>2, <1>3, <2>2, <2>3, <2>4, <2>5, <2>6, PreparedStep
<1>9. SetSession(u, i, s) BY DEF s
<1> QED BY <1>1, <1>3, <1>7, <1>8, <1>9, RewrittenOnly

-----------------------------------------------------------------------------
(* The main thread.                                                        *)

\* A session is added; its room, if the session was dialled, is a new one.
LEMMA Begun ==
  ASSUME IInv, SetupInv, NEW u \in User, NEW s \in Session,
         ses' = [ses EXCEPT ![u] = Append(@, s)], NEW vs,
         alive[u] => PhoneOK(u, Append(ses[u], s), inbox[u], vs, RoomsOf(u)),
         UNCHANGED <<alive, inbox, members, died>>,
         \A v \in User : invites'[v] = IF v = u THEN vs ELSE invites[v]
  PROVE  SetupInv'
<1>1. ses \in [User -> Seq(Session)] BY DEF IInv, TypeOK
<1>2. \A v \in User : ses'[v] = IF v = u THEN Append(ses[u], s) ELSE ses[v]
  BY <1>1
<1>3. \A v : RoomsOf(v)' = RoomsOf(v) BY DEF RoomsOf
<1>4. ASSUME NEW v \in User, alive[v]
      PROVE  PhoneOK(v, ses'[v], inbox'[v], invites'[v], RoomsOf(v)')
  <2>1. CASE v = u BY <1>2, <1>3, <1>4, <2>1
  <2>2. CASE v # u BY <1>2, <1>3, <1>4, <2>2 DEF SetupInv
  <2> QED BY <2>1, <2>2
<1> QED BY <1>4, SetupKept

\* startOutCall: the room of a new call is a new one.
LEMMA DialSetup ==
  ASSUME IInv, SetupInv, NEW u \in User, Dial(u)
  PROVE  SetupInv'
<1> DEFINE n == Cardinality(Dialled(ses[u])) + 1
           s == NewSession(<<u, n>>, Plan[u][n], FALSE)
           x == NewTask("create", Nobody)
<1>1. /\ alive[u] /\ n \in DOMAIN Plan[u]
      /\ ses' = [ses EXCEPT ![u] = Append(@, s)]
      /\ UNCHANGED <<alive, ring, died>> /\ UNCHANGED net
  BY DEF Dial, Dialled
<1>2. /\ ses[u] \in Seq(Session) /\ inbox[u] \in Seq(Msg)
  BY DEF IInv, TypeOK
<1>3. n = Cardinality(Dialled(ses[u])) + 1 OBVIOUS
<1> HIDE DEF n
<1>4. <<u, n>> \in Room /\ Plan[u][n] \in User /\ Plan[u][n] # u
  BY <1>1, ConstantsAssumption DEF ConstantsAssumption, Room
<1>5. s \in Session BY <1>4, NewSessionType
<1>6. x \in Task /\ x.kind = "create" BY DEF NewTask, Task
<1>7. /\ ~s.coming /\ s.room = <<u, n>> /\ s.target = Plan[u][n]
      /\ s.ui = "open" /\ s.state = "Outgoing" /\ s.local = "none"
      /\ s.tasks = <<x>>
  BY DEF NewSession
<1> HIDE DEF s, x
<1>8. PhoneOK(u, ses[u], inbox[u], invites[u], RoomsOf(u))
  BY <1>1 DEF SetupInv
<1>9. RoomsOf(u) \subseteq Room BY DEF RoomsOf
<1>10. PhoneOK(u, Append(ses[u], s), inbox[u], invites[u], RoomsOf(u))
  BY <1>2, <1>3, <1>4, <1>5, <1>6, <1>7, <1>8, <1>9, Begin
<1>11. \A v \in User : invites'[v] = IF v = u THEN invites[u] ELSE invites[v]
  BY <1>1 DEF net
<1> QED BY <1>1, <1>5, <1>10, <1>11, Begun DEF net

\* VoipReceiver.onReceive: a second session for the same room is noted.
LEMMA ReceiveInviteSetup ==
  ASSUME IInv, SetupInv, NEW u \in User, ReceiveInvite(u)
  PROVE  SetupInv'
<1> DEFINE inv == Head(invites[u])
<1>1. /\ alive[u] /\ invites[u] # <<>> /\ UNCHANGED members
      /\ invites' = [invites EXCEPT ![u] = Tail(@)]
  BY DEF ReceiveInvite
<1>2. /\ ses \in [User -> Seq(Session)] /\ ses[u] \in Seq(Session)
      /\ inbox[u] \in Seq(Msg) /\ invites[u] \in Seq(Invitation)
      /\ invites \in [User -> Seq(Invitation)] /\ NetType
  BY DEF IInv, TypeOK, Invitation, NetType
<1>3. inv \in Invitation /\ inv.room \in Room /\ inv.from \in User
  <2>1. inv \in Invitation BY <1>1, <1>2, SeqFacts
  <2> QED BY <2>1 DEF Invitation
<1>4. /\ PhoneOK(u, ses[u], inbox[u], Tail(invites[u]), RoomsOf(u))
      /\ inv.room[1] # u
  BY <1>1, <1>2, InviteTaken DEF SetupInv
<1>5. CASE Busy(u)
  <2>1. /\ Deliver([Nothing EXCEPT ![inv.from] =
                      <<Message("reject", u, inv.room)>>])
        /\ UNCHANGED <<alive, ses, died>>
    BY <1>5 DEF ReceiveInvite, phone
  <2> DEFINE out == [Nothing EXCEPT ![inv.from] =
                       <<Message("reject", u, inv.room)>>]
             m == Message("reject", u, inv.room)
  <2>2. m \in Msg /\ m.kind = "reject" BY <1>3 DEF Message, Msg
  <2>3. ASSUME NEW v \in User, alive[v]
        PROVE  PhoneOK(v, ses'[v], inbox'[v], invites'[v], RoomsOf(v)')
    <3>1. out[v] = IF v = inv.from THEN <<m>> ELSE <<>>
      <4> HIDE DEF inv, m
      <4> QED BY DEF Nothing, m
    <3>2. Deliver(out) BY <2>1
    <3> HIDE DEF out, m
    <3>3. /\ inbox[v] \in Seq(Msg)
          /\ inbox'[v] = IF v = inv.from THEN Append(inbox[v], m) ELSE inbox[v]
      BY <1>2, <2>2, <2>3, <3>1, <3>2, Delivered DEF NetType
    <3>4. ses'[v] = ses[v] /\ RoomsOf(v)' = RoomsOf(v)
      BY <1>1, <2>1 DEF RoomsOf
    <3>5. PhoneOK(v, ses[v], inbox[v], invites'[v], RoomsOf(v))
      <4>1. CASE v = u
        <5>1. invites'[v] = Tail(invites[u]) BY <1>1, <1>2, <4>1
        <5> QED BY <1>4, <4>1, <5>1
      <4>2. CASE v # u
        <5>1. invites'[v] = invites[v] BY <1>1, <1>2, <4>2
        <5> QED BY <2>3, <5>1 DEF SetupInv
      <4> QED BY <4>1, <4>2
    <3>6. PhoneOK(v, ses[v], Append(inbox[v], m), invites'[v], RoomsOf(v))
      BY <1>2, <2>2, <3>3, <3>5, Arrive
    <3> QED BY <3>3, <3>4, <3>5, <3>6
  <2> QED BY <2>1, <2>3, SetupKept
<1>6. CASE ~Busy(u)
  <2> DEFINE b == \E i \in DOMAIN ses[u] : ses[u][i].room = inv.room
             t == NewSession(inv.room, inv.from, TRUE)
             s == [t EXCEPT !.stray = b]
             x == NewTask("ringBack", Nobody)
  <2>1. /\ ses' = [ses EXCEPT ![u] = Append(@, s)]
        /\ UNCHANGED <<alive, died, inbox>>
    BY <1>6 DEF ReceiveInvite
  <2>2. t \in Session BY <1>3, NewSessionType
  <2>3. x \in Task /\ x.kind = "ringBack" BY DEF NewTask, Task
  <2>4. /\ t.coming /\ t.room = inv.room /\ t.state = "Incoming"
        /\ t.local = "none" /\ t.tasks = <<x>>
    BY DEF NewSession
  <2>5. b \in BOOLEAN OBVIOUS
  <2>6. ~b => \A i \in DOMAIN ses[u] : ses[u][i].room # inv.room OBVIOUS
  <2> HIDE DEF t, x, b
  <2>7. /\ s \in Session /\ s.stray = b
        /\ s.coming /\ s.room = inv.room /\ s.state = "Incoming"
        /\ s.local = "none" /\ s.tasks = <<x>>
    BY <2>2, <2>4, <2>5 DEF Session
  <2> HIDE DEF s, inv
  <2>8. RoomsOf(u) \subseteq Room BY DEF RoomsOf
  <2>9. s.stray \/ \A i \in DOMAIN ses[u] : ses[u][i].room # s.room
    BY <2>6, <2>7
  <2>10. PhoneOK(u, Append(ses[u], s), inbox[u], Tail(invites[u]), RoomsOf(u))
    BY <1>2, <1>4, <2>3, <2>7, <2>8, <2>9, Begin
  <2>11. \A v \in User :
           invites'[v] = IF v = u THEN Tail(invites[u]) ELSE invites[v]
    BY <1>1, <1>2
  <2> QED BY <1>1, <2>1, <2>7, <2>10, <2>11, Begun
<1> QED BY <1>5, <1>6

\* The session of a handler or a click.
LEMMA CurrentFacts ==
  ASSUME IInv, SetupInv, NEW u \in User, HasSession(u)
  PROVE  /\ alive[u] /\ Cur(u) \in DOMAIN ses[u]
         /\ Current(u) = ses[u][Cur(u)] /\ Current(u) \in Session
         /\ Current(u).tasks \in Seq(Task)
         /\ Keeps(u, Current(u), Current(u))
         /\ Undisturbed(Current(u)) =>
              Prepared(Current(u), inbox[u], RoomsOf(u))
<1>1. alive[u] /\ SesInv BY IInvParts DEF HasSession
<1>2. /\ Cur(u) \in DOMAIN ses[u] /\ Current(u) = ses[u][Cur(u)]
      /\ Current(u) \in Session
  BY <1>1, CurrentType
<1>3. Current(u).tasks \in Seq(Task) BY <1>2 DEF Session
<1> QED BY <1>1, <1>2, <1>3, SessionFacts

\* The main thread changes no more of a session than its screen, which is
\* there from then on, and counts the click.
LEMMA ScreenSetup ==
  ASSUME IInv, SetupInv, NEW u \in User, alive[u], NEW i \in DOMAIN ses[u],
         NEW ui \in Ui, ui # "none", NEW c \in 0 .. MaxClicks,
         SetSession(u, i, [ses[u][i] EXCEPT !.ui = ui, !.clicks = c]),
         UNCHANGED <<alive, died>>, UNCHANGED net
  PROVE  SetupInv'
<1> DEFINE o == ses[u][i]
           s == [o EXCEPT !.ui = ui, !.clicks = c]
<1>1. /\ o \in Session /\ Keeps(u, o, o)
      /\ Undisturbed(o) => Prepared(o, inbox[u], RoomsOf(u))
  BY SessionFacts
<1>2. o = ses[u][i] /\ SetSession(u, i, s) OBVIOUS
<1> HIDE DEF o
<1>3. /\ s \in Session /\ s.ui # "none" /\ s.room = o.room
      /\ s.coming = o.coming /\ s.target = o.target /\ s.tasks = o.tasks
      /\ s.stray = o.stray /\ s.end = o.end /\ s.local = o.local
      /\ s.factory = o.factory /\ s.state = o.state /\ s.peer = o.peer
  BY <1>1 DEF Session
<1> HIDE DEF s
<1>4. Keeps(u, o, s)
  BY <1>1, <1>3 DEF Keeps, Undisturbed, EntersWithScreen
<1>5. Undisturbed(s) => Prepared(s, inbox[u], RoomsOf(u))
  BY <1>1, <1>3 DEF Undisturbed, Prepared
<1>6. ses' \in [User -> Seq(Session)] /\ PhonesOK(ses')
  BY <1>2, <1>3, <1>4, <1>5, RewrittenOnly
<1> QED BY <1>6, SilentSetup, SetupKept

\* ... without a click.
LEMMA UiSetup ==
  ASSUME IInv, SetupInv, NEW u \in User, alive[u], NEW i \in DOMAIN ses[u],
         NEW ui \in Ui, ui # "none",
         SetSession(u, i, [ses[u][i] EXCEPT !.ui = ui]),
         UNCHANGED <<alive, died>>, UNCHANGED net
  PROVE  SetupInv'
<1> DEFINE o == ses[u][i]
           c == o.clicks
<1>1. o \in Session BY SessionFacts
<1>2. c \in 0 .. MaxClicks BY <1>1 DEF Session
<1>3. [o EXCEPT !.ui = ui] = [o EXCEPT !.ui = ui, !.clicks = c]
  <2> HIDE DEF o
  <2> QED BY <1>1 DEF Session
<1>4. SetSession(u, i, [o EXCEPT !.ui = ui, !.clicks = c]) BY <1>3
<1> HIDE DEF c
<1> QED BY <1>2, <1>4, ScreenSetup

LEMMA OpenUiSetup ==
  ASSUME IInv, SetupInv, NEW u \in User, OpenUi(u)
  PROVE  SetupInv'
<1>1. PICK ui \in {"open", "closed"} :
        SetSession(u, Cur(u), [Current(u) EXCEPT !.ui = ui])
  BY DEF OpenUi
<1>2. /\ HasSession(u) /\ UNCHANGED <<alive, died>> /\ UNCHANGED net
  BY DEF OpenUi
<1>3. alive[u] /\ Cur(u) \in DOMAIN ses[u] /\ Current(u) = ses[u][Cur(u)]
  BY <1>2, CurrentFacts
<1>4. ui \in Ui /\ ui # "none" BY DEF Ui
<1> QED BY <1>1, <1>2, <1>3, <1>4, UiSetup

\* The runnable of a screen.
LEMMA ShowConnectedSetup ==
  ASSUME IInv, SetupInv, NEW u \in User, NEW i \in DOMAIN ses[u],
         ShowConnected(u, i)
  PROVE  SetupInv'
<1>1. "shown" \in Ui BY DEF Ui
<1> QED BY <1>1, UiSetup DEF ShowConnected

\* The accept button: the screen is there when the task that joins is posted,
\* unless the screen was another call's.
LEMMA JoinPostedSetup ==
  ASSUME IInv, SetupInv, NEW u \in User, NEW i \in DOMAIN ses[u], Accept(u, i),
         Current(u).state = "Incoming"
  PROVE  SetupInv'
<1> DEFINE o == Current(u)
           x == NewTask("join", Nobody)
           c == o.clicks + 1
           d == o.stray \/ i # Cur(u)
           q == Append(o.tasks, x)
           s == [o EXCEPT !.tasks = q, !.clicks = c, !.stray = d]
<1>1. /\ HasSession(u) /\ ses[u][i].ui = "open" /\ o.clicks < MaxClicks
      /\ UNCHANGED <<alive, ring, died>> /\ UNCHANGED net
  BY DEF Accept, OnTop
<1>2. /\ alive[u] /\ Cur(u) \in DOMAIN ses[u] /\ o = ses[u][Cur(u)]
      /\ o \in Session /\ o.tasks \in Seq(Task) /\ Keeps(u, o, o)
      /\ Undisturbed(o) => Prepared(o, inbox[u], RoomsOf(u))
  BY <1>1, CurrentFacts
<1>3. SetSession(u, Cur(u), s)
  <2>1. SetSession(u, Cur(u), [Post(o, "join", Nobody) EXCEPT
                                 !.clicks = @ + 1, !.stray = @ \/ i # Cur(u)])
    BY DEF Accept
  <2> HIDE DEF o
  <2>2. [Post(o, "join", Nobody) EXCEPT !.clicks = @ + 1,
                                        !.stray = @ \/ i # Cur(u)]
          = [o EXCEPT !.tasks = q, !.clicks = c, !.stray = d]
    BY <1>2 DEF Post, Session
  <2> HIDE DEF c, d, q
  <2> QED BY <2>1, <2>2
<1>4. c \in 0 .. MaxClicks /\ d \in BOOLEAN
  BY <1>1, <1>2, ConstantsAssumption DEF Session, ConstantsAssumption
<1>5. x \in Task /\ x.kind = "join" BY DEF NewTask, Task
<1>6. /\ o.stray => d
      /\ o.ui # "none" \/ d
  BY <1>1, <1>2
<1> HIDE DEF o, x, c, d
<1>7. /\ q \in Seq(Task)
      /\ \A k : HasTask(q, k) <=> HasTask(o.tasks, k) \/ x.kind = k
      /\ \A j \in DOMAIN q : (j \in DOMAIN o.tasks /\ q[j] = o.tasks[j]) \/ q[j] = x
  BY <1>2, <1>5, SeqFacts, AppendFacts, HasTaskAppend
<1>8. q = Append(o.tasks, x) OBVIOUS
<1> HIDE DEF q
<1>9. /\ s \in Session /\ s.ui = o.ui /\ s.room = o.room
      /\ s.coming = o.coming /\ s.target = o.target
      /\ s.stray = d /\ s.end = o.end /\ s.local = o.local
      /\ s.factory = o.factory /\ s.state = o.state /\ s.peer = o.peer
      /\ s.tasks = q
  BY <1>2, <1>4, <1>7 DEF Session
<1> HIDE DEF s
<1>10. \A j \in DOMAIN s.tasks : s.tasks[j].kind = "peers" => s.tasks[j].who # u
  BY <1>2, <1>5, <1>7, <1>9 DEF Keeps
<1>11. Keeps(u, o, s)
  <2>1. /\ HasTask(s.tasks, "create") => HasTask(o.tasks, "create")
        /\ HasTask(s.tasks, "leave") => HasTask(o.tasks, "leave")
    BY <1>5, <1>7, <1>9
  <2>2. EntersWithScreen(s) BY <1>2, <1>6, <1>9, <2>1 DEF Keeps, EntersWithScreen
  <2> QED BY <1>2, <1>6, <1>9, <1>10, <2>2 DEF Keeps, Undisturbed
<1>12. ASSUME Undisturbed(s) PROVE Prepared(s, inbox[u], RoomsOf(u))
  <2>1. Prepared(o, inbox[u], RoomsOf(u))
    BY <1>2, <1>6, <1>9, <1>12 DEF Undisturbed
  <2>2. x.kind \notin Entering BY <1>5 DEF Entering
  <2>3. s.state = "Connected" =>
          s.peer = "open" /\ s.local = "live" /\ o.room \in RoomsOf(u)
    BY <1>9, <2>1 DEF Prepared
  <2>4. inbox[u] \in Seq(Msg) BY DEF IInv, TypeOK
  <2> QED BY <1>2, <1>5, <1>8, <1>9, <2>1, <2>2, <2>3, <2>4, PreparedStep
<1>13. ses' \in [User -> Seq(Session)] /\ PhonesOK(ses')
  BY <1>2, <1>3, <1>9, <1>11, <1>12, RewrittenOnly
<1> QED BY <1>1, <1>13, SilentSetup, SetupKept

LEMMA AcceptSetup ==
  ASSUME IInv, SetupInv, NEW u \in User, NEW i \in DOMAIN ses[u], Accept(u, i)
  PROVE  SetupInv'
<1>1. CASE Current(u).state = "Incoming" BY <1>1, JoinPostedSetup
<1>2. CASE Current(u).state # "Incoming"
  <2> DEFINE c == ses[u][i].clicks + 1
  <2>1. /\ alive[u] /\ ses[u][i].clicks < MaxClicks
        /\ SetSession(u, i, [ses[u][i] EXCEPT !.ui = "closed", !.clicks = c])
        /\ UNCHANGED <<alive, died>> /\ UNCHANGED net
    BY <1>2 DEF Accept, OnTop, HasSession
  <2>2. ses[u][i] \in Session BY <2>1, SessionFacts
  <2>3. c \in 0 .. MaxClicks
    BY <2>1, <2>2, ConstantsAssumption DEF Session, ConstantsAssumption
  <2>4. "closed" \in Ui BY DEF Ui
  <2> HIDE DEF c
  <2> QED BY <2>1, <2>3, <2>4, ScreenSetup
<1> QED BY <1>1, <1>2

\* The tasks endCall posts know of no room.
LEMMA PostedTasks ==
  ASSUME NEW s \in Session
  PROVE  LET p == PostEach(s, EndTasks(s)).tasks IN
         \A j \in DOMAIN p :
           \/ \E l \in DOMAIN s.tasks : p[j] = s.tasks[l]
           \/ p[j].kind \in {"refuse", "cancel", "leave", "release"}
<1> DEFINE ks == EndTasks(s)
           q  == [j \in DOMAIN ks |-> NewTask(ks[j], Nobody)]
           p  == s.tasks \o q
           K  == {"refuse", "cancel", "leave", "release"}
<1>1. ks \in Seq(K)
  <2>1. /\ <<"refuse">> \in Seq(K) /\ <<"cancel">> \in Seq(K)
        /\ <<"leave", "release">> \in Seq(K)
    OBVIOUS
  <2> HIDE DEF K
  <2> QED BY <2>1 DEF EndTasks
<1>2. q \in Seq(Task) /\ \A j \in DOMAIN q : q[j].kind \in K
  <2> HIDE DEF ks
  <2>1. /\ Len(ks) \in Nat /\ DOMAIN ks = 1 .. Len(ks)
        /\ \A j \in DOMAIN ks : ks[j] \in K
    BY <1>1, LenProperties, ElementOfSeq
  <2>2. \A j \in DOMAIN ks : /\ NewTask(ks[j], Nobody) \in Task
                             /\ NewTask(ks[j], Nobody).kind \in K
    BY <2>1 DEF NewTask, Task
  <2> HIDE DEF K
  <2> QED BY <2>1, <2>2
<1>3. PostEach(s, ks).tasks = p BY DEF PostEach, Session
<1>4. s.tasks \in Seq(Task) BY DEF Session
<1> HIDE DEF ks, q
<1>5. \A j \in DOMAIN p :
        (\E l \in DOMAIN s.tasks : p[j] = s.tasks[l]) \/ p[j].kind \in K
  <2>1. p \in Seq(Task) /\ Len(p) = Len(s.tasks) + Len(q)
        /\ \A j \in 1 .. Len(s.tasks) + Len(q) :
             p[j] = IF j <= Len(s.tasks) THEN s.tasks[j] ELSE q[j - Len(s.tasks)]
    BY <1>2, <1>4, ConcatProperties
  <2>2. /\ Len(s.tasks) \in Nat /\ DOMAIN s.tasks = 1 .. Len(s.tasks)
        /\ Len(q) \in Nat /\ DOMAIN q = 1 .. Len(q) /\ DOMAIN p = 1 .. Len(p)
    BY <1>2, <1>4, <2>1, LenProperties
  <2> SUFFICES ASSUME NEW j \in DOMAIN p
               PROVE  (\E l \in DOMAIN s.tasks : p[j] = s.tasks[l])
                      \/ p[j].kind \in K
    OBVIOUS
  <2> HIDE DEF p, K
  <2>3. CASE j <= Len(s.tasks) BY <2>1, <2>2, <2>3
  <2>4. CASE ~(j <= Len(s.tasks))
    <3>1. j - Len(s.tasks) \in DOMAIN q /\ p[j] = q[j - Len(s.tasks)]
      BY <2>1, <2>2, <2>4
    <3> QED BY <1>2, <3>1
  <2> QED BY <2>3, <2>4
<1> HIDE DEF p
<1> QED BY <1>3, <1>5 DEF ks

\* The hang-up button: the call is over when its leave is posted.
LEMMA HangUpSetup ==
  ASSUME IInv, SetupInv, NEW u \in User, NEW i \in DOMAIN ses[u], HangUp(u, i)
  PROVE  SetupInv'
<1> DEFINE o == Current(u)
           p == PostEach(o, EndTasks(o))
           e == IF EndTasks(o) = <<"cancel">> THEN "cancelled" ELSE "hungUp"
           b == i # Cur(u)
           s == [p EXCEPT !.end = e, !.stray = @ \/ b]
<1>1. /\ HasSession(u) /\ SetSession(u, Cur(u), s)
      /\ UNCHANGED <<alive, died>> /\ UNCHANGED net
  BY DEF HangUp, OnTop
<1>2. /\ alive[u] /\ Cur(u) \in DOMAIN ses[u] /\ o = ses[u][Cur(u)]
      /\ o \in Session /\ Keeps(u, o, o)
  BY <1>1, CurrentFacts
<1>3. p \in Session /\ p = [o EXCEPT !.tasks = p.tasks]
  BY <1>2, PostEachType
<1>4. \A j \in DOMAIN p.tasks :
        \/ \E l \in DOMAIN o.tasks : p.tasks[j] = o.tasks[l]
        \/ p.tasks[j].kind \in {"refuse", "cancel", "leave", "release"}
  BY <1>2, PostedTasks
<1>5. e \in End /\ e # "no" /\ b \in BOOLEAN BY DEF End
<1> HIDE DEF o, p, e, b
<1>6. /\ p.ui = o.ui /\ p.stray = o.stray /\ p.room = o.room
      /\ p.coming = o.coming /\ p.target = o.target /\ p.local = o.local
  BY <1>2, <1>3 DEF Session
<1>7. (p.stray \/ b) \in BOOLEAN BY <1>3, <1>5 DEF Session
<1>8. /\ s \in Session /\ s.tasks = p.tasks /\ s.end = e /\ s.ui = o.ui
      /\ s.stray = (o.stray \/ b) /\ s.room = o.room /\ s.coming = o.coming
      /\ s.target = o.target /\ s.local = o.local
  BY <1>3, <1>5, <1>6, <1>7 DEF Session
<1> HIDE DEF s
<1>9. ~Undisturbed(s) BY <1>5, <1>8 DEF Undisturbed
<1>10. Keeps(u, o, s)
  <2>1. \A j \in DOMAIN s.tasks : s.tasks[j].kind = "peers" => s.tasks[j].who # u
    BY <1>2, <1>4, <1>8 DEF Keeps
  <2>2. \A k \in {"create", "join"} :
          HasTask(s.tasks, k) => HasTask(o.tasks, k)
    BY <1>4, <1>8 DEF HasTask
  <2>3. EntersWithScreen(s)
    BY <1>2, <1>5, <1>8, <2>2 DEF Keeps, EntersWithScreen
  <2> QED BY <1>2, <1>8, <1>9, <2>1, <2>3 DEF Keeps
<1>11. ses' \in [User -> Seq(Session)] /\ PhonesOK(ses')
  BY <1>1, <1>2, <1>8, <1>9, <1>10, RewrittenOnly
<1> QED BY <1>1, <1>11, SilentSetup, SetupKept

\* endCall writes Idle: the call is over.
LEMMA HangUpIdleSetup ==
  ASSUME IInv, SetupInv, NEW u \in User, HangUpIdle(u)
  PROVE  SetupInv'
<1> DEFINE o == Current(u)
           s == [o EXCEPT !.state = "Idle"]
<1>1. /\ HasSession(u) /\ main[u].at = "idle" /\ SetSession(u, Cur(u), s)
      /\ UNCHANGED <<alive, died>> /\ UNCHANGED net
  BY DEF HangUpIdle
<1>2. /\ alive[u] /\ Cur(u) \in DOMAIN ses[u] /\ o = ses[u][Cur(u)]
      /\ o \in Session /\ Keeps(u, o, o)
  BY <1>1, CurrentFacts
<1>3. o.end # "no" BY <1>1 DEF IInv, ClosesOnTime
<1> HIDE DEF o
<1>4. /\ s \in Session /\ s.tasks = o.tasks /\ s.end = o.end /\ s.ui = o.ui
      /\ s.stray = o.stray /\ s.room = o.room /\ s.coming = o.coming
      /\ s.target = o.target /\ s.local = o.local
  BY <1>2 DEF Session, State
<1> HIDE DEF s
<1>5. Keeps(u, o, s) /\ ~Undisturbed(s)
  BY <1>2, <1>3, <1>4 DEF Keeps, EntersWithScreen, Undisturbed
<1>6. ses' \in [User -> Seq(Session)] /\ PhonesOK(ses')
  BY <1>1, <1>2, <1>4, <1>5, RewrittenOnly
<1> QED BY <1>1, <1>6, SilentSetup, SetupKept

LEMMA HangUpFinishSetup ==
  ASSUME IInv, SetupInv, NEW u \in User, NEW i \in DOMAIN ses[u],
         HangUpFinish(u, i)
  PROVE  SetupInv'
<1>1. "closed" \in Ui BY DEF Ui
<1> QED BY <1>1, UiSetup DEF HangUpFinish

\* A handler takes the first message and rewrites the current session.
LEMMA Handling ==
  ASSUME IInv, SetupInv, NEW u \in User, HasSession(u), inbox[u] # <<>>,
         Handled(u), NEW s \in Session, Keeps(u, Current(u), s),
         SetSession(u, Cur(u), s),
         Undisturbed(s) => Prepared(s, Tail(inbox[u]), RoomsOf(u))
  PROVE  SetupInv'
<1> DEFINE p == Tail(inbox[u])
<1>1. /\ alive[u] /\ Cur(u) \in DOMAIN ses[u] /\ Current(u) = ses[u][Cur(u)]
  BY CurrentFacts
<1>2. /\ inbox \in [User -> Seq(Msg)] /\ inbox[u] \in Seq(Msg) /\ p \in Seq(Msg)
  BY SeqFacts DEF IInv, TypeOK
<1>3. /\ inbox' = [inbox EXCEPT ![u] = p]
      /\ UNCHANGED <<alive, died, invites, members>>
  BY DEF Handled
<1>4. \A v \in User : alive[v] =>
        PhoneOK(v, ses'[v], IF v = u THEN p ELSE inbox[v], invites[v], RoomsOf(v))
  BY <1>1, <1>2, Rewritten
<1> HIDE DEF p
<1>5. \A v \in User : /\ inbox'[v] = IF v = u THEN p ELSE inbox[v]
                      /\ invites'[v] = invites[v] /\ RoomsOf(v)' = RoomsOf(v)
  BY <1>2, <1>3 DEF RoomsOf
<1> QED BY <1>3, <1>4, <1>5, SetupKept

\* The session a message has been shown to, and what the message was if that
\* has not disturbed it.
LEMMA TouchedFacts ==
  ASSUME IInv, SetupInv, NEW u \in User, HasSession(u), inbox[u] # <<>>
  PROVE  LET o == Current(u)
             s == Touched(u)
             m == Head(inbox[u])
         IN /\ s \in Session /\ m \in Msg
            /\ s.room = o.room /\ s.coming = o.coming /\ s.target = o.target
            /\ s.tasks = o.tasks /\ s.end = o.end /\ s.local = o.local
            /\ s.factory = o.factory /\ s.state = o.state /\ s.peer = o.peer
            /\ s.ui = o.ui
            /\ ~s.stray => ~o.stray /\ m.room = o.room
            /\ m.kind = "peers" => m.from # u
            /\ Undisturbed(s) /\ m.kind \in Entering => o.ui # "none"
<1> DEFINE o == Current(u)
           m == Head(inbox[u])
           b == o.stray \/ m.room # o.room
           s == [o EXCEPT !.stray = b]
<1>1. /\ alive[u] /\ Cur(u) \in DOMAIN ses[u] /\ o = ses[u][Cur(u)]
      /\ o \in Session
  BY CurrentFacts
<1>2. inbox[u] \in Seq(Msg) BY DEF IInv, TypeOK
<1>3. m \in Msg /\ m = inbox[u][1] /\ 1 \in DOMAIN inbox[u]
  BY <1>2, SeqFacts
<1>4. b \in BOOLEAN BY <1>1 DEF Session
<1>5. Touched(u) = s BY DEF Touched
<1>6. PhoneOK(u, ses[u], inbox[u], invites[u], RoomsOf(u))
  BY <1>1 DEF SetupInv
<1>7. m.kind = "peers" => m.from # u BY <1>3, <1>6 DEF PhoneOK
<1>8. ASSUME Undisturbed(o), m.room = o.room, m.kind \in Entering
      PROVE  o.ui # "none"
  <2>1. HasMsg(inbox[u], m.kind, o.room) /\ o.room \in Room
    <3>1. o.room \in Room BY <1>1 DEF Session
    <3> QED BY <1>3, <1>8, <3>1 DEF HasMsg
  <2>2. PICK j \in DOMAIN ses[u] :
          ses[u][j].room = o.room /\ (ses[u][j].ui # "none" \/ ses[u][j].stray)
    <3>1. HasMsg(inbox[u], "peers", o.room) \/ HasMsg(inbox[u], "newPeer", o.room)
      BY <1>8, <2>1 DEF Entering
    <3> QED BY <1>6, <2>1, <3>1 DEF PhoneOK
  <2>3. j = Cur(u) BY <1>1, <1>8, <2>2, SessionFacts
  <2> QED BY <1>1, <1>8, <2>2, <2>3 DEF Undisturbed
<1> HIDE DEF o, m, b
<1>9. /\ s \in Session /\ s.stray = b
      /\ s.room = o.room /\ s.coming = o.coming /\ s.target = o.target
      /\ s.tasks = o.tasks /\ s.end = o.end /\ s.local = o.local
      /\ s.factory = o.factory /\ s.state = o.state /\ s.peer = o.peer
      /\ s.ui = o.ui
  BY <1>1, <1>4 DEF Session
<1>10. ~s.stray => ~o.stray /\ m.room = o.room BY <1>9 DEF b
<1> HIDE DEF s
<1>11. Undisturbed(s) /\ m.kind \in Entering => o.ui # "none"
  BY <1>8, <1>9, <1>10 DEF Undisturbed
<1> QED BY <1>3, <1>5, <1>7, <1>9, <1>10, <1>11 DEF o, m

\* onJoinHome, newPeer: the message becomes a task.
LEMMA HandlePostingSetup ==
  ASSUME IInv, SetupInv, NEW u \in User, NEW k \in Entering, HandlePosting(u, k)
  PROVE  SetupInv'
<1> DEFINE o == Current(u)
           r == Touched(u)
           m == Head(inbox[u])
           x == NewTask(k, m.from)
           s == [r EXCEPT !.tasks = Append(@, x)]
<1>1. /\ HasSession(u) /\ inbox[u] # <<>> /\ m.kind = k
      /\ SetSession(u, Cur(u), Post(r, k, m.from)) /\ Handled(u)
  BY DEF HandlePosting, Receives
<1>2. /\ alive[u] /\ o \in Session /\ o.tasks \in Seq(Task) /\ Keeps(u, o, o)
      /\ Undisturbed(o) => Prepared(o, inbox[u], RoomsOf(u))
  BY <1>1, CurrentFacts
<1>3. /\ r \in Session /\ m \in Msg
      /\ r.room = o.room /\ r.coming = o.coming /\ r.target = o.target
      /\ r.tasks = o.tasks /\ r.end = o.end /\ r.local = o.local
      /\ r.factory = o.factory /\ r.state = o.state /\ r.peer = o.peer
      /\ r.ui = o.ui
      /\ ~r.stray => ~o.stray /\ m.room = o.room
      /\ m.kind = "peers" => m.from # u
      /\ Undisturbed(r) /\ m.kind \in Entering => o.ui # "none"
  BY <1>1, TouchedFacts
<1>4. SetSession(u, Cur(u), s) BY <1>1 DEF Post
<1> HIDE DEF o, r, m
<1>5. x \in Task /\ x.kind = k /\ x.who = m.from
  BY <1>3 DEF NewTask, Task, Msg, Entering
<1> HIDE DEF x
<1>6. /\ Append(o.tasks, x) \in Seq(Task)
      /\ \A l : HasTask(Append(o.tasks, x), l) <=> HasTask(o.tasks, l) \/ x.kind = l
      /\ \A j \in DOMAIN Append(o.tasks, x) :
           \/ j \in DOMAIN o.tasks /\ Append(o.tasks, x)[j] = o.tasks[j]
           \/ Append(o.tasks, x)[j] = x
  BY <1>2, <1>5, SeqFacts, AppendFacts, HasTaskAppend
<1>7. /\ s \in Session /\ s.tasks = Append(o.tasks, x) /\ s.stray = r.stray
      /\ s.room = o.room /\ s.coming = o.coming /\ s.target = o.target
      /\ s.end = o.end /\ s.local = o.local
      /\ s.factory = o.factory /\ s.state = o.state /\ s.peer = o.peer
      /\ s.ui = o.ui
  BY <1>3, <1>6 DEF Session
<1> HIDE DEF s
<1>8. Keeps(u, o, s)
  <2>1. \A j \in DOMAIN s.tasks : s.tasks[j].kind = "peers" => s.tasks[j].who # u
    BY <1>1, <1>2, <1>3, <1>5, <1>6, <1>7 DEF Keeps
  <2>2. x.kind \notin {"create", "join", "leave"} BY <1>5 DEF Entering
  <2>3. EntersWithScreen(s)
    BY <1>2, <1>3, <1>6, <1>7, <2>2 DEF Keeps, EntersWithScreen
  <2> QED BY <1>2, <1>3, <1>7, <2>1, <2>3 DEF Keeps, Undisturbed
<1>9. ASSUME Undisturbed(s) PROVE Prepared(s, Tail(inbox[u]), RoomsOf(u))
  <2>1. Undisturbed(o) /\ Undisturbed(r) /\ m.room = o.room
    BY <1>3, <1>7, <1>9 DEF Undisturbed
  <2>2. Prepared(o, inbox[u], RoomsOf(u)) /\ o.ui # "none"
    BY <1>1, <1>2, <1>3, <2>1
  <2>3. inbox[u] \in Seq(Msg) BY DEF IInv, TypeOK
  <2>4. Head(inbox[u]).kind \in Entering /\ Head(inbox[u]).room = o.room
        /\ x.kind = Head(inbox[u]).kind
    BY <1>1, <1>5, <2>1 DEF m
  <2> QED BY <1>1, <1>2, <1>5, <1>7, <2>2, <2>3, <2>4, PreparedPost
<1> QED BY <1>1, <1>4, <1>7, <1>8, <1>9, Handling DEF o

\* onRing, and the messages that end a call.
LEMMA OnRingSetup ==
  ASSUME IInv, SetupInv, NEW u \in User, OnRing(u)
  PROVE  SetupInv'
<1> DEFINE o == Current(u)
           s == Touched(u)
           m == Head(inbox[u])
<1>1. /\ HasSession(u) /\ inbox[u] # <<>> /\ m.kind = "ring"
      /\ SetSession(u, Cur(u), s) /\ Handled(u)
  BY DEF OnRing, Receives
<1>2. /\ alive[u] /\ o \in Session /\ Keeps(u, o, o)
      /\ Undisturbed(o) => Prepared(o, inbox[u], RoomsOf(u))
  BY <1>1, CurrentFacts
<1>3. /\ s \in Session /\ m \in Msg
      /\ s.room = o.room /\ s.coming = o.coming /\ s.target = o.target
      /\ s.tasks = o.tasks /\ s.end = o.end /\ s.local = o.local
      /\ s.factory = o.factory /\ s.state = o.state /\ s.peer = o.peer
      /\ s.ui = o.ui
      /\ ~s.stray => ~o.stray /\ m.room = o.room
  BY <1>1, TouchedFacts
<1> HIDE DEF o, s
<1>4. Keeps(u, o, s)
  BY <1>2, <1>3 DEF Keeps, Undisturbed, EntersWithScreen
<1>5. ASSUME Undisturbed(s) PROVE Prepared(s, Tail(inbox[u]), RoomsOf(u))
  <2>1. Prepared(o, inbox[u], RoomsOf(u))
    BY <1>2, <1>3, <1>5 DEF Undisturbed
  <2>2. Prepared(o, Tail(inbox[u]), RoomsOf(u))
    <3>1. inbox[u] \in Seq(Msg) BY DEF IInv, TypeOK
    <3>2. Head(inbox[u]).kind \notin Entering BY <1>1 DEF m, Entering
    <3> QED BY <1>1, <1>2, <2>1, <3>1, <3>2, PreparedDrop
  <2> QED BY <1>3, <2>2 DEF Prepared
<1> QED BY <1>1, <1>3, <1>4, <1>5, Handling DEF o

LEMMA HandleEndingSetup ==
  ASSUME IInv, SetupInv, NEW u \in User, NEW k, HandleEnding(u, k)
  PROVE  SetupInv'
<1> DEFINE o == Current(u)
           r == Touched(u)
           x == NewTask("release", Nobody)
           e == IF r.end = "no" THEN "over" ELSE r.end
           s == [r EXCEPT !.tasks = Append(@, x), !.end = e]
<1>1. /\ HasSession(u) /\ inbox[u] # <<>> /\ Handled(u)
      /\ SetSession(u, Cur(u), [Post(r, "release", Nobody) EXCEPT
                                  !.end = IF @ = "no" THEN "over" ELSE @])
  BY DEF HandleEnding, Receives
<1>2. /\ alive[u] /\ o \in Session /\ o.tasks \in Seq(Task) /\ Keeps(u, o, o)
  BY <1>1, CurrentFacts
<1>3. /\ r \in Session
      /\ r.room = o.room /\ r.coming = o.coming /\ r.target = o.target
      /\ r.tasks = o.tasks /\ r.end = o.end /\ r.local = o.local /\ r.ui = o.ui
      /\ ~r.stray => ~o.stray
  BY <1>1, TouchedFacts
<1> HIDE DEF o, r
<1>4. SetSession(u, Cur(u), s)
  <2>1. [Post(r, "release", Nobody) EXCEPT !.end = IF @ = "no" THEN "over" ELSE @]
          = s
    BY <1>3 DEF Post, Session
  <2> QED BY <1>1, <2>1
<1>5. x \in Task /\ x.kind = "release" BY DEF NewTask, Task
<1>6. e \in End /\ e # "no" BY <1>3 DEF Session, End
<1> HIDE DEF x, e
<1>7. /\ Append(o.tasks, x) \in Seq(Task)
      /\ \A l : HasTask(Append(o.tasks, x), l) <=> HasTask(o.tasks, l) \/ x.kind = l
      /\ \A j \in DOMAIN Append(o.tasks, x) :
           \/ j \in DOMAIN o.tasks /\ Append(o.tasks, x)[j] = o.tasks[j]
           \/ Append(o.tasks, x)[j] = x
  BY <1>2, <1>5, SeqFacts, AppendFacts, HasTaskAppend
<1>8. /\ s \in Session /\ s.tasks = Append(o.tasks, x) /\ s.end # "no"
      /\ s.room = o.room /\ s.coming = o.coming /\ s.target = o.target
      /\ s.local = o.local /\ s.ui = o.ui /\ s.stray = r.stray
  BY <1>3, <1>6, <1>7 DEF Session
<1> HIDE DEF s
<1>9. ~Undisturbed(s) BY <1>8 DEF Undisturbed
<1>10. Keeps(u, o, s)
  <2>1. \A j \in DOMAIN s.tasks : s.tasks[j].kind = "peers" => s.tasks[j].who # u
    BY <1>2, <1>5, <1>7, <1>8 DEF Keeps
  <2>2. EntersWithScreen(s)
    BY <1>2, <1>3, <1>5, <1>7, <1>8 DEF Keeps, EntersWithScreen
  <2> QED BY <1>2, <1>3, <1>8, <1>9, <2>1, <2>2 DEF Keeps
<1> QED BY <1>1, <1>4, <1>8, <1>9, <1>10, Handling DEF o

-----------------------------------------------------------------------------
(* The executors.                                                          *)

\* A process dies of a call that is over, or was disturbed.
LEMMA DieSetup ==
  ASSUME IInv, SetupInv, NEW u \in User, NEW i \in DOMAIN ses[u], NEW k,
         Die(u, i, k), ~Undisturbed(ses[u][i])
  PROVE  SetupInv'
<1>1. PhoneType /\ NetType /\ SesInv BY IInvParts
<1>2. /\ alive' = [alive EXCEPT ![u] = FALSE]
      /\ died'[u] = [task |-> k, stray |-> ses[u][i].stray, end |-> ses[u][i].end]
      /\ \A v \in User \ {u} : died'[v] = died[v]
  BY <1>1 DEF Die, PhoneType
<1>3. \A v \in User : alive'[v] <=> alive[v] /\ v # u
  BY <1>1, <1>2 DEF PhoneType
<1>4. SetupNeverFatal'
  <2> SUFFICES ASSUME NEW v \in User, ~alive'[v]
               PROVE  died'[v].stray \/ died'[v].end # "no"
    BY DEF SetupNeverFatal
  <2>1. CASE v = u BY <1>2, <2>1 DEF Undisturbed
  <2>2. CASE v # u BY <1>2, <1>3, <2>2 DEF SetupInv, SetupNeverFatal
  <2> QED BY <2>1, <2>2
<1>5. ASSUME NEW v \in User, alive'[v]
      PROVE  PhoneOK(v, ses'[v], inbox'[v], invites'[v], RoomsOf(v)')
  <2>1. v # u /\ alive[v] BY <1>3, <1>5
  <2>2. /\ ses'[v] = ses[v] /\ inbox'[v] = inbox[v]
        /\ invites'[v] = invites[v] /\ RoomsOf(v)' = RoomsOf(v)
    BY <1>1, <2>1 DEF Die, NetType, SesInv, RoomsOf
  <2> QED BY <2>1, <2>2 DEF SetupInv
<1> QED BY <1>4, <1>5 DEF SetupInv

\* The session of a task.
LEMMA TaskFacts ==
  ASSUME IInv, SetupInv, NEW u \in User, NEW i \in DOMAIN ses[u], NEW k,
         Running(u, i, k)
  PROVE  LET o == ses[u][i] IN
         /\ alive[u] /\ NetType /\ o \in Session /\ o.tasks \in Seq(Task)
         /\ o.tasks # <<>> /\ Head(o.tasks) \in Task /\ Head(o.tasks).kind = k
         /\ HasTask(o.tasks, k) /\ Keeps(u, o, o)
         /\ o.room \in Room /\ o.target \in User
         /\ k \in {"release", "close"} => o.end # "no"
         /\ k = "peers" => Head(o.tasks).who # u
         /\ ~o.coming => o.room[1] = u
         /\ Undisturbed(o) => Prepared(o, inbox[u], RoomsOf(u))
<1> DEFINE o == ses[u][i]
<1>1. alive[u] /\ o.tasks # <<>> /\ Head(o.tasks).kind = k BY DEF Running
<1>2. NetType /\ SesInv BY IInvParts
<1>3. /\ o \in Session /\ Keeps(u, o, o)
      /\ ~o.coming => o.room[1] = u
      /\ Undisturbed(o) => Prepared(o, inbox[u], RoomsOf(u))
  BY <1>1, SessionFacts
<1>4. o.tasks \in Seq(Task) /\ o.room \in Room /\ o.target \in User
  BY <1>3 DEF Session
<1>5. /\ Head(o.tasks) = o.tasks[1] /\ 1 \in DOMAIN o.tasks
      /\ Head(o.tasks) \in Task
  BY <1>1, <1>4, SeqFacts
<1>6. HasTask(o.tasks, k) BY <1>1, <1>5 DEF HasTask
<1>7. k = "peers" => Head(o.tasks).who # u BY <1>1, <1>3, <1>5 DEF Keeps
<1>8. k \in {"release", "close"} => o.end # "no"
  BY <1>2, RunningType DEF EndsInOrder
<1> QED BY <1>1, <1>2, <1>3, <1>4, <1>5, <1>6, <1>7, <1>8

\* A task that leaves the session as it is.
LEMMA TalkingSetup ==
  ASSUME IInv, SetupInv, NEW u \in User, NEW i \in DOMAIN ses[u],
         NEW k, Running(u, i, k), k # "peers", Done(u, i, ses[u][i])
  PROVE  /\ ses' \in [User -> Seq(Session)] /\ PhonesOK(ses')
         /\ i \in DOMAIN ses'[u]
         /\ ses'[u][i].room = ses[u][i].room /\ ses'[u][i].ui = ses[u][i].ui
         /\ ses'[u][i].end = ses[u][i].end /\ ses'[u][i].stray = ses[u][i].stray
         /\ UNCHANGED <<alive, died>>
<1> DEFINE o == ses[u][i]
<1>1. /\ o \in Session /\ Keeps(u, o, o)
      /\ Undisturbed(o) => Prepared(o, inbox[u], RoomsOf(u))
  BY TaskFacts
<1>2. SetSession(u, i, Rest(o)) /\ UNCHANGED <<alive, died>>
  BY DEF Done
<1>3. Undisturbed(o) /\ o.state = "Connected" =>
        o.peer = "open" /\ o.local = "live" /\ o.room \in RoomsOf(u)
  BY <1>1 DEF Prepared
<1>4. ses' \in [User -> Seq(Session)] /\ PhonesOK(ses')
  BY <1>1, <1>2, <1>3, TaskRewritten
<1>5. i \in DOMAIN ses'[u] /\ ses'[u][i] = Rest(o)
  <2>1. ses \in [User -> Seq(Session)] /\ i \in DOMAIN ses[u]
    BY DEF IInv, TypeOK
  <2> HIDE DEF o
  <2>2. ses' = [ses EXCEPT ![u][i] = Rest(o)] BY <1>2 DEF SetSession
  <2> QED BY <2>1, <2>2
<1>6. /\ Rest(o).room = o.room /\ Rest(o).ui = o.ui
      /\ Rest(o).end = o.end /\ Rest(o).stray = o.stray
  <2> HIDE DEF o
  <2> QED BY <1>1 DEF Rest, Session
<1> QED BY <1>2, <1>4, <1>5, <1>6

LEMMA TaskCreateSetup ==
  ASSUME IInv, SetupInv, NEW u \in User, NEW i \in DOMAIN ses[u], TaskCreate(u, i)
  PROVE  SetupInv'
<1> DEFINE o == ses[u][i]
<1>1. /\ Running(u, i, "create") /\ ServerEnter(u, o.room) /\ Done(u, i, o)
  BY DEF TaskCreate
<1>2. /\ NetType /\ o.room \in Room /\ HasTask(o.tasks, "create") /\ Keeps(u, o, o)
  BY <1>1, TaskFacts
<1>3. o.ui # "none" \/ o.stray BY <1>2 DEF Keeps, EntersWithScreen
<1>4. /\ ses' \in [User -> Seq(Session)] /\ PhonesOK(ses')
      /\ i \in DOMAIN ses'[u] /\ ses'[u][i].room = o.room
      /\ ses'[u][i].ui = o.ui /\ ses'[u][i].stray = o.stray
      /\ UNCHANGED <<alive, died>>
  BY <1>1, TalkingSetup
<1> HIDE DEF o
<1>5. \A v \in User : alive[v] =>
        PhoneOK(v, ses'[v], inbox'[v], invites'[v], RoomsOf(v)')
  BY <1>1, <1>2, <1>3, <1>4, EnterSetup
<1> QED BY <1>4, <1>5, SetupKept

LEMMA TaskRingBackSetup ==
  ASSUME IInv, SetupInv, NEW u \in User, NEW i \in DOMAIN ses[u],
         TaskRingBack(u, i)
  PROVE  SetupInv'
<1> DEFINE o == ses[u][i]
<1>1. /\ Running(u, i, "ringBack") /\ Relay("ring", u, o.target, o.room)
      /\ Done(u, i, o)
  BY DEF TaskRingBack
<1>2. NetType /\ o.room \in Room /\ o.target \in User BY <1>1, TaskFacts
<1>3. ses' \in [User -> Seq(Session)] /\ PhonesOK(ses') /\ UNCHANGED <<alive, died>>
  BY <1>1, TalkingSetup
<1> HIDE DEF o
<1>4. \A v \in User : alive[v] =>
        PhoneOK(v, ses'[v], inbox'[v], invites'[v], RoomsOf(v)')
  BY <1>1, <1>2, <1>3, RelaySetup DEF Relay
<1> QED BY <1>3, <1>4, SetupKept

LEMMA TaskRefuseSetup ==
  ASSUME IInv, SetupInv, NEW u \in User, NEW i \in DOMAIN ses[u], TaskRefuse(u, i)
  PROVE  SetupInv'
<1> DEFINE o == ses[u][i]
<1>1. /\ Running(u, i, "refuse") /\ Relay("reject", u, o.target, o.room)
      /\ Done(u, i, o)
  BY DEF TaskRefuse
<1>2. NetType /\ o.room \in Room /\ o.target \in User BY <1>1, TaskFacts
<1>3. ses' \in [User -> Seq(Session)] /\ PhonesOK(ses') /\ UNCHANGED <<alive, died>>
  BY <1>1, TalkingSetup
<1> HIDE DEF o
<1>4. \A v \in User : alive[v] =>
        PhoneOK(v, ses'[v], inbox'[v], invites'[v], RoomsOf(v)')
  BY <1>1, <1>2, <1>3, RelaySetup DEF Relay
<1> QED BY <1>3, <1>4, SetupKept

LEMMA TaskCancelSetup ==
  ASSUME IInv, SetupInv, NEW u \in User, NEW i \in DOMAIN ses[u], TaskCancel(u, i)
  PROVE  SetupInv'
<1>1. Running(u, i, "cancel") /\ Done(u, i, ses[u][i]) /\ UNCHANGED net
  BY DEF TaskCancel
<1>2. ses' \in [User -> Seq(Session)] /\ PhonesOK(ses') /\ UNCHANGED <<alive, died>>
  BY <1>1, TalkingSetup
<1> QED BY <1>1, <1>2, SilentSetup, SetupKept

LEMMA TaskLeaveSetup ==
  ASSUME IInv, SetupInv, NEW u \in User, NEW i \in DOMAIN ses[u], TaskLeave(u, i)
  PROVE  SetupInv'
<1> DEFINE o == ses[u][i]
<1>1. Running(u, i, "leave") /\ ServerLeave(u, o.room) /\ Done(u, i, o)
  BY DEF TaskLeave
<1>2. NetType /\ o.room \in Room /\ HasTask(o.tasks, "leave") /\ Keeps(u, o, o)
  BY <1>1, TaskFacts
<1>3. o.end # "no" BY <1>2 DEF Keeps, EntersWithScreen
<1>4. /\ ses' \in [User -> Seq(Session)] /\ PhonesOK(ses')
      /\ i \in DOMAIN ses'[u] /\ ses'[u][i].room = o.room
      /\ ses'[u][i].end = o.end /\ UNCHANGED <<alive, died>>
  BY <1>1, TalkingSetup
<1> HIDE DEF o
<1>5. \A v \in User : alive[v] =>
        PhoneOK(v, ses'[v], inbox'[v], invites'[v], RoomsOf(v)')
  BY <1>1, <1>2, <1>3, <1>4, LeaveSetup
<1> QED BY <1>4, <1>5, SetupKept

\* The room is entered from a session that was accepted, so it has a screen,
\* unless that of another call was pressed.
LEMMA TaskJoinSetup ==
  ASSUME IInv, SetupInv, NEW u \in User, NEW i \in DOMAIN ses[u], TaskJoin(u, i)
  PROVE  SetupInv'
<1> DEFINE o == ses[u][i]
           t == [o EXCEPT !.state = "Connecting"]
<1>1. /\ Running(u, i, "join") /\ ServerEnter(u, o.room) /\ Done(u, i, t)
  BY DEF TaskJoin
<1>2. /\ NetType /\ o \in Session /\ o.room \in Room /\ HasTask(o.tasks, "join")
      /\ Keeps(u, o, o)
  BY <1>1, TaskFacts
<1>3. o.ui # "none" \/ o.stray BY <1>2 DEF Keeps, EntersWithScreen
<1>4. o = ses[u][i] OBVIOUS
<1> HIDE DEF o
<1>5. /\ t \in Session /\ t.state = "Connecting" /\ t.tasks = o.tasks
      /\ t.room = o.room /\ t.coming = o.coming /\ t.target = o.target
      /\ t.ui = o.ui /\ t.end = o.end /\ t.stray = o.stray
      /\ t.local = o.local /\ t.factory = o.factory
  BY <1>2 DEF Session, State
<1> HIDE DEF t
<1>6. Keeps(u, o, t)
  BY <1>2, <1>5 DEF Keeps, Undisturbed, EntersWithScreen
<1>7. SetSession(u, i, Rest(t)) /\ UNCHANGED <<alive, died>>
  BY <1>1 DEF Done
<1>8. ses' \in [User -> Seq(Session)] /\ PhonesOK(ses')
  BY <1>1, <1>4, <1>5, <1>6, <1>7, TaskRewritten
<1>9. /\ i \in DOMAIN ses'[u] /\ ses'[u][i].room = o.room
      /\ ses'[u][i].ui = o.ui /\ ses'[u][i].stray = o.stray
  <2>1. ses \in [User -> Seq(Session)] /\ i \in DOMAIN ses[u]
    BY DEF IInv, TypeOK
  <2>2. ses' = [ses EXCEPT ![u][i] = Rest(t)] BY <1>7 DEF SetSession
  <2>3. i \in DOMAIN ses'[u] /\ ses'[u][i] = Rest(t) BY <2>1, <2>2
  <2>4. Rest(t).room = t.room /\ Rest(t).ui = t.ui /\ Rest(t).stray = t.stray
    BY <1>5 DEF Rest, Session
  <2> QED BY <1>5, <2>3, <2>4
<1>10. \A v \in User : alive[v] =>
         PhoneOK(v, ses'[v], inbox'[v], invites'[v], RoomsOf(v)')
  BY <1>1, <1>2, <1>3, <1>8, <1>9, EnterSetup
<1> QED BY <1>7, <1>10, SetupKept

\* release runs only for a call that is over, so it may fail.
LEMMA TaskReleaseSetup ==
  ASSUME IInv, SetupInv, NEW u \in User, NEW i \in DOMAIN ses[u], TaskRelease(u, i)
  PROVE  SetupInv'
<1> DEFINE o == ses[u][i]
           x == NewTask("close", Nobody)
           q == <<x>> \o Tail(o.tasks)
           t == [o EXCEPT !.local = "disposed", !.remote = "disposed",
                          !.peer = "closed", !.factory = FALSE,
                          !.state = "Idle", !.tasks = q]
<1>1. Running(u, i, "release") BY DEF TaskRelease
<1>2. /\ o \in Session /\ o.end # "no" /\ Keeps(u, o, o)
      /\ alive[u] /\ o.tasks # <<>> /\ o.tasks \in Seq(Task)
  BY <1>1, TaskFacts
<1>3. ~Undisturbed(o) BY <1>2 DEF Undisturbed
<1>4. CASE o.local = "live" /\ o.remote = "live" /\ o.peer # "none"
  <2>1. /\ SetSession(u, i, t) /\ UNCHANGED <<alive, ring, died>>
        /\ UNCHANGED net
    BY <1>4 DEF TaskRelease
  <2>2. o = ses[u][i] OBVIOUS
  <2>3. x \in Task /\ x.kind = "close" BY DEF NewTask, Task
  <2> HIDE DEF o, x
  <2>4. /\ q \in Seq(Task)
        /\ \A j \in DOMAIN q : q[j] = x \/ \E l \in DOMAIN o.tasks : q[j] = o.tasks[l]
    <3>1. /\ Len(o.tasks) \in Nat /\ DOMAIN o.tasks = 1 .. Len(o.tasks)
          /\ Tail(o.tasks) \in Seq(Task)
          /\ DOMAIN Tail(o.tasks) = 1 .. (Len(o.tasks) - 1)
          /\ \A j \in 1 .. (Len(o.tasks) - 1) : Tail(o.tasks)[j] = o.tasks[j + 1]
      BY <1>2, SeqFacts
    <3>2. <<x>> \in Seq(Task) /\ Len(<<x>>) = 1 /\ <<x>>[1] = x
      BY <2>3
    <3>3. /\ q \in Seq(Task) /\ Len(q) = 1 + Len(Tail(o.tasks))
          /\ \A j \in 1 .. 1 + Len(Tail(o.tasks)) :
               q[j] = IF j <= 1 THEN x ELSE Tail(o.tasks)[j - 1]
      <4> HIDE DEF q
      <4>1. /\ <<x>> \o Tail(o.tasks) \in Seq(Task)
            /\ Len(<<x>> \o Tail(o.tasks)) = Len(<<x>>) + Len(Tail(o.tasks))
            /\ \A j \in 1 .. Len(<<x>>) + Len(Tail(o.tasks)) :
                 (<<x>> \o Tail(o.tasks))[j] =
                   IF j <= Len(<<x>>) THEN <<x>>[j]
                   ELSE Tail(o.tasks)[j - Len(<<x>>)]
        BY <3>1, <3>2, ConcatProperties
      <4>2. \A j \in 1 .. 1 + Len(Tail(o.tasks)) : j <= 1 => j = 1
        OBVIOUS
      <4> QED BY <3>2, <4>1, <4>2 DEF q
    <3>4. Len(Tail(o.tasks)) = Len(o.tasks) - 1 /\ DOMAIN q = 1 .. Len(q)
      BY <3>1, <3>3, LenProperties
    <3> HIDE DEF q
    <3> SUFFICES ASSUME NEW j \in DOMAIN q
                 PROVE  q[j] = x \/ \E l \in DOMAIN o.tasks : q[j] = o.tasks[l]
      BY <3>3
    <3>5. CASE j = 1 BY <3>3, <3>4, <3>5
    <3>6. CASE j # 1
      <4>1. j \in DOMAIN o.tasks /\ j - 1 \in 1 .. (Len(o.tasks) - 1)
        BY <3>1, <3>3, <3>4, <3>6
      <4>2. q[j] = Tail(o.tasks)[j - 1] BY <3>1, <3>3, <3>4, <3>6
      <4>3. q[j] = o.tasks[j] BY <3>1, <4>1, <4>2
      <4> QED BY <4>1, <4>3
    <3> QED BY <3>5, <3>6
  <2> HIDE DEF q
  <2>5. /\ t \in Session /\ t.tasks = q /\ t.end = o.end /\ t.ui = o.ui
        /\ t.room = o.room /\ t.coming = o.coming /\ t.target = o.target
        /\ t.stray = o.stray /\ t.local = "disposed"
    <3>1. o \in Session /\ "Idle" \in State /\ q \in Seq(Task)
      BY <1>2, <2>4 DEF State
    <3>2. t \in Session BY ONLY <3>1 DEF Session
    <3>3. /\ t.tasks = q /\ t.end = o.end /\ t.ui = o.ui
          /\ t.room = o.room /\ t.coming = o.coming /\ t.target = o.target
          /\ t.stray = o.stray /\ t.local = "disposed"
      BY ONLY <3>1 DEF Session
    <3> QED BY ONLY <3>2, <3>3
  <2> HIDE DEF t
  <2>6. /\ \A j \in DOMAIN t.tasks : t.tasks[j].kind = "peers" => t.tasks[j].who # u
        /\ \A k : HasTask(t.tasks, k) => HasTask(o.tasks, k) \/ k = "close"
    BY <1>2, <2>3, <2>4, <2>5 DEF Keeps, HasTask
  <2>7. EntersWithScreen(t)
    BY <1>2, <2>5, <2>6 DEF Keeps, EntersWithScreen
  <2>8. Keeps(u, o, t) /\ ~Undisturbed(t)
    BY <1>2, <1>3, <2>5, <2>6, <2>7 DEF Keeps, Undisturbed
  <2>9. ses' \in [User -> Seq(Session)] /\ PhonesOK(ses')
    BY <1>2, <2>1, <2>2, <2>5, <2>8, RewrittenOnly
  <2> QED BY <2>1, <2>9, SilentSetup, SetupKept
<1>5. CASE ~(o.local = "live" /\ o.remote = "live" /\ o.peer # "none")
  <2>1. Die(u, i, "release") BY <1>5 DEF TaskRelease
  <2> QED BY <1>3, <2>1, DieSetup
<1> QED BY <1>4, <1>5

\* ... and so does the rest of it.
LEMMA TaskCloseSetup ==
  ASSUME IInv, SetupInv, NEW u \in User, NEW i \in DOMAIN ses[u], TaskClose(u, i)
  PROVE  SetupInv'
<1> DEFINE o == ses[u][i]
           e == IF HasScreen(o) THEN "closed" ELSE o.ui
           t == [o EXCEPT !.ui = e]
<1>1. Running(u, i, "close") /\ Done(u, i, t) /\ UNCHANGED net
  BY DEF TaskClose
<1>2. /\ o \in Session /\ o.end # "no" /\ Keeps(u, o, o)
  BY <1>1, TaskFacts
<1>3. o = ses[u][i] /\ ~Undisturbed(o) BY <1>2 DEF Undisturbed
<1> HIDE DEF o
<1>4. e \in Ui /\ (o.ui # "none" => e # "none")
  BY <1>2 DEF Session, Ui
<1> HIDE DEF e
<1>5. /\ t \in Session /\ t.tasks = o.tasks /\ t.end = o.end /\ t.ui = e
      /\ t.room = o.room /\ t.coming = o.coming /\ t.target = o.target
      /\ t.stray = o.stray /\ t.local = o.local /\ t.factory = o.factory
  BY <1>2, <1>4 DEF Session
<1> HIDE DEF t
<1>6. Keeps(u, o, t)
  BY <1>2, <1>4, <1>5 DEF Keeps, Undisturbed, EntersWithScreen
<1>7. SetSession(u, i, Rest(t)) /\ UNCHANGED <<alive, died>>
  BY <1>1 DEF Done
<1>8. ses' \in [User -> Seq(Session)] /\ PhonesOK(ses')
  BY <1>1, <1>3, <1>5, <1>6, <1>7, TaskRewritten
<1> QED BY <1>1, <1>7, <1>8, SilentSetup, SetupKept

\* onJoinHome: undisturbed, it finds a screen and a stream that is not disposed.
LEMMA TaskPeersSetup ==
  ASSUME IInv, SetupInv, NEW u \in User, NEW i \in DOMAIN ses[u], TaskPeers(u, i)
  PROVE  SetupInv'
<1> DEFINE o == ses[u][i]
           who == Head(o.tasks).who
           v == IF who = Nobody THEN o.target ELSE who
           l == IF o.local = "none" THEN "live" ELSE o.local
           s == [o EXCEPT !.target = v, !.factory = TRUE, !.local = l]
           t == [s EXCEPT !.peer = "open"]
           c == [t EXCEPT !.state = "Connected"]
<1>1. Running(u, i, "peers") BY DEF TaskPeers
<1>2. /\ NetType /\ o \in Session /\ o.room \in Room /\ o.target \in User
      /\ Head(o.tasks) \in Task /\ who # u /\ Keeps(u, o, o)
      /\ HasTask(o.tasks, "peers")
      /\ ~o.coming => o.room[1] = u
      /\ Undisturbed(o) => Prepared(o, inbox[u], RoomsOf(u))
  BY <1>1, TaskFacts
<1>3. IF ~s.coming
      THEN ServerInvite(u, s.target, s.room) /\ Done(u, i, s)
      ELSE IF s.local = "disposed" \/ s.ui = "none"
      THEN Die(u, i, "peers")
      ELSE Connect(u, i, t)
  BY DEF TaskPeers
<1>4. who \in User \cup {Nobody} BY <1>2 DEF Task
<1>5. o = ses[u][i] OBVIOUS
<1> HIDE DEF o, who
<1>6. v \in User /\ (o.coming \/ v # u)
  BY <1>2, <1>4 DEF Keeps
<1>7. l \in {"none", "live", "disposed"} /\ l # "none"
      /\ (l = "disposed" <=> o.local = "disposed")
  BY <1>2 DEF Session
<1> HIDE DEF v, l
<1>8. /\ s \in Session /\ s.tasks = o.tasks /\ s.end = o.end /\ s.ui = o.ui
      /\ s.room = o.room /\ s.coming = o.coming /\ s.target = v
      /\ s.stray = o.stray /\ s.local = l /\ s.factory = TRUE
      /\ s.state = o.state /\ s.peer = o.peer
  BY <1>2, <1>6, <1>7 DEF Session
<1> HIDE DEF s
<1>9. Undisturbed(o) => o.ui # "none" /\ o.room \in RoomsOf(u) /\ l = "live"
  BY <1>2, <1>7 DEF Keeps, EntersWithScreen, Prepared, Undisturbed
<1>10. CASE ~o.coming
  <2>1. ServerInvite(u, v, o.room) /\ Done(u, i, s) BY <1>3, <1>8, <1>10
  <2>2. Keeps(u, o, s)
    BY <1>2, <1>6, <1>7, <1>8 DEF Keeps, Undisturbed, EntersWithScreen
  <2>3. SetSession(u, i, Rest(s)) /\ UNCHANGED <<alive, died>>
    BY <2>1 DEF Done
  <2>4. Undisturbed(o) /\ s.state = "Connected" =>
          s.peer = "open" /\ s.local = "live" /\ s.room \in RoomsOf(u)
    BY <1>2, <1>8, <1>9 DEF Prepared
  <2>5. ses' \in [User -> Seq(Session)] /\ PhonesOK(ses')
    BY <1>1, <1>5, <1>8, <2>2, <2>3, <2>4, TaskRewritten
  <2>6. o.room[1] # v BY <1>2, <1>6, <1>10
  <2>7. \A x \in User : alive[x] =>
          PhoneOK(x, ses'[x], inbox'[x], invites'[x], RoomsOf(x)')
    BY <1>2, <1>6, <2>1, <2>5, <2>6, InviteSetup
  <2> QED BY <2>3, <2>7, SetupKept
<1>11. CASE o.coming /\ (l = "disposed" \/ o.ui = "none")
  <2>1. Die(u, i, "peers") BY <1>3, <1>8, <1>11
  <2>2. ~Undisturbed(o) BY <1>9, <1>11
  <2> QED BY <1>5, <2>1, <2>2, DieSetup
<1>12. CASE o.coming /\ ~(l = "disposed" \/ o.ui = "none")
  <2>1. Connect(u, i, t) BY <1>3, <1>8, <1>12
  <2>2. /\ SetSession(u, i, Rest(c)) /\ UNCHANGED <<alive, died>>
        /\ UNCHANGED net
    BY <2>1 DEF Connect
  <2>3. /\ c \in Session /\ c.tasks = o.tasks /\ c.end = o.end /\ c.ui = o.ui
        /\ c.room = o.room /\ c.coming = o.coming /\ c.target = v
        /\ c.stray = o.stray /\ c.local = l /\ c.factory = TRUE
        /\ c.state = "Connected" /\ c.peer = "open"
    BY <1>8 DEF Session, State
  <2> HIDE DEF c, t
  <2>4. Keeps(u, o, c)
    BY <1>2, <1>6, <1>7, <2>3 DEF Keeps, Undisturbed, EntersWithScreen
  <2>5. ses' \in [User -> Seq(Session)] /\ PhonesOK(ses')
    BY <1>1, <1>5, <1>9, <2>2, <2>3, <2>4, TaskRewritten
  <2> QED BY <2>2, <2>5, SilentSetup, SetupKept
<1> QED BY <1>10, <1>11, <1>12

\* newPeer: undisturbed, it comes after onJoinHome, which made the factory.
LEMMA TaskNewPeerSetup ==
  ASSUME IInv, SetupInv, NEW u \in User, NEW i \in DOMAIN ses[u],
         TaskNewPeer(u, i)
  PROVE  SetupInv'
<1> DEFINE o == ses[u][i]
           l == IF o.local = "none" THEN "live" ELSE o.local
           p == IF o.factory THEN "open" ELSE o.peer
           t == [o EXCEPT !.local = l, !.peer = p]
           c == [t EXCEPT !.state = "Connected"]
<1>1. Running(u, i, "newPeer") BY DEF TaskNewPeer
<1>2. /\ o \in Session /\ o.tasks \in Seq(Task) /\ o.tasks # <<>>
      /\ Head(o.tasks).kind = "newPeer" /\ Keeps(u, o, o)
      /\ HasTask(o.tasks, "newPeer")
      /\ Undisturbed(o) => Prepared(o, inbox[u], RoomsOf(u))
  BY <1>1, TaskFacts
<1>3. IF (o.local = "none" /\ ~o.factory) \/ o.ui = "none"
      THEN Die(u, i, "newPeer") ELSE Connect(u, i, t)
  BY DEF TaskNewPeer
<1>4. o = ses[u][i] OBVIOUS
<1> HIDE DEF o
<1>5. o.factory \in BOOLEAN BY <1>2 DEF Session
<1>6. ASSUME Undisturbed(o)
      PROVE  o.factory /\ o.ui # "none" /\ o.room \in RoomsOf(u)
             /\ o.local # "disposed"
  <2>1. TasksInOrder(o.tasks, o.factory) BY <1>2, <1>6 DEF Prepared
  <2>2. o.factory BY <1>2, <1>5, <2>1, TasksHead
  <2> QED BY <1>2, <1>6, <2>2 DEF Prepared, Keeps, EntersWithScreen, Undisturbed
<1>7. CASE (o.local = "none" /\ ~o.factory) \/ o.ui = "none"
  <2>1. Die(u, i, "newPeer") BY <1>3, <1>7
  <2>2. ~Undisturbed(o) BY <1>6, <1>7
  <2> QED BY <1>4, <2>1, <2>2, DieSetup
<1>8. CASE ~((o.local = "none" /\ ~o.factory) \/ o.ui = "none")
  <2>1. Connect(u, i, t) BY <1>3, <1>8
  <2>2. /\ SetSession(u, i, Rest(c)) /\ UNCHANGED <<alive, died>>
        /\ UNCHANGED net
    BY <2>1 DEF Connect
  <2>3. /\ l \in {"live", "disposed"} /\ (l = "disposed" <=> o.local = "disposed")
        /\ p \in {"none", "open", "closed"} /\ (o.factory => p = "open")
    BY <1>2 DEF Session
  <2> HIDE DEF l, p
  <2>4. /\ c \in Session /\ c.tasks = o.tasks /\ c.end = o.end /\ c.ui = o.ui
        /\ c.room = o.room /\ c.coming = o.coming /\ c.target = o.target
        /\ c.stray = o.stray /\ c.local = l /\ c.factory = o.factory
        /\ c.state = "Connected" /\ c.peer = p
    <3>1. o \in Session /\ "Connected" \in State BY <1>2 DEF State
    <3>2. c \in Session BY ONLY <2>3, <3>1 DEF Session
    <3>3. /\ c.tasks = o.tasks /\ c.end = o.end /\ c.ui = o.ui
          /\ c.room = o.room /\ c.coming = o.coming /\ c.target = o.target
          /\ c.stray = o.stray /\ c.local = l /\ c.factory = o.factory
          /\ c.state = "Connected" /\ c.peer = p
      BY ONLY <3>1 DEF Session
    <3> QED BY ONLY <3>2, <3>3
  <2> HIDE DEF c, t
  <2>5. Keeps(u, o, c)
    BY <1>2, <2>3, <2>4 DEF Keeps, Undisturbed, EntersWithScreen
  <2>6. Undisturbed(o) =>
          c.peer = "open" /\ c.local = "live" /\ c.room \in RoomsOf(u)
    BY <1>6, <2>3, <2>4
  <2>7. ses' \in [User -> Seq(Session)] /\ PhonesOK(ses')
    BY <1>1, <1>4, <2>2, <2>4, <2>5, <2>6, TaskRewritten
  <2> QED BY <2>2, <2>7, SilentSetup, SetupKept
<1> QED BY <1>7, <1>8

\* Peer.onAddStream.
LEMMA RemoteStreamSetup ==
  ASSUME IInv, SetupInv, NEW u \in User, NEW i \in DOMAIN ses[u],
         RemoteStream(u, i)
  PROVE  SetupInv'
<1> DEFINE o == ses[u][i]
           s == [o EXCEPT !.remote = "live"]
<1>1. /\ alive[u] /\ SetSession(u, i, s)
      /\ UNCHANGED <<alive, ring, died>> /\ UNCHANGED net
  BY DEF RemoteStream
<1>2. /\ o \in Session /\ Keeps(u, o, o)
      /\ Undisturbed(o) => Prepared(o, inbox[u], RoomsOf(u))
  BY <1>1, SessionFacts
<1>3. o = ses[u][i] OBVIOUS
<1> HIDE DEF o
<1>4. /\ s \in Session /\ s.room = o.room /\ s.ui = o.ui
      /\ s.coming = o.coming /\ s.target = o.target /\ s.tasks = o.tasks
      /\ s.stray = o.stray /\ s.end = o.end /\ s.local = o.local
      /\ s.factory = o.factory /\ s.state = o.state /\ s.peer = o.peer
  BY <1>2 DEF Session
<1> HIDE DEF s
<1>5. Keeps(u, o, s)
  BY <1>2, <1>4 DEF Keeps, Undisturbed, EntersWithScreen
<1>6. Undisturbed(s) => Prepared(s, inbox[u], RoomsOf(u))
  BY <1>2, <1>4 DEF Undisturbed, Prepared
<1>7. ses' \in [User -> Seq(Session)] /\ PhonesOK(ses')
  BY <1>1, <1>3, <1>4, <1>5, <1>6, RewrittenOnly
<1> QED BY <1>1, <1>7, SilentSetup, SetupKept

-----------------------------------------------------------------------------
(* The theorems.                                                           *)

LEMMA InitSetup == Init => SetupInv
<1> SUFFICES ASSUME Init PROVE SetupInv
  OBVIOUS
<1>1. SetupNeverFatal BY DEF Init, SetupNeverFatal
<1>2. ASSUME NEW u \in User
      PROVE  PhoneOK(u, ses[u], inbox[u], invites[u], RoomsOf(u))
  <2>1. ses[u] = <<>> /\ inbox[u] = <<>> /\ invites[u] = <<>> BY DEF Init
  <2>2. DOMAIN ses[u] = {} /\ DOMAIN inbox[u] = {} /\ DOMAIN invites[u] = {}
    BY <2>1
  <2>3. RoomsOf(u) = {} BY DEF Init, RoomsOf
  <2>4. \A k, r : ~HasMsg(inbox[u], k, r) BY <2>2 DEF HasMsg
  <2> QED BY <2>1, <2>2, <2>3, <2>4 DEF PhoneOK
<1> QED BY <1>1, <1>2 DEF SetupInv

LEMMA NextSetup == IInv /\ SetupInv /\ [Next]_vars => SetupInv'
<1> SUFFICES ASSUME IInv, SetupInv, [Next]_vars PROVE SetupInv'
  OBVIOUS
<1>1. CASE UNCHANGED vars
  BY <1>1 DEF vars, SetupInv, SetupNeverFatal, RoomsOf
<1>2. ASSUME NEW u \in User, Looper(u) PROVE SetupInv'
  <2>1. CASE Dial(u) BY <2>1, DialSetup
  <2>2. CASE ReceiveInvite(u) BY <2>2, ReceiveInviteSetup
  <2>3. CASE OpenUi(u) BY <2>3, OpenUiSetup
  <2>4. CASE \E i \in DOMAIN ses[u] : Accept(u, i) \/ ShowConnected(u, i)
    BY <2>4, AcceptSetup, ShowConnectedSetup
  <2>5. CASE Handle(u)
    <3>1. CASE OnPeers(u)
      BY <3>1, HandlePostingSetup DEF OnPeers, Entering
    <3>2. CASE OnNewPeer(u)
      BY <3>2, HandlePostingSetup DEF OnNewPeer, Entering
    <3>3. CASE OnRing(u) BY <3>3, OnRingSetup
    <3>4. CASE OnReject(u) BY <3>4, HandleEndingSetup DEF OnReject
    <3>5. CASE OnLeave(u) BY <3>5, HandleEndingSetup DEF OnLeave
    <3> QED BY <2>5, <3>1, <3>2, <3>3, <3>4, <3>5 DEF Handle
  <2> QED BY <1>2, <2>1, <2>2, <2>3, <2>4, <2>5 DEF Looper
<1>3. ASSUME NEW u \in User, NEW i \in DOMAIN ses[u], HangUp(u, i)
      PROVE  SetupInv'
  BY <1>3, HangUpSetup
<1>4. ASSUME NEW u \in User, HangingUp(u) PROVE SetupInv'
  BY <1>4, HangUpIdleSetup, HangUpFinishSetup DEF HangingUp
<1>5. ASSUME NEW u \in User, NEW i \in DOMAIN ses[u], Execute(u, i)
      PROVE  SetupInv'
  BY <1>5, TaskCreateSetup, TaskRingBackSetup, TaskJoinSetup, TaskRefuseSetup,
     TaskCancelSetup, TaskLeaveSetup, TaskReleaseSetup, TaskCloseSetup,
     TaskPeersSetup, TaskNewPeerSetup DEF Execute
<1>6. ASSUME NEW u \in User, NEW i \in DOMAIN ses[u], RemoteStream(u, i)
      PROVE  SetupInv'
  BY <1>6, RemoteStreamSetup
<1> QED BY <1>1, <1>2, <1>3, <1>4, <1>5, <1>6 DEF Next, OnLooper

\* SetupInv is an invariant: in every phone whose process runs, factory, screen
\* and place in the room are there before the task that needs them.
THEOREM SetupInvariance == Spec => []SetupInv
BY Invariance, InitSetup, NextSetup, PTL DEF Spec

\* A process that died did so in a session that was ended or that a message of
\* another call had reached: setting a call up kills nobody.
THEOREM SetupNeverFatalAlways == Spec => []SetupNeverFatal
<1>1. SetupInv => SetupNeverFatal BY DEF SetupInv
<1> QED BY <1>1, SetupInvariance, PTL

\* A process that was killed has no sessions: whoever acts is alive.
DeadHasNone == \A u \in User : ~alive[u] => ses[u] = <<>>

LEMMA OneActs ==
  ASSUME IInv, DeadHasNone, NEW u \in User, alive[u], UNCHANGED alive,
         \A v \in User \ {u} : ses'[v] = ses[v]
  PROVE  DeadHasNone'
BY DEF DeadHasNone

LEMMA DeadNext == IInv /\ DeadHasNone /\ [Next]_vars => DeadHasNone'
<1> SUFFICES ASSUME IInv, DeadHasNone, [Next]_vars PROVE DeadHasNone'
  OBVIOUS
<1>1. ses \in [User -> Seq(Session)] /\ alive \in [User -> BOOLEAN]
  BY DEF IInv, TypeOK
<1>2. CASE UNCHANGED vars BY <1>2 DEF vars, DeadHasNone
<1>3. ASSUME NEW u \in User, NEW i \in DOMAIN ses[u], NEW k, Die(u, i, k)
      PROVE  DeadHasNone'
  <2>1. \A v \in User : /\ alive'[v] = IF v = u THEN FALSE ELSE alive[v]
                        /\ ses'[v] = IF v = u THEN <<>> ELSE ses[v]
    BY <1>1, <1>3 DEF Die
  <2> QED BY <2>1 DEF DeadHasNone
<1>4. ASSUME NEW u \in User, alive[u], UNCHANGED alive,
             NEW i, NEW s, SetSession(u, i, s)
      PROVE  DeadHasNone'
  <2>1. \A v \in User \ {u} : ses'[v] = ses[v] BY <1>1, <1>4 DEF SetSession
  <2> QED BY <1>4, <2>1, OneActs
<1>5. ASSUME NEW u \in User, Looper(u) PROVE DeadHasNone'
  <2>1. CASE Dial(u) \/ ReceiveInvite(u)
    <3>1. /\ alive[u] /\ UNCHANGED alive
          /\ \A v \in User \ {u} : ses'[v] = ses[v]
      BY <1>1, <2>1 DEF Dial, ReceiveInvite, phone
    <3> QED BY <3>1, OneActs
  <2>2. CASE OpenUi(u) BY <1>4, <2>2 DEF OpenUi, HasSession
  <2>3. ASSUME NEW i \in DOMAIN ses[u], Accept(u, i) PROVE DeadHasNone'
    BY <1>4, <2>3 DEF Accept, OnTop, HasSession
  <2>4. ASSUME NEW i \in DOMAIN ses[u], ShowConnected(u, i) PROVE DeadHasNone'
    BY <1>4, <2>4 DEF ShowConnected
  <2>5. CASE Handle(u)
    BY <1>4, <2>5 DEF Handle, OnPeers, OnNewPeer, OnRing, OnReject, OnLeave,
                      HandlePosting, HandleEnding, Receives, Handled, HasSession
  <2> QED BY <1>5, <2>1, <2>2, <2>3, <2>4, <2>5 DEF Looper
<1>6. ASSUME NEW u \in User, NEW i \in DOMAIN ses[u], HangUp(u, i)
      PROVE  DeadHasNone'
  BY <1>4, <1>6 DEF HangUp, OnTop, HasSession
<1>7. ASSUME NEW u \in User, HangingUp(u) PROVE DeadHasNone'
  <2>1. CASE HangUpIdle(u) BY <1>4, <2>1 DEF HangUpIdle, HasSession
  <2>2. ASSUME NEW i \in DOMAIN ses[u], HangUpFinish(u, i) PROVE DeadHasNone'
    BY <1>4, <2>2 DEF HangUpFinish
  <2> QED BY <1>7, <2>1, <2>2 DEF HangingUp
<1>8. ASSUME NEW u \in User, NEW i \in DOMAIN ses[u], RemoteStream(u, i)
      PROVE  DeadHasNone'
  BY <1>4, <1>8 DEF RemoteStream
<1>9. ASSUME NEW u \in User, NEW i \in DOMAIN ses[u], Execute(u, i)
      PROVE  DeadHasNone'
  <2>1. ASSUME NEW s, Done(u, i, s), alive[u] PROVE DeadHasNone'
    BY <1>4, <2>1 DEF Done
  <2>2. ASSUME NEW s, Connect(u, i, s), alive[u] PROVE DeadHasNone'
    BY <1>4, <2>2 DEF Connect
  <2>3. alive[u]
    BY <1>9 DEF Execute, TaskCreate, TaskRingBack, TaskJoin, TaskRefuse,
                TaskCancel, TaskLeave, TaskRelease, TaskClose, TaskPeers,
                TaskNewPeer, Running
  <2>4. CASE \/ TaskCreate(u, i) \/ TaskRingBack(u, i) \/ TaskJoin(u, i)
             \/ TaskRefuse(u, i) \/ TaskCancel(u, i) \/ TaskLeave(u, i)
             \/ TaskClose(u, i)
    BY <2>1, <2>3, <2>4 DEF TaskCreate, TaskRingBack, TaskJoin, TaskRefuse,
                            TaskCancel, TaskLeave, TaskClose
  <2>5. CASE TaskRelease(u, i) BY <1>3, <1>4, <2>3, <2>5 DEF TaskRelease
  <2>6. CASE TaskPeers(u, i) BY <1>3, <2>1, <2>2, <2>3, <2>6 DEF TaskPeers
  <2>7. CASE TaskNewPeer(u, i) BY <1>3, <2>2, <2>3, <2>7 DEF TaskNewPeer
  <2> QED BY <1>9, <2>4, <2>5, <2>6, <2>7 DEF Execute
<1> QED BY <1>2, <1>5, <1>6, <1>7, <1>8, <1>9 DEF Next, OnLooper

LEMMA DeadHasNoneAlways == Spec => []DeadHasNone
<1>1. Init => DeadHasNone BY DEF Init, DeadHasNone
<1> QED BY <1>1, DeadNext, Invariance, PTL DEF Spec

\* What a phone calls connected has a Peer, a local stream and a place in the
\* room of the server.
THEOREM ConnectedIsEquippedAlways == Spec => []ConnectedIsEquipped
<1>1. ASSUME IInv, SetupInv, DeadHasNone PROVE ConnectedIsEquipped
  <2> SUFFICES ASSUME NEW u \in User, NEW i \in DOMAIN ses[u],
                      ses[u][i].state = "Connected", Undisturbed(ses[u][i])
               PROVE  /\ ses[u][i].peer = "open" /\ ses[u][i].local = "live"
                      /\ u \in members[ses[u][i].room]
    BY DEF ConnectedIsEquipped
  <2>1. alive[u]
    <3> SUFFICES ASSUME ses[u] = <<>> PROVE FALSE BY <1>1 DEF DeadHasNone
    <3>1. DOMAIN ses[u] = {} OBVIOUS
    <3> QED BY <3>1
  <2>2. Prepared(ses[u][i], inbox[u], RoomsOf(u)) BY <1>1, <2>1, SessionFacts
  <2> QED BY <2>2 DEF Prepared, RoomsOf
<1> QED BY <1>1, Invariance, SetupInvariance, DeadHasNoneAlways, PTL

=============================================================================
