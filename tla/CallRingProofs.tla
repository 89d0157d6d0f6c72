--------------------------- MODULE CallRingProofs ---------------------------
(***************************************************************************)
(* Proofs about Call, for any users, any plan of calls and any bounds: a   *)
(* connected call is not accompanied by a ring.                            *)
(*                                                                         *)
(* It follows from RingInv, which follows the announcement of every        *)
(* present call from the caller to the phone that is called and back.      *)
(* Nearly every step is calm for nearly every room: the announcement does  *)
(* not move.  The steps that move it are the five of its way, and for each *)
(* of them there is a lemma about Announced.                               *)
(***************************************************************************)
EXTENDS CallProofs

-----------------------------------------------------------------------------
(* Sets with at most one element, and where messages and tasks are.        *)

\* Of five sets together at most one has an element, and that at most one.
Single(A, B, C, D, E) ==
  /\ AtMostOne(A) /\ AtMostOne(B) /\ AtMostOne(C) /\ AtMostOne(D) /\ AtMostOne(E)
  /\ A # {} => B = {} /\ C = {} /\ D = {} /\ E = {}
  /\ B # {} => C = {} /\ D = {} /\ E = {}
  /\ C # {} => D = {} /\ E = {}
  /\ D # {} => E = {}

LEMMA Tagged ==
  ASSUME NEW A, NEW B, NEW C, NEW D, NEW E
  PROVE  AtMostOne(({"create"} \X A) \cup ({"created"} \X B) \cup
                   ({"invite"} \X C) \cup ({"invited"} \X D) \cup
                   ({"called"} \X E))
           <=> Single(A, B, C, D, E)
<1> DEFINE U == ({"create"} \X A) \cup ({"created"} \X B) \cup
                ({"invite"} \X C) \cup ({"invited"} \X D) \cup ({"called"} \X E)
<1>1. /\ \A a \in A : <<"create", a>> \in U
      /\ \A a \in B : <<"created", a>> \in U
      /\ \A a \in C : <<"invite", a>> \in U
      /\ \A a \in D : <<"invited", a>> \in U
      /\ \A a \in E : <<"called", a>> \in U
  OBVIOUS
<1>2. \A y \in U : \/ \E a \in A : y = <<"create", a>>
                   \/ \E a \in B : y = <<"created", a>>
                   \/ \E a \in C : y = <<"invite", a>>
                   \/ \E a \in D : y = <<"invited", a>>
                   \/ \E a \in E : y = <<"called", a>>
  OBVIOUS
<1>3. \A k, l, a, b : <<k, a>> = <<l, b>> <=> k = l /\ a = b
  OBVIOUS
<1> HIDE DEF U
<1>4. ASSUME AtMostOne(U) PROVE Single(A, B, C, D, E)
  <2>1. \A k, l, a, b : <<k, a>> \in U /\ <<l, b>> \in U => k = l /\ a = b
    BY <1>3, <1>4 DEF AtMostOne
  <2>2. \A a, b \in A : a = b BY <1>1, <2>1
  <2>3. \A a, b \in B : a = b BY <1>1, <2>1
  <2>4. \A a, b \in C : a = b BY <1>1, <2>1
  <2>5. \A a, b \in D : a = b BY <1>1, <2>1
  <2>6. \A a, b \in E : a = b BY <1>1, <2>1
  <2>7. \A a \in A : B = {} /\ C = {} /\ D = {} /\ E = {}
    <3> SUFFICES ASSUME NEW a \in A PROVE B = {} /\ C = {} /\ D = {} /\ E = {}
      OBVIOUS
    <3>1. <<"create", a>> \in U BY <1>1
    <3>2. \A l, b : <<l, b>> \in U => l = "create" BY <2>1, <3>1
    <3>3. \A b : b \notin B /\ b \notin C /\ b \notin D /\ b \notin E
      BY <1>1, <3>2
    <3> QED BY <3>3
  <2>8. \A a \in B : C = {} /\ D = {} /\ E = {}
    <3> SUFFICES ASSUME NEW a \in B PROVE C = {} /\ D = {} /\ E = {}
      OBVIOUS
    <3>1. <<"created", a>> \in U BY <1>1
    <3>2. \A l, b : <<l, b>> \in U => l = "created" BY <2>1, <3>1
    <3>3. \A b : b \notin C /\ b \notin D /\ b \notin E BY <1>1, <3>2
    <3> QED BY <3>3
  <2>9. \A a \in C : D = {} /\ E = {}
    <3> SUFFICES ASSUME NEW a \in C PROVE D = {} /\ E = {}
      OBVIOUS
    <3>1. <<"invite", a>> \in U BY <1>1
    <3>2. \A l, b : <<l, b>> \in U => l = "invite" BY <2>1, <3>1
    <3>3. \A b : b \notin D /\ b \notin E BY <1>1, <3>2
    <3> QED BY <3>3
  <2>10. \A a \in D : E = {}
    <3> SUFFICES ASSUME NEW a \in D PROVE E = {}
      OBVIOUS
    <3>1. <<"invited", a>> \in U BY <1>1
    <3>2. \A l, b : <<l, b>> \in U => l = "invited" BY <2>1, <3>1
    <3>3. \A b : b \notin E BY <1>1, <3>2
    <3> QED BY <3>3
  <2>11. /\ AtMostOne(A) /\ AtMostOne(B) /\ AtMostOne(C) /\ AtMostOne(D)
         /\ AtMostOne(E)
    BY <2>2, <2>3, <2>4, <2>5, <2>6 DEF AtMostOne
  <2> QED BY <2>7, <2>8, <2>9, <2>10, <2>11 DEF Single
<1>5. ASSUME Single(A, B, C, D, E) PROVE AtMostOne(U)
  <2> SUFFICES ASSUME NEW y \in U, NEW z \in U PROVE y = z
    BY DEF AtMostOne
  <2>1. CASE A # {} BY <1>2, <1>5, <2>1 DEF Single, AtMostOne
  <2>2. CASE A = {} /\ B # {} BY <1>2, <1>5, <2>2 DEF Single, AtMostOne
  <2>3. CASE A = {} /\ B = {} /\ C # {} BY <1>2, <1>5, <2>3 DEF Single, AtMostOne
  <2>4. CASE A = {} /\ B = {} /\ C = {} BY <1>2, <1>5, <2>4 DEF Single, AtMostOne
  <2> QED BY <2>1, <2>2, <2>3, <2>4
<1> QED BY <1>4, <1>5 DEF U

LEMMA AnnouncedOnce ==
  ASSUME NEW s, NEW q, NEW I, NEW Z
  PROVE  AtMostOne(Announcement(s, q, I, Z)) <=>
           Single(TasksOf(s.tasks, "create"), MsgsOf(q, "peers", s.room),
                  TasksOf(s.tasks, "peers"), InvitesTo(I, s.room),
                  CallsTo(Z, s.room))
BY Tagged DEF Announcement

\* B has no more than one element if A has not, and none if A has none.
Fewer(A, B) == /\ AtMostOne(A) => AtMostOne(B)
               /\ A = {} => B = {}

LEMMA HasIsSome ==
  ASSUME NEW ts, NEW q, NEW k, NEW r
  PROVE  /\ HasTask(ts, k) <=> TasksOf(ts, k) # {}
         /\ HasMsg(q, k, r) <=> MsgsOf(q, k, r) # {}
BY DEF HasTask, HasMsg, TasksOf, MsgsOf

LEMMA TasksOfAppend ==
  ASSUME NEW ts \in Seq(Task), NEW t \in Task, NEW k
  PROVE  /\ t.kind # k => TasksOf(Append(ts, t), k) = TasksOf(ts, k)
         /\ TasksOf(ts, k) = {} => AtMostOne(TasksOf(Append(ts, t), k))
<1>1. /\ Len(ts) \in Nat /\ DOMAIN ts = 1 .. Len(ts)
      /\ DOMAIN Append(ts, t) = 1 .. (Len(ts) + 1)
      /\ \A j \in 1 .. Len(ts) : Append(ts, t)[j] = ts[j]
      /\ Append(ts, t)[Len(ts) + 1] = t
  BY SeqFacts, AppendFacts
<1>2. \A j \in 1 .. (Len(ts) + 1) : j \in 1 .. Len(ts) \/ j = Len(ts) + 1
  BY <1>1
<1> QED BY <1>1, <1>2 DEF TasksOf, AtMostOne

LEMMA TasksOfTail ==
  ASSUME NEW ts \in Seq(Task), ts # <<>>, NEW k
  PROVE  /\ \A j \in TasksOf(Tail(ts), k) : j + 1 \in TasksOf(ts, k) /\ j # 0
         /\ Fewer(TasksOf(ts, k), TasksOf(Tail(ts), k))
         /\ Head(ts).kind = k => 1 \in TasksOf(ts, k)
         /\ Head(ts).kind = k /\ AtMostOne(TasksOf(ts, k)) =>
              TasksOf(Tail(ts), k) = {}
<1>1. /\ Len(ts) \in Nat /\ Len(ts) > 0 /\ DOMAIN ts = 1 .. Len(ts)
      /\ Head(ts) = ts[1] /\ DOMAIN Tail(ts) = 1 .. (Len(ts) - 1)
      /\ \A j \in 1 .. (Len(ts) - 1) : Tail(ts)[j] = ts[j + 1]
  BY SeqFacts
<1>2. \A j \in TasksOf(Tail(ts), k) :
        j \in Nat /\ j # 0 /\ j + 1 \in TasksOf(ts, k)
  BY <1>1 DEF TasksOf
<1>3. Head(ts).kind = k => 1 \in TasksOf(ts, k)
  BY <1>1 DEF TasksOf
<1>4. AtMostOne(TasksOf(ts, k)) => AtMostOne(TasksOf(Tail(ts), k))
  <2> SUFFICES ASSUME AtMostOne(TasksOf(ts, k)), NEW x \in TasksOf(Tail(ts), k),
                      NEW y \in TasksOf(Tail(ts), k)
               PROVE  x = y
    BY DEF AtMostOne
  <2>1. x + 1 = y + 1 /\ x \in Nat /\ y \in Nat BY <1>2 DEF AtMostOne
  <2> QED BY <2>1
<1>5. ASSUME Head(ts).kind = k, AtMostOne(TasksOf(ts, k)),
             NEW j \in TasksOf(Tail(ts), k)
      PROVE  FALSE
  <2>1. j + 1 = 1 /\ j \in Nat /\ j # 0 BY <1>2, <1>3, <1>5 DEF AtMostOne
  <2> QED BY <2>1
<1> QED BY <1>2, <1>3, <1>4, <1>5 DEF Fewer

LEMMA MsgsOfAppend ==
  ASSUME NEW q \in Seq(Msg), NEW m \in Msg, NEW k, NEW r
  PROVE  /\ ~(m.kind = k /\ m.room = r) =>
              MsgsOf(Append(q, m), k, r) = MsgsOf(q, k, r)
         /\ MsgsOf(q, k, r) = {} => AtMostOne(MsgsOf(Append(q, m), k, r))
         /\ \A j \in MsgsOf(q, k, r) : j < Len(q) + 1
         /\ \A j \in MsgsOf(Append(q, m), k, r) :
              j \in MsgsOf(q, k, r) \/ j = Len(q) + 1
<1>1. /\ Len(q) \in Nat /\ DOMAIN q = 1 .. Len(q)
      /\ DOMAIN Append(q, m) = 1 .. (Len(q) + 1)
      /\ \A j \in 1 .. Len(q) : Append(q, m)[j] = q[j]
      /\ Append(q, m)[Len(q) + 1] = m
  BY SeqFacts, AppendFacts
<1>2. \A j \in 1 .. (Len(q) + 1) : j \in 1 .. Len(q) \/ j = Len(q) + 1
  BY <1>1
<1>3. \A j \in 1 .. Len(q) : j < Len(q) + 1 /\ j \in 1 .. (Len(q) + 1) BY <1>1
<1>4. Len(q) + 1 \in 1 .. (Len(q) + 1) BY <1>1
<1>5. ASSUME ~(m.kind = k /\ m.room = r)
      PROVE  MsgsOf(Append(q, m), k, r) = MsgsOf(q, k, r)
  BY <1>1, <1>2, <1>3, <1>5 DEF MsgsOf
<1>6. \A j \in MsgsOf(Append(q, m), k, r) :
        j \in MsgsOf(q, k, r) \/ j = Len(q) + 1
  BY <1>1, <1>2 DEF MsgsOf
<1>7. \A j \in MsgsOf(q, k, r) : j < Len(q) + 1 BY <1>1, <1>3 DEF MsgsOf
<1> QED BY <1>5, <1>6, <1>7 DEF AtMostOne

LEMMA MsgsOfTail ==
  ASSUME NEW q \in Seq(Msg), q # <<>>, NEW k, NEW r
  PROVE  /\ \A j \in MsgsOf(Tail(q), k, r) :
              j \in Nat /\ j # 0 /\ j + 1 \in MsgsOf(q, k, r)
         /\ Fewer(MsgsOf(q, k, r), MsgsOf(Tail(q), k, r))
         /\ Head(q).kind = k /\ Head(q).room = r => 1 \in MsgsOf(q, k, r)
         /\ Head(q).kind = k /\ Head(q).room = r /\ AtMostOne(MsgsOf(q, k, r)) =>
              MsgsOf(Tail(q), k, r) = {}
<1>1. /\ Len(q) \in Nat /\ Len(q) > 0 /\ DOMAIN q = 1 .. Len(q)
      /\ Head(q) = q[1] /\ DOMAIN Tail(q) = 1 .. (Len(q) - 1)
      /\ \A j \in 1 .. (Len(q) - 1) : Tail(q)[j] = q[j + 1]
  BY SeqFacts
<1>2. \A j \in MsgsOf(Tail(q), k, r) :
        j \in Nat /\ j # 0 /\ j + 1 \in MsgsOf(q, k, r)
  BY <1>1 DEF MsgsOf
<1>3. Head(q).kind = k /\ Head(q).room = r => 1 \in MsgsOf(q, k, r)
  BY <1>1 DEF MsgsOf
<1>4. AtMostOne(MsgsOf(q, k, r)) => AtMostOne(MsgsOf(Tail(q), k, r))
  <2> SUFFICES ASSUME AtMostOne(MsgsOf(q, k, r)), NEW x \in MsgsOf(Tail(q), k, r),
                      NEW y \in MsgsOf(Tail(q), k, r)
               PROVE  x = y
    BY DEF AtMostOne
  <2>1. x + 1 = y + 1 /\ x \in Nat /\ y \in Nat BY <1>2 DEF AtMostOne
  <2> QED BY <2>1
<1>5. ASSUME Head(q).kind = k, Head(q).room = r, AtMostOne(MsgsOf(q, k, r)),
             NEW j \in MsgsOf(Tail(q), k, r)
      PROVE  FALSE
  <2>1. j + 1 = 1 /\ j \in Nat /\ j # 0 BY <1>2, <1>3, <1>5 DEF AtMostOne
  <2> QED BY <2>1
<1> QED BY <1>2, <1>3, <1>4, <1>5 DEF Fewer
-----------------------------------------------------------------------------
(* The announcement of a call.                                             *)

Ordered(q, r) ==
  \A j \in MsgsOf(q, "ring", r) : \A k \in MsgsOf(q, "newPeer", r) : j < k

\* From inbox q to inbox p nothing comes that announces the call of room r,
\* nor tells of a ring or of another one in it.
Settled(q, p, r) ==
  /\ Fewer(MsgsOf(q, "peers", r), MsgsOf(p, "peers", r))
  /\ MsgsOf(q, "newPeer", r) = {} => MsgsOf(p, "newPeer", r) = {}
  /\ MsgsOf(q, "ring", r) = {} => MsgsOf(p, "ring", r) = {}
  /\ Ordered(q, r) => Ordered(p, r)

LEMMA SettledTail ==
  ASSUME NEW q \in Seq(Msg), q # <<>>, NEW r
  PROVE  Settled(q, Tail(q), r)
<1>1. \A k : Fewer(MsgsOf(q, k, r), MsgsOf(Tail(q), k, r))
  BY MsgsOfTail
<1>2. ASSUME Ordered(q, r), NEW j \in MsgsOf(Tail(q), "ring", r),
             NEW k \in MsgsOf(Tail(q), "newPeer", r)
      PROVE  j < k
  <2>1. /\ j \in Nat /\ j + 1 \in MsgsOf(q, "ring", r)
        /\ k \in Nat /\ k + 1 \in MsgsOf(q, "newPeer", r)
    BY MsgsOfTail
  <2>2. j + 1 < k + 1 BY <1>2, <2>1 DEF Ordered
  <2> QED BY <2>1, <2>2
<1> QED BY <1>1, <1>2 DEF Settled, Fewer, Ordered

LEMMA SettledAppend ==
  ASSUME NEW q \in Seq(Msg), NEW m \in Msg, NEW r,
         m.kind \notin {"peers", "newPeer", "ring"} \/ m.room # r
  PROVE  Settled(q, Append(q, m), r)
<1>1. \A k \in {"peers", "newPeer", "ring"} :
        MsgsOf(Append(q, m), k, r) = MsgsOf(q, k, r)
  BY MsgsOfAppend
<1> QED BY <1>1 DEF Settled, Fewer, Ordered

LEMMA SettledSame ==
  ASSUME NEW q, NEW r
  PROVE  Settled(q, q, r)
BY DEF Settled, Fewer

\* The announcement stays where it is, or is lost.
LEMMA Kept ==
  ASSUME NEW u, NEW s, NEW q, NEW I, NEW Z, NEW M, Announced(u, s, q, I, Z, M),
         NEW t, NEW p, NEW J, NEW Y, NEW N, t.room = s.room,
         \A k \in {"create", "peers", "newPeer"} :
           Fewer(TasksOf(s.tasks, k), TasksOf(t.tasks, k)),
         t.state = "Connected" => s.state = "Connected" \/ HasTask(s.tasks, "newPeer"),
         Settled(q, p, s.room),
         Fewer(InvitesTo(I, s.room), InvitesTo(J, s.room)),
         Fewer(CallsTo(Z, s.room), CallsTo(Y, s.room)),
         Ringing(Y, s.room) => Ringing(Z, s.room),
         N \subseteq M
  PROVE  Announced(u, t, p, J, Y, N)
<1>1. AtMostOne(Announcement(t, p, J, Y))
  <2>1. Single(TasksOf(s.tasks, "create"), MsgsOf(q, "peers", s.room),
               TasksOf(s.tasks, "peers"), InvitesTo(I, s.room),
               CallsTo(Z, s.room))
    BY AnnouncedOnce DEF Announced
  <2>2. Single(TasksOf(t.tasks, "create"), MsgsOf(p, "peers", t.room),
               TasksOf(t.tasks, "peers"), InvitesTo(J, t.room),
               CallsTo(Y, t.room))
    BY <2>1 DEF Single, Fewer, Settled
  <2> QED BY <2>2, AnnouncedOnce
<1>2. /\ \A k \in {"create", "peers", "newPeer"} :
           HasTask(t.tasks, k) => HasTask(s.tasks, k)
      /\ \A k \in {"peers", "newPeer", "ring"} :
           HasMsg(p, k, s.room) => HasMsg(q, k, s.room)
  BY HasIsSome DEF Fewer, Settled
<1>3. UnderWay(t, p, J, Y) => UnderWay(s, q, I, Z)
  BY <1>2 DEF UnderWay, Fewer
<1>4. Alone(u, s, q, M) => Alone(u, t, p, N)
  BY <1>2 DEF Alone
<1>5. RingsFirst(t, p)
  <2>1. Ordered(p, s.room) BY DEF Announced, RingsFirst, Settled, Ordered
  <2> QED BY <1>2, <2>1 DEF Announced, RingsFirst, Ordered
<1> QED BY <1>1, <1>3, <1>4, <1>5 DEF Announced

\* Who is alone in its room has not been overtaken.
LEMMA AloneAnnounced ==
  ASSUME NEW u, NEW t, NEW p, NEW J, NEW Y, NEW N,
         Single(TasksOf(t.tasks, "create"), MsgsOf(p, "peers", t.room),
                TasksOf(t.tasks, "peers"), InvitesTo(J, t.room),
                CallsTo(Y, t.room)),
         Alone(u, t, p, N)
  PROVE  Announced(u, t, p, J, Y, N)
<1>1. MsgsOf(p, "newPeer", t.room) = {} BY HasIsSome DEF Alone
<1>2. RingsFirst(t, p) BY <1>1 DEF RingsFirst, Alone
<1> QED BY <1>2, AnnouncedOnce DEF Announced

\* The room is created: the caller hears that nobody is there.
LEMMA CreateDone ==
  ASSUME NEW u, NEW s, NEW q \in Seq(Msg), NEW I, NEW Z, NEW M,
         Announced(u, s, q, I, Z, M), NEW t, NEW m \in Msg, NEW Y, NEW N,
         s.tasks \in Seq(Task), s.tasks # <<>>, Head(s.tasks).kind = "create",
         t.tasks = Tail(s.tasks), t.room = s.room, t.state = s.state,
         m.kind = "peers", m.room = s.room, N \subseteq M \cup {u},
         Fewer(CallsTo(Z, s.room), CallsTo(Y, s.room))
  PROVE  Announced(u, t, Append(q, m), I, Y, N)
<1>1. Single(TasksOf(s.tasks, "create"), MsgsOf(q, "peers", s.room),
             TasksOf(s.tasks, "peers"), InvitesTo(I, s.room),
             CallsTo(Z, s.room))
  BY AnnouncedOnce DEF Announced
<1>2. 1 \in TasksOf(s.tasks, "create") BY TasksOfTail
<1>3. Alone(u, s, q, M)
  BY <1>2, HasIsSome DEF Announced, UnderWay
<1>4. \A k : Fewer(TasksOf(s.tasks, k), TasksOf(t.tasks, k)) BY TasksOfTail
<1>5. TasksOf(t.tasks, "create") = {} BY <1>1, TasksOfTail DEF Single
<1>6. Single(TasksOf(t.tasks, "create"), MsgsOf(Append(q, m), "peers", t.room),
             TasksOf(t.tasks, "peers"), InvitesTo(I, t.room),
             CallsTo(Y, t.room))
  <2>1. AtMostOne(MsgsOf(Append(q, m), "peers", t.room))
    BY <1>1, <1>2, MsgsOfAppend DEF Single
  <2> QED BY <1>1, <1>2, <1>4, <1>5, <2>1 DEF Single, Fewer
<1>7. Alone(u, t, Append(q, m), N)
  <2>1. ~HasMsg(Append(q, m), "newPeer", s.room) BY <1>3, HasMsgAppend DEF Alone
  <2>2. ~HasTask(t.tasks, "newPeer")
    BY <1>3, <1>4, HasIsSome DEF Alone, Fewer
  <2> QED BY <1>3, <2>1, <2>2 DEF Alone
<1> QED BY <1>6, <1>7, AloneAnnounced

\* What the caller hears becomes a task.
LEMMA PeersTaken ==
  ASSUME NEW u, NEW s, NEW q \in Seq(Msg), NEW I, NEW Z, NEW M,
         Announced(u, s, q, I, Z, M), NEW t, NEW x \in Task, NEW Y,
         s.tasks \in Seq(Task), q # <<>>, Head(q).kind = "peers",
         Head(q).room = s.room, x.kind = "peers",
         t.tasks = Append(s.tasks, x), t.room = s.room, t.state = s.state,
         Fewer(CallsTo(Z, s.room), CallsTo(Y, s.room))
  PROVE  Announced(u, t, Tail(q), I, Y, M)
<1>1. Single(TasksOf(s.tasks, "create"), MsgsOf(q, "peers", s.room),
             TasksOf(s.tasks, "peers"), InvitesTo(I, s.room),
             CallsTo(Z, s.room))
  BY AnnouncedOnce DEF Announced
<1>2. 1 \in MsgsOf(q, "peers", s.room) BY MsgsOfTail
<1>3. Alone(u, s, q, M)
  BY <1>2, HasIsSome DEF Announced, UnderWay
<1>4. MsgsOf(Tail(q), "peers", t.room) = {} BY <1>1, MsgsOfTail DEF Single
<1>5. /\ TasksOf(t.tasks, "create") = TasksOf(s.tasks, "create")
      /\ TasksOf(t.tasks, "newPeer") = TasksOf(s.tasks, "newPeer")
      /\ AtMostOne(TasksOf(t.tasks, "peers"))
  <2>1. TasksOf(s.tasks, "peers") = {} BY <1>1, <1>2 DEF Single
  <2> QED BY <2>1, TasksOfAppend
<1>6. Single(TasksOf(t.tasks, "create"), MsgsOf(Tail(q), "peers", t.room),
             TasksOf(t.tasks, "peers"), InvitesTo(I, t.room),
             CallsTo(Y, t.room))
  BY <1>1, <1>2, <1>4, <1>5 DEF Single, Fewer
<1>7. Alone(u, t, Tail(q), M)
  <2>1. ~HasMsg(Tail(q), "newPeer", s.room) BY <1>3, HasMsgTail DEF Alone
  <2>2. ~HasTask(t.tasks, "newPeer") BY <1>3, <1>5, HasIsSome DEF Alone
  <2> QED BY <1>3, <2>1, <2>2 DEF Alone
<1> QED BY <1>6, <1>7, AloneAnnounced

\* The task sends the invitation.
LEMMA InviteDone ==
  ASSUME NEW u, NEW s, NEW q, NEW I, NEW Z, NEW M,
         Announced(u, s, q, I, Z, M), NEW t, NEW J, NEW Y,
         s.tasks \in Seq(Task), s.tasks # <<>>, Head(s.tasks).kind = "peers",
         t.tasks = Tail(s.tasks), t.room = s.room, t.state = s.state,
         InvitesTo(I, s.room) = {} => AtMostOne(InvitesTo(J, s.room)),
         Fewer(CallsTo(Z, s.room), CallsTo(Y, s.room))
  PROVE  Announced(u, t, q, J, Y, M)
<1>1. Single(TasksOf(s.tasks, "create"), MsgsOf(q, "peers", s.room),
             TasksOf(s.tasks, "peers"), InvitesTo(I, s.room),
             CallsTo(Z, s.room))
  BY AnnouncedOnce DEF Announced
<1>2. 1 \in TasksOf(s.tasks, "peers") BY TasksOfTail
<1>3. Alone(u, s, q, M)
  BY <1>2, HasIsSome DEF Announced, UnderWay
<1>4. \A k : Fewer(TasksOf(s.tasks, k), TasksOf(t.tasks, k)) BY TasksOfTail
<1>5. TasksOf(t.tasks, "peers") = {} BY <1>1, TasksOfTail DEF Single
<1>6. Single(TasksOf(t.tasks, "create"), MsgsOf(q, "peers", t.room),
             TasksOf(t.tasks, "peers"), InvitesTo(J, t.room),
             CallsTo(Y, t.room))
  BY <1>1, <1>2, <1>4, <1>5 DEF Single, Fewer
<1>7. Alone(u, t, q, M)
  <2>1. ~HasTask(t.tasks, "newPeer")
    BY <1>3, <1>4, HasIsSome DEF Alone, Fewer
  <2> QED BY <1>3, <2>1 DEF Alone
<1> QED BY <1>6, <1>7, AloneAnnounced

\* The phone that is called takes the invitation.
LEMMA InviteTakenUp ==
  ASSUME NEW u, NEW s, NEW q, NEW I, NEW Z, NEW M,
         Announced(u, s, q, I, Z, M), NEW J, NEW Y,
         InvitesTo(I, s.room) # {},
         AtMostOne(InvitesTo(I, s.room)) => InvitesTo(J, s.room) = {},
         CallsTo(Z, s.room) = {} => AtMostOne(CallsTo(Y, s.room))
  PROVE  Announced(u, s, q, J, Y, M)
<1>1. Single(TasksOf(s.tasks, "create"), MsgsOf(q, "peers", s.room),
             TasksOf(s.tasks, "peers"), InvitesTo(I, s.room),
             CallsTo(Z, s.room))
  BY AnnouncedOnce DEF Announced
<1>2. Alone(u, s, q, M) BY DEF Announced, UnderWay
<1>3. Single(TasksOf(s.tasks, "create"), MsgsOf(q, "peers", s.room),
             TasksOf(s.tasks, "peers"), InvitesTo(J, s.room),
             CallsTo(Y, s.room))
  BY <1>1 DEF Single
<1> QED BY <1>2, <1>3, AloneAnnounced

\* It rings back.
LEMMA RingDone ==
  ASSUME NEW u, NEW s, NEW q \in Seq(Msg), NEW I, NEW Z, NEW M,
         Announced(u, s, q, I, Z, M), NEW m \in Msg, NEW Y,
         Ringing(Z, s.room), m.kind = "ring",
         Fewer(CallsTo(Z, s.room), CallsTo(Y, s.room))
  PROVE  Announced(u, s, Append(q, m), I, Y, M)
<1>1. Single(TasksOf(s.tasks, "create"), MsgsOf(q, "peers", s.room),
             TasksOf(s.tasks, "peers"), InvitesTo(I, s.room),
             CallsTo(Z, s.room))
  BY AnnouncedOnce DEF Announced
<1>2. Alone(u, s, q, M) BY DEF Announced, UnderWay
<1>3. MsgsOf(Append(q, m), "peers", s.room) = MsgsOf(q, "peers", s.room)
  BY MsgsOfAppend
<1>4. Single(TasksOf(s.tasks, "create"), MsgsOf(Append(q, m), "peers", s.room),
             TasksOf(s.tasks, "peers"), InvitesTo(I, s.room),
             CallsTo(Y, s.room))
  BY <1>1, <1>3 DEF Single, Fewer
<1>5. Alone(u, s, Append(q, m), M) BY <1>2, HasMsgAppend DEF Alone
<1> QED BY <1>4, <1>5, AloneAnnounced

\* When it joins, the announcement is over.
LEMMA JoinDone ==
  ASSUME NEW u, NEW s, NEW q \in Seq(Msg), NEW I, NEW Z, NEW M,
         Announced(u, s, q, I, Z, M), NEW m \in Msg, NEW p, NEW Y, NEW N,
         CallsTo(Z, s.room) # {}, ~Ringing(Z, s.room),
         m.kind = "newPeer", p = q \/ p = Append(q, m),
         Fewer(CallsTo(Z, s.room), CallsTo(Y, s.room)), ~Ringing(Y, s.room)
  PROVE  Announced(u, s, p, I, Y, N)
<1>1. Single(TasksOf(s.tasks, "create"), MsgsOf(q, "peers", s.room),
             TasksOf(s.tasks, "peers"), InvitesTo(I, s.room),
             CallsTo(Z, s.room))
  BY AnnouncedOnce DEF Announced
<1>2. /\ MsgsOf(p, "peers", s.room) = MsgsOf(q, "peers", s.room)
      /\ MsgsOf(p, "ring", s.room) = MsgsOf(q, "ring", s.room)
      /\ \A k \in MsgsOf(p, "newPeer", s.room) :
           k \in MsgsOf(q, "newPeer", s.room) \/ k = Len(q) + 1
      /\ \A j \in MsgsOf(q, "ring", s.room) : j < Len(q) + 1
  <2>1. CASE p = q BY <2>1, MsgsOfAppend
  <2>2. CASE p = Append(q, m) BY <2>2, MsgsOfAppend
  <2> QED BY <2>1, <2>2
<1>3. /\ TasksOf(s.tasks, "create") = {} /\ MsgsOf(p, "peers", s.room) = {}
      /\ TasksOf(s.tasks, "peers") = {} /\ InvitesTo(I, s.room) = {}
  BY <1>1, <1>2 DEF Single
<1>4. ~UnderWay(s, p, I, Y) BY <1>3, HasIsSome DEF UnderWay
<1>5. AtMostOne(Announcement(s, p, I, Y))
  <2>1. Single(TasksOf(s.tasks, "create"), MsgsOf(p, "peers", s.room),
               TasksOf(s.tasks, "peers"), InvitesTo(I, s.room),
               CallsTo(Y, s.room))
    BY <1>1, <1>3 DEF Single, Fewer
  <2> QED BY <2>1, AnnouncedOnce
<1>6. RingsFirst(s, p)
  BY <1>2, HasIsSome DEF Announced, RingsFirst
<1> QED BY <1>4, <1>5, <1>6 DEF Announced

\* The caller learns of it: by then no ring is on its way.
LEMMA NewPeerTaken ==
  ASSUME NEW u, NEW s, NEW q \in Seq(Msg), NEW I, NEW Z, NEW M,
         Announced(u, s, q, I, Z, M), NEW t, NEW x \in Task, NEW Y,
         s.tasks \in Seq(Task), q # <<>>, Head(q).kind = "newPeer",
         Head(q).room = s.room, x.kind = "newPeer",
         t.tasks = Append(s.tasks, x), t.room = s.room,
         Fewer(CallsTo(Z, s.room), CallsTo(Y, s.room)),
         Ringing(Y, s.room) => Ringing(Z, s.room)
  PROVE  Announced(u, t, Tail(q), I, Y, M)
<1>1. Single(TasksOf(s.tasks, "create"), MsgsOf(q, "peers", s.room),
             TasksOf(s.tasks, "peers"), InvitesTo(I, s.room),
             CallsTo(Z, s.room))
  BY AnnouncedOnce DEF Announced
<1>2. 1 \in MsgsOf(q, "newPeer", s.room) BY MsgsOfTail
<1>3. ~UnderWay(s, q, I, Z) BY <1>2, HasIsSome DEF Announced, Alone
<1>4. /\ TasksOf(t.tasks, "create") = TasksOf(s.tasks, "create")
      /\ TasksOf(t.tasks, "peers") = TasksOf(s.tasks, "peers")
      /\ Fewer(MsgsOf(q, "peers", s.room), MsgsOf(Tail(q), "peers", s.room))
  BY TasksOfAppend, MsgsOfTail
<1>5. ~UnderWay(t, Tail(q), I, Y)
  BY <1>3, <1>4, HasIsSome DEF UnderWay, Fewer
<1>6. AtMostOne(Announcement(t, Tail(q), I, Y))
  <2>1. Single(TasksOf(t.tasks, "create"), MsgsOf(Tail(q), "peers", t.room),
               TasksOf(t.tasks, "peers"), InvitesTo(I, t.room),
               CallsTo(Y, t.room))
    BY <1>1, <1>4 DEF Single, Fewer
  <2> QED BY <2>1, AnnouncedOnce
<1>7. MsgsOf(Tail(q), "ring", s.room) = {}
  <2> SUFFICES ASSUME NEW j \in MsgsOf(Tail(q), "ring", s.room) PROVE FALSE
    OBVIOUS
  <2>1. j \in Nat /\ j # 0 /\ j + 1 \in MsgsOf(q, "ring", s.room)
    BY MsgsOfTail
  <2>2. j + 1 < 1 BY <1>2, <2>1 DEF Announced, RingsFirst
  <2> QED BY <2>1, <2>2
<1>8. RingsFirst(t, Tail(q))
  <2>1. ~HasMsg(Tail(q), "ring", t.room) BY <1>7, HasIsSome
  <2> QED BY <1>7, <2>1 DEF RingsFirst
<1> QED BY <1>5, <1>6, <1>8 DEF Announced

\* A call that begins, in a room nobody has heard of.
LEMMA CallBegins ==
  ASSUME NEW u, NEW t, NEW p, NEW J, NEW Y, NEW N, NEW x \in Task,
         t.tasks = <<x>>, x.kind = "create", t.state # "Connected",
         N = {}, InvitesTo(J, t.room) = {}, CallsTo(Y, t.room) = {},
         \A k \in {"peers", "newPeer", "ring"} : ~HasMsg(p, k, t.room)
  PROVE  Announced(u, t, p, J, Y, N)
<1>1. DOMAIN t.tasks = {1} /\ t.tasks[1] = x OBVIOUS
<1>2. /\ TasksOf(t.tasks, "create") = {1} /\ TasksOf(t.tasks, "peers") = {}
      /\ TasksOf(t.tasks, "newPeer") = {}
  BY <1>1 DEF TasksOf
<1>3. MsgsOf(p, "peers", t.room) = {} BY HasIsSome
<1>4. Single(TasksOf(t.tasks, "create"), MsgsOf(p, "peers", t.room),
             TasksOf(t.tasks, "peers"), InvitesTo(J, t.room),
             CallsTo(Y, t.room))
  BY <1>2, <1>3 DEF Single, AtMostOne
<1>5. Alone(u, t, p, N) BY <1>2, HasIsSome DEF Alone
<1> QED BY <1>4, <1>5, AloneAnnounced
-----------------------------------------------------------------------------
(* Sessions and invitations for a room, in all phones.                     *)

LEMMA InCalls ==
  ASSUME NEW Z, NEW r
  PROVE  /\ \A x \in CallsTo(Z, r) :
              /\ x = <<x[1], x[2]>> /\ x[1] \in User /\ x[2] \in DOMAIN Z[x[1]]
              /\ Z[x[1]][x[2]].coming /\ Z[x[1]][x[2]].room = r
         /\ \A v \in User : \A i \in DOMAIN Z[v] :
              Z[v][i].coming /\ Z[v][i].room = r =>
                /\ <<v, i>> \in CallsTo(Z, r)
                /\ <<v, i>>[1] = v /\ <<v, i>>[2] = i
<1>1. \A x : x \in CallsTo(Z, r) <=>
        \E v \in User : \E i \in DOMAIN Z[v] :
          x = <<v, i>> /\ Z[v][i].coming /\ Z[v][i].room = r
  BY DEF CallsTo
<1>2. \A v, i : <<v, i>>[1] = v /\ <<v, i>>[2] = i OBVIOUS
<1> QED BY <1>1, <1>2

LEMMA InInvites ==
  ASSUME NEW I, NEW r
  PROVE  /\ \A x \in InvitesTo(I, r) :
              /\ x = <<x[1], x[2]>> /\ x[1] \in User /\ x[2] \in DOMAIN I[x[1]]
              /\ I[x[1]][x[2]].room = r
         /\ \A v \in User : \A i \in DOMAIN I[v] : I[v][i].room = r =>
              /\ <<v, i>> \in InvitesTo(I, r)
              /\ <<v, i>>[1] = v /\ <<v, i>>[2] = i
<1>1. \A x : x \in InvitesTo(I, r) <=>
        \E v \in User : \E i \in DOMAIN I[v] : x = <<v, i>> /\ I[v][i].room = r
  BY DEF InvitesTo
<1>2. \A v, i : <<v, i>>[1] = v /\ <<v, i>>[2] = i OBVIOUS
<1> QED BY <1>1, <1>2

\* One session is rewritten.
LEMMA CallsRewritten ==
  ASSUME ses \in [User -> Seq(Session)], NEW u \in User, NEW i \in DOMAIN ses[u],
         NEW s \in Session, SetSession(u, i, s),
         s.room = ses[u][i].room, s.coming = ses[u][i].coming,
         HasTask(s.tasks, "ringBack") => HasTask(ses[u][i].tasks, "ringBack")
  PROVE  /\ \A r : CallsTo(ses', r) = CallsTo(ses, r)
         /\ \A r : Ringing(ses', r) => Ringing(ses, r)
         /\ \A v \in User : Dialled(ses'[v]) = Dialled(ses[v])
<1>1. \A v \in User : \A j :
        /\ DOMAIN ses'[v] = DOMAIN ses[v]
        /\ j \in DOMAIN ses[v] =>
             ses'[v][j] = IF v = u /\ j = i THEN s ELSE ses[v][j]
  <2>1. /\ ses[u] \in Seq(Session)
        /\ \A v \in User : ses'[v] = IF v = u THEN [ses[u] EXCEPT ![i] = s]
                                     ELSE ses[v]
    BY DEF SetSession
  <2>2. /\ DOMAIN [ses[u] EXCEPT ![i] = s] = DOMAIN ses[u]
        /\ \A j \in DOMAIN ses[u] :
             [ses[u] EXCEPT ![i] = s][j] = IF j = i THEN s ELSE ses[u][j]
    OBVIOUS
  <2> QED BY <2>1, <2>2
<1>2. \A v \in User : \A j \in DOMAIN ses[v] :
        /\ ses'[v][j].coming = ses[v][j].coming
        /\ ses'[v][j].room = ses[v][j].room
        /\ HasTask(ses'[v][j].tasks, "ringBack") =>
             HasTask(ses[v][j].tasks, "ringBack")
  BY <1>1
<1>3. ASSUME NEW r PROVE CallsTo(ses', r) = CallsTo(ses, r)
  <2> DEFINE X(v) == {k \in DOMAIN ses[v] : ses[v][k].coming /\ ses[v][k].room = r}
             Y(v) == {k \in DOMAIN ses'[v] : ses'[v][k].coming /\ ses'[v][k].room = r}
  <2>1. \A v \in User : Y(v) = X(v)
    BY <1>1, <1>2
  <2>2. /\ CallsTo(ses', r) = UNION {{v} \X Y(v) : v \in User}
        /\ CallsTo(ses, r) = UNION {{v} \X X(v) : v \in User}
    BY DEF CallsTo
  <2> HIDE DEF X, Y
  <2>3. {{v} \X Y(v) : v \in User} = {{v} \X X(v) : v \in User}
    BY ONLY <2>1
  <2> QED BY ONLY <2>2, <2>3
<1>4. ASSUME NEW r, Ringing(ses', r) PROVE Ringing(ses, r)
  <2>1. PICK x \in CallsTo(ses', r) : HasTask(ses'[x[1]][x[2]].tasks, "ringBack")
    BY <1>4 DEF Ringing
  <2>2. x \in CallsTo(ses, r) BY <1>3, <2>1
  <2>3. x[1] \in User /\ x[2] \in DOMAIN ses[x[1]] BY <2>2, InCalls
  <2> QED BY <1>2, <2>1, <2>2, <2>3 DEF Ringing
<1>5. \A v \in User : Dialled(ses'[v]) = Dialled(ses[v])
  BY <1>1, <1>2 DEF Dialled
<1> QED BY <1>3, <1>4, <1>5

\* A session begins.
LEMMA CallsBegun ==
  ASSUME ses \in [User -> Seq(Session)], NEW u \in User, NEW s \in Session,
         NEW Y, Y[u] = Append(ses[u], s), \A v \in User \ {u} : Y[v] = ses[v], NEW r
  PROVE  /\ ~(s.coming /\ s.room = r) =>
              CallsTo(Y, r) = CallsTo(ses, r) /\ (Ringing(Y, r) => Ringing(ses, r))
         /\ CallsTo(ses, r) = {} => AtMostOne(CallsTo(Y, r))
<1>1. ses[u] \in Seq(Session) OBVIOUS
<1>2. /\ Len(ses[u]) \in Nat /\ DOMAIN ses[u] = 1 .. Len(ses[u])
      /\ DOMAIN Y[u] = 1 .. (Len(ses[u]) + 1)
      /\ \A j \in 1 .. Len(ses[u]) : Y[u][j] = ses[u][j]
      /\ Y[u][Len(ses[u]) + 1] = s
  BY <1>1, SeqFacts, AppendFacts
<1>3. \A v \in User : \A j \in DOMAIN Y[v] :
        \/ j \in DOMAIN ses[v] /\ Y[v][j] = ses[v][j]
        \/ v = u /\ j = Len(ses[u]) + 1 /\ Y[v][j] = s
  <2>1. \A j \in DOMAIN Y[u] : j \in 1 .. Len(ses[u]) \/ j = Len(ses[u]) + 1
    BY <1>2
  <2>2. \A j \in DOMAIN Y[u] :
          \/ j \in DOMAIN ses[u] /\ Y[u][j] = ses[u][j]
          \/ j = Len(ses[u]) + 1 /\ Y[u][j] = s
    BY <1>2, <2>1
  <2> TAKE v \in User
  <2>3. CASE v = u BY <2>2, <2>3
  <2>4. CASE v # u
    <3>1. Y[v] = ses[v] BY <2>4
    <3> QED BY <3>1
  <2> QED BY <2>3, <2>4
<1>4. \A v \in User : \A j \in DOMAIN ses[v] :
        j \in DOMAIN Y[v] /\ Y[v][j] = ses[v][j]
  <2>1. \A j \in DOMAIN ses[u] : j \in DOMAIN Y[u] /\ Y[u][j] = ses[u][j]
    BY <1>2
  <2> TAKE v \in User
  <2>2. CASE v = u BY <2>1, <2>2
  <2>3. CASE v # u
    <3>1. Y[v] = ses[v] BY <2>3
    <3> QED BY <3>1
  <2> QED BY <2>2, <2>3
<1>5. \A x \in CallsTo(ses, r) : x \in CallsTo(Y, r)
  <2> SUFFICES ASSUME NEW x \in CallsTo(ses, r) PROVE x \in CallsTo(Y, r)
    OBVIOUS
  <2>1. /\ x = <<x[1], x[2]>> /\ x[1] \in User /\ x[2] \in DOMAIN ses[x[1]]
        /\ ses[x[1]][x[2]].coming /\ ses[x[1]][x[2]].room = r
    BY InCalls
  <2>2. x[2] \in DOMAIN Y[x[1]] /\ Y[x[1]][x[2]] = ses[x[1]][x[2]]
    BY <1>4, <2>1
  <2>3. <<x[1], x[2]>> \in CallsTo(Y, r) BY <2>1, <2>2, InCalls
  <2> QED BY <2>1, <2>3
<1>6. \A x \in CallsTo(Y, r) :
        \/ x \in CallsTo(ses, r) /\ Y[x[1]][x[2]] = ses[x[1]][x[2]]
        \/ s.coming /\ s.room = r /\ x = <<u, Len(ses[u]) + 1>>
  <2> SUFFICES ASSUME NEW x \in CallsTo(Y, r)
               PROVE  \/ /\ x \in CallsTo(ses, r)
                         /\ Y[x[1]][x[2]] = ses[x[1]][x[2]]
                      \/ s.coming /\ s.room = r /\ x = <<u, Len(ses[u]) + 1>>
    OBVIOUS
  <2>1. /\ x = <<x[1], x[2]>> /\ x[1] \in User /\ x[2] \in DOMAIN Y[x[1]]
        /\ Y[x[1]][x[2]].coming /\ Y[x[1]][x[2]].room = r
    BY InCalls
  <2>2. CASE x[2] \in DOMAIN ses[x[1]] /\ Y[x[1]][x[2]] = ses[x[1]][x[2]]
    <3>1. <<x[1], x[2]>> \in CallsTo(ses, r) BY <2>1, <2>2, InCalls
    <3> QED BY <2>1, <2>2, <3>1
  <2>3. CASE x[1] = u /\ x[2] = Len(ses[u]) + 1 /\ Y[x[1]][x[2]] = s
    BY <2>1, <2>3
  <2> QED BY <1>3, <2>1, <2>2, <2>3
<1>7. ASSUME ~(s.coming /\ s.room = r)
      PROVE  CallsTo(Y, r) = CallsTo(ses, r) /\ (Ringing(Y, r) => Ringing(ses, r))
  <2>1. CallsTo(Y, r) = CallsTo(ses, r) BY <1>5, <1>6, <1>7
  <2> QED BY <1>6, <1>7, <2>1 DEF Ringing
<1>8. CallsTo(ses, r) = {} => AtMostOne(CallsTo(Y, r))
  BY <1>6 DEF AtMostOne
<1> QED BY <1>7, <1>8

\* A process is killed.
LEMMA CallsEnded ==
  ASSUME ses \in [User -> Seq(Session)], NEW u \in User,
         NEW Y, \A v \in User : Y[v] = IF v = u THEN <<>> ELSE ses[v], NEW r
  PROVE  /\ Fewer(CallsTo(ses, r), CallsTo(Y, r))
         /\ Ringing(Y, r) => Ringing(ses, r)
<1>1. \A x \in CallsTo(Y, r) :
        x \in CallsTo(ses, r) /\ Y[x[1]] = ses[x[1]]
  <2> SUFFICES ASSUME NEW x \in CallsTo(Y, r)
               PROVE  x \in CallsTo(ses, r) /\ Y[x[1]] = ses[x[1]]
    OBVIOUS
  <2>1. /\ x = <<x[1], x[2]>> /\ x[1] \in User /\ x[2] \in DOMAIN Y[x[1]]
        /\ Y[x[1]][x[2]].coming /\ Y[x[1]][x[2]].room = r
    BY InCalls
  <2>2. x[1] # u
    <3> SUFFICES ASSUME x[1] = u PROVE FALSE OBVIOUS
    <3>1. x[2] \in DOMAIN <<>> BY <2>1
    <3> QED BY <3>1
  <2>3. Y[x[1]] = ses[x[1]] BY <2>1, <2>2
  <2>4. <<x[1], x[2]>> \in CallsTo(ses, r) BY <2>1, <2>3, InCalls
  <2> QED BY <2>1, <2>3, <2>4
<1> QED BY <1>1 DEF Fewer, AtMostOne, Ringing

\* The first invitation of a phone is taken.
LEMMA InvitesTaken ==
  ASSUME invites \in [User -> Seq(Invitation)], NEW u \in User, invites[u] # <<>>,
         NEW J, J[u] = Tail(invites[u]),
         \A v \in User \ {u} : J[v] = invites[v], NEW r
  PROVE  /\ Fewer(InvitesTo(invites, r), InvitesTo(J, r))
         /\ Head(invites[u]).room = r =>
              /\ InvitesTo(invites, r) # {}
              /\ AtMostOne(InvitesTo(invites, r)) => InvitesTo(J, r) = {}
<1>1. invites[u] \in Seq(Invitation) OBVIOUS
<1>2. /\ Len(invites[u]) \in Nat /\ DOMAIN invites[u] = 1 .. Len(invites[u])
      /\ 1 \in DOMAIN invites[u] /\ Head(invites[u]) = invites[u][1]
      /\ DOMAIN J[u] = 1 .. (Len(invites[u]) - 1)
      /\ \A j \in 1 .. (Len(invites[u]) - 1) : J[u][j] = invites[u][j + 1]
  BY <1>1, SeqFacts
<1> DEFINE old(x) == IF x[1] = u THEN <<x[1], x[2] + 1>> ELSE x
<1>3. \A x \in InvitesTo(J, r) :
        /\ x = <<x[1], x[2]>> /\ old(x) \in InvitesTo(invites, r)
        /\ x[1] = u => x[2] \in Nat /\ x[2] # 0
  <2> SUFFICES ASSUME NEW x \in InvitesTo(J, r)
               PROVE  /\ x = <<x[1], x[2]>> /\ old(x) \in InvitesTo(invites, r)
                      /\ x[1] = u => x[2] \in Nat /\ x[2] # 0
    OBVIOUS
  <2>1. /\ x = <<x[1], x[2]>> /\ x[1] \in User /\ x[2] \in DOMAIN J[x[1]]
        /\ J[x[1]][x[2]].room = r
    BY InInvites
  <2>2. CASE x[1] = u
    <3>0. x[2] \in DOMAIN J[u] /\ J[u][x[2]].room = r BY <2>1, <2>2
    <3>1. /\ x[2] \in Nat /\ x[2] # 0 /\ x[2] + 1 \in DOMAIN invites[u]
          /\ invites[u][x[2] + 1].room = r
      BY <1>2, <3>0
    <3>2. <<u, x[2] + 1>> \in InvitesTo(invites, r) BY <3>1, InInvites
    <3> QED BY <2>1, <2>2, <3>1, <3>2
  <2>3. CASE x[1] # u
    <3>1. <<x[1], x[2]>> \in InvitesTo(invites, r)
      BY <1>1, <2>1, <2>3, InInvites
    <3> QED BY <2>1, <2>3, <3>1
  <2> QED BY <2>2, <2>3
<1>4. \A x, y \in InvitesTo(J, r) : old(x) = old(y) => x = y
  <2> SUFFICES ASSUME NEW x \in InvitesTo(J, r),
                      NEW y \in InvitesTo(J, r), old(x) = old(y)
               PROVE  x = y
    OBVIOUS
  <2>1. /\ x = <<x[1], x[2]>> /\ y = <<y[1], y[2]>>
        /\ x[1] = u => x[2] \in Nat
        /\ y[1] = u => y[2] \in Nat
    BY <1>3
  <2>2. \A a, b, c, d : <<a, b>> = <<c, d>> <=> a = c /\ b = d OBVIOUS
  <2>3. CASE x[1] = u /\ y[1] = u
    <3>1. <<x[1], x[2] + 1>> = <<y[1], y[2] + 1>> BY <2>3
    <3>2. x[2] + 1 = y[2] + 1 BY <2>2, <3>1
    <3>3. x[2] = y[2] BY <2>1, <2>3, <3>2
    <3> QED BY <2>1, <2>3, <3>3
  <2>4. CASE x[1] = u /\ y[1] # u
    <3>1. <<x[1], x[2] + 1>> = <<y[1], y[2]>> BY <2>1, <2>4
    <3> QED BY <2>2, <2>4, <3>1
  <2>5. CASE x[1] # u /\ y[1] = u
    <3>1. <<x[1], x[2]>> = <<y[1], y[2] + 1>> BY <2>1, <2>5
    <3> QED BY <2>2, <2>5, <3>1
  <2>6. CASE x[1] # u /\ y[1] # u BY <2>6
  <2> QED BY <2>3, <2>4, <2>5, <2>6
<1> HIDE DEF old
<1>5. Fewer(InvitesTo(invites, r), InvitesTo(J, r))
  BY <1>3, <1>4 DEF Fewer, AtMostOne
<1>6. ASSUME Head(invites[u]).room = r
      PROVE  /\ InvitesTo(invites, r) # {}
             /\ AtMostOne(InvitesTo(invites, r)) => InvitesTo(J, r) = {}
  <2>1. <<u, 1>> \in InvitesTo(invites, r) BY <1>2, <1>6, InInvites
  <2>2. ASSUME AtMostOne(InvitesTo(invites, r)), NEW x \in InvitesTo(J, r)
        PROVE  FALSE
    <3>1. old(x) = <<u, 1>> BY <1>3, <2>1, <2>2 DEF AtMostOne
    <3>2. x = <<x[1], x[2]>> /\ (x[1] = u => x[2] \in Nat /\ x[2] # 0)
      BY <1>3
    <3>3. \A a, b, c, d : <<a, b>> = <<c, d>> <=> a = c /\ b = d OBVIOUS
    <3>4. CASE x[1] = u
      <4>1. <<x[1], x[2] + 1>> = <<u, 1>> BY <3>1, <3>4 DEF old
      <4>2. x[2] + 1 = 1 BY <3>3, <4>1
      <4> QED BY <3>2, <3>4, <4>2
    <3>5. CASE x[1] # u
      <4>1. <<x[1], x[2]>> = <<u, 1>> BY <3>1, <3>2, <3>5 DEF old
      <4> QED BY <3>3, <3>5, <4>1
    <3> QED BY <3>4, <3>5
  <2> QED BY <2>1, <2>2
<1> QED BY <1>5, <1>6

\* An invitation is sent.
LEMMA InvitesSent ==
  ASSUME invites \in [User -> Seq(Invitation)], NEW v \in User,
         NEW inv \in Invitation,
         NEW J, J[v] = Append(invites[v], inv),
         \A w \in User \ {v} : J[w] = invites[w], NEW r
  PROVE  /\ inv.room # r => InvitesTo(J, r) = InvitesTo(invites, r)
         /\ InvitesTo(invites, r) = {} => AtMostOne(InvitesTo(J, r))
<1>1. invites[v] \in Seq(Invitation) OBVIOUS
<1>2. /\ Len(invites[v]) \in Nat /\ DOMAIN invites[v] = 1 .. Len(invites[v])
      /\ DOMAIN J[v] = 1 .. (Len(invites[v]) + 1)
      /\ \A j \in 1 .. Len(invites[v]) : J[v][j] = invites[v][j]
      /\ J[v][Len(invites[v]) + 1] = inv
  BY <1>1, SeqFacts, AppendFacts
<1>3. \A w \in User : \A j \in DOMAIN J[w] :
        \/ j \in DOMAIN invites[w] /\ J[w][j] = invites[w][j]
        \/ w = v /\ j = Len(invites[v]) + 1 /\ J[w][j] = inv
  <2>1. \A j \in DOMAIN J[v] : j \in 1 .. Len(invites[v]) \/ j = Len(invites[v]) + 1
    BY <1>2
  <2>2. \A j \in DOMAIN J[v] :
          \/ j \in DOMAIN invites[v] /\ J[v][j] = invites[v][j]
          \/ j = Len(invites[v]) + 1 /\ J[v][j] = inv
    BY <1>2, <2>1
  <2> TAKE w \in User
  <2>3. CASE w = v BY <2>2, <2>3
  <2>4. CASE w # v
    <3>1. J[w] = invites[w] BY <2>4
    <3> QED BY <3>1
  <2> QED BY <2>3, <2>4
<1>4. \A w \in User : \A j \in DOMAIN invites[w] :
        j \in DOMAIN J[w] /\ J[w][j] = invites[w][j]
  <2>1. \A j \in DOMAIN invites[v] : j \in DOMAIN J[v] /\ J[v][j] = invites[v][j]
    BY <1>2
  <2> TAKE w \in User
  <2>2. CASE w = v BY <2>1, <2>2
  <2>3. CASE w # v
    <3>1. J[w] = invites[w] BY <2>3
    <3> QED BY <3>1
  <2> QED BY <2>2, <2>3
<1>5. \A x \in InvitesTo(invites, r) : x \in InvitesTo(J, r)
  <2> SUFFICES ASSUME NEW x \in InvitesTo(invites, r)
               PROVE  x \in InvitesTo(J, r)
    OBVIOUS
  <2>1. /\ x = <<x[1], x[2]>> /\ x[1] \in User /\ x[2] \in DOMAIN invites[x[1]]
        /\ invites[x[1]][x[2]].room = r
    BY InInvites
  <2>2. <<x[1], x[2]>> \in InvitesTo(J, r) BY <1>4, <2>1, InInvites
  <2> QED BY <2>1, <2>2
<1>6. \A x \in InvitesTo(J, r) :
        \/ x \in InvitesTo(invites, r)
        \/ inv.room = r /\ x = <<v, Len(invites[v]) + 1>>
  <2> SUFFICES ASSUME NEW x \in InvitesTo(J, r)
               PROVE  \/ x \in InvitesTo(invites, r)
                      \/ inv.room = r /\ x = <<v, Len(invites[v]) + 1>>
    OBVIOUS
  <2>1. /\ x = <<x[1], x[2]>> /\ x[1] \in User /\ x[2] \in DOMAIN J[x[1]]
        /\ J[x[1]][x[2]].room = r
    BY InInvites
  <2>2. CASE /\ x[2] \in DOMAIN invites[x[1]]
             /\ J[x[1]][x[2]] = invites[x[1]][x[2]]
    <3>1. <<x[1], x[2]>> \in InvitesTo(invites, r) BY <2>1, <2>2, InInvites
    <3> QED BY <2>1, <3>1
  <2>3. CASE x[1] = v /\ x[2] = Len(invites[v]) + 1 /\ J[x[1]][x[2]] = inv
    BY <2>1, <2>3
  <2> QED BY <1>3, <2>1, <2>2, <2>3
<1> QED BY <1>5, <1>6 DEF AtMostOne

\* The invitations of a process that is killed are lost.
LEMMA InvitesLost ==
  ASSUME invites \in [User -> Seq(Invitation)], NEW u \in User,
         NEW J, \A v \in User : J[v] = IF v = u THEN <<>> ELSE invites[v], NEW r
  PROVE  Fewer(InvitesTo(invites, r), InvitesTo(J, r))
<1>1. \A x \in InvitesTo(J, r) : x \in InvitesTo(invites, r)
  <2> SUFFICES ASSUME NEW x \in InvitesTo(J, r)
               PROVE  x \in InvitesTo(invites, r)
    OBVIOUS
  <2>1. /\ x = <<x[1], x[2]>> /\ x[1] \in User /\ x[2] \in DOMAIN J[x[1]]
        /\ J[x[1]][x[2]].room = r
    BY InInvites
  <2>2. x[1] # u
    <3> SUFFICES ASSUME x[1] = u PROVE FALSE OBVIOUS
    <3>1. x[2] \in DOMAIN <<>> BY <2>1
    <3> QED BY <3>1
  <2>3. <<x[1], x[2]>> \in InvitesTo(invites, r)
    BY <2>1, <2>2, InInvites
  <2> QED BY <2>1, <2>3
<1> QED BY <1>1 DEF Fewer, AtMostOne
-----------------------------------------------------------------------------
(* Steps that are calm for a room.                                         *)

NetAddressed ==
  /\ \A u \in User : \A k \in DOMAIN invites[u] :
       invites[u][k].from = invites[u][k].room[1]
  /\ \A u \in User : \A j \in DOMAIN inbox[u] :
       inbox[u][j].kind = "ring" => inbox[u][j].room[1] = u

\* The announcement of the call of room r does not move in the net.
CalmNet(r) ==
  /\ members'[r] \subseteq members[r]
  /\ Fewer(InvitesTo(invites, r), InvitesTo(invites', r))
  /\ Settled(inbox[r[1]], inbox'[r[1]], r)

\* What happens to the inbox of phone v, R being the rooms it is told of.
BoxStep(v, R) ==
  \/ inbox'[v] = inbox[v]
  \/ inbox[v] # <<>> /\ inbox'[v] = Tail(inbox[v])
  \/ inbox'[v] = <<>>
  \/ \E m \in Msg :
       /\ inbox'[v] = Append(inbox[v], m)
       /\ m.kind = "ring" => m.room[1] = v
       /\ m.kind \in {"peers", "newPeer", "ring"} => m.room \in R

LEMMA BoxesCalm ==
  ASSUME NetType, NetAddressed, NEW v \in User, NEW R, BoxStep(v, R)
  PROVE  /\ \A j \in DOMAIN inbox'[v] :
              inbox'[v][j].kind = "ring" => inbox'[v][j].room[1] = v
         /\ \A r \in Room \ R : Settled(inbox[v], inbox'[v], r)
<1> DEFINE q == inbox[v]
           p == inbox'[v]
           OK(x) == \A j \in DOMAIN x : x[j].kind = "ring" => x[j].room[1] = v
<1>1. q \in Seq(Msg) /\ OK(q) BY DEF NetType, NetAddressed
<1>2. \/ p = q
      \/ q # <<>> /\ p = Tail(q)
      \/ p = <<>>
      \/ \E m \in Msg : /\ p = Append(q, m)
                        /\ m.kind = "ring" => m.room[1] = v
                        /\ m.kind \in {"peers", "newPeer", "ring"} => m.room \in R
  BY DEF BoxStep
<1> SUFFICES OK(p) /\ \A r \in Room \ R : Settled(q, p, r)
  OBVIOUS
<1> HIDE DEF q, p
<1>3. CASE p = q BY <1>1, <1>3, SettledSame
<1>4. CASE q # <<>> /\ p = Tail(q)
  <2>1. /\ Len(q) \in Nat /\ DOMAIN q = 1 .. Len(q)
        /\ DOMAIN Tail(q) = 1 .. (Len(q) - 1)
        /\ \A j \in 1 .. (Len(q) - 1) : Tail(q)[j] = q[j + 1]
    BY <1>1, <1>4, SeqFacts
  <2>2. \A j \in DOMAIN Tail(q) : j + 1 \in DOMAIN q /\ Tail(q)[j] = q[j + 1]
    BY <2>1
  <2>3. OK(p) BY <1>1, <1>4, <2>2
  <2> QED BY <1>1, <1>4, <2>3, SettledTail
<1>5. CASE p = <<>>
  <2>1. DOMAIN p = {} BY <1>5
  <2>2. \A k, r : MsgsOf(p, k, r) = {} BY <2>1 DEF MsgsOf
  <2> QED BY <2>1, <2>2 DEF Settled, Fewer, Ordered, AtMostOne
<1>6. ASSUME NEW m \in Msg, p = Append(q, m),
             m.kind = "ring" => m.room[1] = v,
             m.kind \in {"peers", "newPeer", "ring"} => m.room \in R
      PROVE  OK(p) /\ \A r \in Room \ R : Settled(q, p, r)
  <2>1. \A j \in DOMAIN Append(q, m) :
          \/ j \in DOMAIN q /\ Append(q, m)[j] = q[j]
          \/ Append(q, m)[j] = m
    BY <1>1, SeqFacts, AppendFacts
  <2>2. OK(Append(q, m)) BY <1>1, <1>6, <2>1
  <2>3. \A r \in Room \ R :
          m.kind \notin {"peers", "newPeer", "ring"} \/ m.room # r
    BY <1>6
  <2>4. \A r \in Room \ R : Settled(q, Append(q, m), r)
    BY <1>1, <2>3, SettledAppend
  <2> QED BY <1>6, <2>2, <2>4
<1> QED BY <1>2, <1>3, <1>4, <1>5, <1>6

\* No invitation is sent or taken.
LEMMA NetCalm ==
  ASSUME NetType, NetAddressed, NEW R, \A v \in User : BoxStep(v, R),
         UNCHANGED invites, \A r \in Room \ R : members'[r] \subseteq members[r]
  PROVE  NetAddressed' /\ \A r \in Room \ R : CalmNet(r)
<1>1. NetAddressed'
  <2>1. \A u \in User : \A j \in DOMAIN inbox'[u] :
          inbox'[u][j].kind = "ring" => inbox'[u][j].room[1] = u
    BY BoxesCalm
  <2> QED BY <2>1 DEF NetAddressed
<1>2. ASSUME NEW r \in Room \ R PROVE CalmNet(r)
  <2>1. r[1] \in User BY RoomShape
  <2>2. Settled(inbox[r[1]], inbox'[r[1]], r) BY <2>1, BoxesCalm
  <2> QED BY <2>2 DEF CalmNet, Fewer
<1> QED BY <1>1, <1>2

LEMMA SilentCalm ==
  ASSUME NetType, NetAddressed, UNCHANGED net
  PROVE  NetAddressed' /\ \A r \in Room : CalmNet(r)
<1>1. \A v \in User : BoxStep(v, {}) BY DEF net, BoxStep
<1>2. Room \ {} = Room OBVIOUS
<1>3. NetAddressed' /\ \A r \in Room \ {} : CalmNet(r)
  BY <1>1, NetCalm DEF net
<1> QED BY <1>2, <1>3

LEMMA HandledCalm ==
  ASSUME NetType, NetAddressed, NEW u \in User, inbox[u] # <<>>, Handled(u)
  PROVE  NetAddressed' /\ \A r \in Room : CalmNet(r)
<1>1. \A v \in User : inbox'[v] = IF v = u THEN Tail(inbox[u]) ELSE inbox[v]
  BY DEF Handled, NetType
<1>2. \A v \in User : BoxStep(v, {}) BY <1>1 DEF BoxStep
<1>3. Room \ {} = Room OBVIOUS
<1>4. NetAddressed' /\ \A r \in Room \ {} : CalmNet(r)
  BY <1>2, NetCalm DEF Handled
<1> QED BY <1>3, <1>4

\* The server delivers at most one message to a phone.
LEMMA DeliveredBox ==
  ASSUME NetType, NEW out, Deliver(out), NEW v \in User, NEW R,
         \/ out[v] = <<>>
         \/ \E m \in Msg :
              /\ out[v] = <<m>>
              /\ m.kind = "ring" => m.room[1] = v
              /\ m.kind \in {"peers", "newPeer", "ring"} => m.room \in R
  PROVE  BoxStep(v, R)
<1>1. CASE ~alive[v]
  <2>1. inbox'[v] = inbox[v] BY <1>1 DEF Deliver
  <2> QED BY <2>1 DEF BoxStep
<1>2. CASE alive[v]
  <2>1. /\ out[v] = <<>> => inbox'[v] = inbox[v]
        /\ \A m \in Msg : out[v] = <<m>> => inbox'[v] = Append(inbox[v], m)
    BY <1>2, Delivered DEF NetType
  <2> QED BY <2>1 DEF BoxStep
<1> QED BY <1>1, <1>2

\* A message to one phone: only a ring announces anything.
LEMMA RelayBoxes ==
  ASSUME NetType, NEW k \in {"ring", "reject"}, NEW u \in User,
         NEW w \in User, NEW c \in Room, k = "ring" => c[1] = w,
         Deliver([Nothing EXCEPT ![w] = <<Message(k, u, c)>>]),
         NEW R, k = "ring" => c \in R, NEW v \in User
  PROVE  BoxStep(v, R)
<1> DEFINE m == Message(k, u, c)
           out == [Nothing EXCEPT ![w] = <<m>>]
<1>1. m \in Msg /\ m.kind = k /\ m.room = c BY DEF Message, Msg
<1> HIDE DEF m
<1>2. out[v] = IF v = w THEN <<m>> ELSE <<>> BY DEF Nothing
<1>3. Deliver(out) BY DEF m
<1> HIDE DEF out
<1>4. \/ out[v] = <<>>
      \/ \E x \in Msg :
           /\ out[v] = <<x>>
           /\ x.kind = "ring" => x.room[1] = v
           /\ x.kind \in {"peers", "newPeer", "ring"} => x.room \in R
  <2>1. CASE v = w BY <1>1, <1>2, <2>1
  <2>2. CASE v # w BY <1>2, <2>2
  <2> QED BY <2>1, <2>2
<1> QED BY <1>3, <1>4, DeliveredBox

\* Who enters hears who is there; the others hear of it.
LEMMA EnterBoxes ==
  ASSUME NetType, NetAddressed, NEW u \in User, NEW c \in Room, ServerEnter(u, c)
  PROVE  /\ NetAddressed' /\ \A r \in Room \ {c} : CalmNet(r)
         /\ invites' = invites /\ members'[c] \subseteq members[c] \cup {u}
         /\ alive[u] => \E w \in User \cup {Nobody} :
              inbox'[u] = Append(inbox[u], Message("peers", w, c))
         /\ \A v \in User \ {u} :
              \/ inbox'[v] = inbox[v]
              \/ inbox'[v] = Append(inbox[v], Message("newPeer", u, c))
<1> DEFINE others == members[c] \ {u}
<1>1. PICK w \in IF others = {} THEN {Nobody} ELSE others :
        Deliver([v \in User |->
                   IF v = u THEN <<Message("peers", w, c)>>
                   ELSE IF v \in others THEN <<Message("newPeer", u, c)>>
                   ELSE <<>>])
  BY DEF ServerEnter
<1>2. others \subseteq User BY DEF NetType
<1>3. w \in User \cup {Nobody} BY <1>2
<1> HIDE DEF others
<1> DEFINE a == Message("peers", w, c)
           b == Message("newPeer", u, c)
           out == [v \in User |-> IF v = u THEN <<a>>
                                  ELSE IF v \in others THEN <<b>> ELSE <<>>]
<1>4. /\ a \in Msg /\ a.kind = "peers" /\ a.room = c
      /\ b \in Msg /\ b.kind = "newPeer" /\ b.room = c
  BY <1>3 DEF Message, Msg
<1>5. Deliver(out) BY <1>1
<1>6. a = Message("peers", w, c) /\ b = Message("newPeer", u, c) OBVIOUS
<1> HIDE DEF a, b
<1>7. \A v \in User : out[v] = IF v = u THEN <<a>>
                               ELSE IF v \in others THEN <<b>> ELSE <<>>
  OBVIOUS
<1> HIDE DEF out
<1>8. \A v \in User : BoxStep(v, {c})
  <2> TAKE v \in User
  <2>1. CASE v = u
    <3>1. out[v] = <<a>> BY <1>7, <2>1
    <3> QED BY <1>4, <1>5, <3>1, DeliveredBox
  <2>2. CASE v # u /\ v \in others
    <3>1. out[v] = <<b>> BY <1>7, <2>2
    <3> QED BY <1>4, <1>5, <3>1, DeliveredBox
  <2>3. CASE v # u /\ v \notin others
    <3>1. out[v] = <<>> BY <1>7, <2>3
    <3> QED BY <1>5, <3>1, DeliveredBox
  <2> QED BY <2>1, <2>2, <2>3
<1>9. /\ members' = [members EXCEPT ![c] = @ \cup {u}] /\ UNCHANGED invites
  BY DEF ServerEnter
<1>10. /\ \A r \in Room \ {c} : members'[r] \subseteq members[r]
       /\ members'[c] \subseteq members[c] \cup {u}
  BY <1>9 DEF NetType
<1>11. NetAddressed' /\ \A r \in Room \ {c} : CalmNet(r)
  BY <1>8, <1>9, <1>10, NetCalm
<1>12. alive[u] => inbox'[u] = Append(inbox[u], a)
  BY <1>4, <1>5, <1>7, Delivered DEF NetType
<1>13. ASSUME NEW v \in User \ {u}
       PROVE  inbox'[v] = inbox[v] \/ inbox'[v] = Append(inbox[v], b)
  <2>1. CASE ~alive[v] BY <2>1, <1>5 DEF Deliver
  <2>2. CASE alive[v]
    <3>1. CASE v \in others
      <4>1. out[v] = <<b>> BY <1>7, <3>1
      <4> QED BY <1>4, <1>5, <2>2, <4>1, Delivered DEF NetType
    <3>2. CASE v \notin others
      <4>1. out[v] = <<>> BY <1>7, <3>2
      <4> QED BY <1>5, <2>2, <4>1, Delivered DEF NetType
    <3> QED BY <3>1, <3>2
  <2> QED BY <2>1, <2>2
<1> QED BY <1>3, <1>6, <1>9, <1>10, <1>11, <1>12, <1>13

LEMMA LeaveCalm ==
  ASSUME NetType, NetAddressed, NEW u \in User, NEW c \in Room, ServerLeave(u, c)
  PROVE  NetAddressed' /\ \A r \in Room : CalmNet(r)
<1> DEFINE m == Message("leave", u, c)
           others == members[c] \ {u}
           out == [v \in User |-> IF v \in others THEN <<m>> ELSE <<>>]
<1>1. m \in Msg /\ m.kind = "leave" BY DEF Message, Msg
<1>2. Deliver(out) /\ UNCHANGED invites
      /\ members' = [members EXCEPT ![c] = @ \ {u}]
  BY DEF ServerLeave
<1> HIDE DEF m, others
<1>3. \A v \in User : out[v] = IF v \in others THEN <<m>> ELSE <<>> OBVIOUS
<1> HIDE DEF out
<1>4. \A v \in User : BoxStep(v, {})
  <2> TAKE v \in User
  <2>1. CASE v \in others
    <3>1. out[v] = <<m>> BY <1>3, <2>1
    <3> QED BY <1>1, <1>2, <3>1, DeliveredBox
  <2>2. CASE v \notin others
    <3>1. out[v] = <<>> BY <1>3, <2>2
    <3> QED BY <1>2, <3>1, DeliveredBox
  <2> QED BY <2>1, <2>2
<1>5. \A r \in Room : members'[r] \subseteq members[r] BY <1>2 DEF NetType
<1>6. Room \ {} = Room OBVIOUS
<1>7. NetAddressed' /\ \A r \in Room \ {} : CalmNet(r)
  BY <1>2, <1>4, <1>5, NetCalm
<1> QED BY <1>6, <1>7

\* An invitation is sent by the maker of the room.
LEMMA InviteNet ==
  ASSUME NetType, NetAddressed, NEW u \in User, NEW w \in User, NEW c \in Room,
         c[1] = u, ServerInvite(u, w, c)
  PROVE  /\ NetAddressed' /\ \A r \in Room \ {c} : CalmNet(r)
         /\ inbox' = inbox /\ members' = members
         /\ InvitesTo(invites, c) = {} => AtMostOne(InvitesTo(invites', c))
<1> DEFINE inv == [from |-> u, room |-> c]
<1>1. /\ inbox' = inbox /\ members' = members
      /\ invites' = [invites EXCEPT ![w] = IF alive[w] THEN Append(@, inv) ELSE @]
  BY DEF ServerInvite
<1>2. inv \in Invitation /\ inv.from = u /\ inv.room = c BY DEF Invitation
<1>3. invites \in [User -> Seq(Invitation)] BY DEF NetType, Invitation
<1> HIDE DEF inv
<1>4. CASE ~alive[w]
  <2>1. \A I \in [User -> Seq(Invitation)] : [I EXCEPT ![w] = I[w]] = I
    OBVIOUS
  <2>2. invites' = [invites EXCEPT ![w] = invites[w]] BY <1>1, <1>4
  <2>3. invites' = invites BY <1>3, <2>1, <2>2
  <2>4. NetAddressed' BY <1>1, <2>3 DEF NetAddressed
  <2>5. \A r : CalmNet(r) BY <1>1, <2>3, SettledSame DEF CalmNet, Fewer
  <2>6. InvitesTo(invites, c) = {} => AtMostOne(InvitesTo(invites', c))
    BY <2>3 DEF AtMostOne
  <2> QED BY <1>1, <2>4, <2>5, <2>6
<1>5. CASE alive[w]
  <2>1. /\ invites'[w] = Append(invites[w], inv)
        /\ \A v \in User \ {w} : invites'[v] = invites[v]
        /\ invites[w] \in Seq(Invitation)
    BY <1>1, <1>3, <1>5
  <2>2. \A r : /\ c # r => InvitesTo(invites', r) = InvitesTo(invites, r)
               /\ InvitesTo(invites, r) = {} => AtMostOne(InvitesTo(invites', r))
    BY <1>2, <1>3, <2>1, InvitesSent
  <2>3. \A j \in DOMAIN Append(invites[w], inv) :
          \/ j \in DOMAIN invites[w] /\ Append(invites[w], inv)[j] = invites[w][j]
          \/ Append(invites[w], inv)[j] = inv
    BY <1>2, <2>1, SeqFacts, AppendFacts
  <2>4. \A v \in User : \A k \in DOMAIN invites'[v] :
          invites'[v][k].from = invites'[v][k].room[1]
    <3> TAKE v \in User
    <3>1. CASE v = w
      <4>1. \A k \in DOMAIN Append(invites[w], inv) :
              Append(invites[w], inv)[k].from = Append(invites[w], inv)[k].room[1]
        <5>1. \A k \in DOMAIN invites[w] :
                invites[w][k].from = invites[w][k].room[1]
          BY DEF NetAddressed
        <5>2. inv.from = inv.room[1] BY <1>2
        <5> HIDE DEF inv
        <5> DEFINE z == Append(invites[w], inv)
        <5>3. \A k \in DOMAIN z :
                (k \in DOMAIN invites[w] /\ z[k] = invites[w][k]) \/ z[k] = inv
          BY <2>3
        <5> HIDE DEF z
        <5>4. \A k \in DOMAIN z : z[k].from = z[k].room[1] BY <5>1, <5>2, <5>3
        <5> QED BY <5>4 DEF z
      <4> QED BY <2>1, <3>1, <4>1
    <3>2. CASE v # w
      <4>1. invites'[v] = invites[v] BY <2>1, <3>2
      <4> QED BY <4>1 DEF NetAddressed
    <3> QED BY <3>1, <3>2
  <2>5. NetAddressed' BY <1>1, <2>4 DEF NetAddressed
  <2>6. \A r \in Room \ {c} : CalmNet(r)
    <3> TAKE r \in Room \ {c}
    <3>1. InvitesTo(invites', r) = InvitesTo(invites, r) BY <2>2
    <3> QED BY <1>1, <3>1, SettledSame DEF CalmNet, Fewer
  <2> QED BY <1>1, <2>2, <2>5, <2>6
<1> QED BY <1>4, <1>5

-----------------------------------------------------------------------------
(* Tasks that come and go without moving an announcement.                  *)

\* The tasks that RingsItsCaller speaks of are the same.
LEMMA CallerSame ==
  ASSUME NEW o, NEW s, RingsItsCaller(o), s.room = o.room, s.coming = o.coming,
         s.target = o.target, s.state = "Incoming" => o.state = "Incoming",
         \A k \in {"create", "ringBack", "join"} :
           TasksOf(s.tasks, k) = TasksOf(o.tasks, k)
  PROVE  RingsItsCaller(s)
<1>1. /\ HasTask(s.tasks, "ringBack") <=> HasTask(o.tasks, "ringBack")
      /\ HasTask(s.tasks, "join") <=> HasTask(o.tasks, "join")
  BY HasIsSome
<1> QED BY <1>1 DEF RingsItsCaller

\* The first task is done: no other one rings back or creates.
LEMMA CallerRest ==
  ASSUME NEW o, NEW s, RingsItsCaller(o), s.coming = o.coming,
         s.state = "Incoming" => o.state = "Incoming",
         o.tasks \in Seq(Task), o.tasks # <<>>, s.tasks = Tail(o.tasks)
  PROVE  RingsItsCaller(s)
<1>1. ASSUME NEW k \in {"create", "ringBack"} PROVE TasksOf(s.tasks, k) = {}
  <2> SUFFICES ASSUME NEW j \in TasksOf(s.tasks, k) PROVE FALSE
    OBVIOUS
  <2>1. DOMAIN Tail(o.tasks) \subseteq Nat
    <3>1. Len(o.tasks) \in Nat /\ DOMAIN Tail(o.tasks) = 1 .. (Len(o.tasks) - 1)
      BY SeqFacts
    <3> QED BY <3>1
  <2>2. j \in Nat BY <2>1 DEF TasksOf
  <2>3. j + 1 \in TasksOf(o.tasks, k) /\ j # 0 BY TasksOfTail
  <2>4. j + 1 = 1 BY <2>3 DEF RingsItsCaller
  <2> QED BY <2>2, <2>3, <2>4
<1>2. HasTask(s.tasks, "join") => HasTask(o.tasks, "join") BY HasTaskTail
<1> QED BY <1>1, <1>2, HasIsSome DEF RingsItsCaller

\* Session o becomes s, and nothing of it announces more than before.
Calmer(o, s) ==
  /\ s.room = o.room /\ s.coming = o.coming /\ (o.stray => s.stray)
  /\ RingsItsCaller(s)
  /\ \A k \in {"create", "peers", "newPeer", "ringBack"} :
       Fewer(TasksOf(o.tasks, k), TasksOf(s.tasks, k))

LEMMA CalmerSame ==
  ASSUME NEW o, NEW s, RingsItsCaller(o), s.room = o.room, s.coming = o.coming,
         o.stray => s.stray, s.target = o.target,
         s.state = "Incoming" => o.state = "Incoming",
         \A k \in {"create", "ringBack", "join", "peers", "newPeer"} :
           TasksOf(s.tasks, k) = TasksOf(o.tasks, k)
  PROVE  Calmer(o, s)
<1>1. RingsItsCaller(s) BY CallerSame
<1> QED BY <1>1 DEF Calmer, Fewer

LEMMA CalmerPost ==
  ASSUME NEW o, NEW s, RingsItsCaller(o), s.room = o.room, s.coming = o.coming,
         o.stray => s.stray, s.target = o.target,
         s.state = "Incoming" => o.state = "Incoming",
         o.tasks \in Seq(Task), NEW x \in Task, s.tasks = Append(o.tasks, x),
         x.kind \notin {"create", "ringBack", "peers", "newPeer"},
         x.kind = "join" => o.coming
  PROVE  Calmer(o, s)
<1>1. \A k \in {"create", "ringBack", "peers", "newPeer"} :
        TasksOf(s.tasks, k) = TasksOf(o.tasks, k)
  BY TasksOfAppend
<1>2. HasTask(s.tasks, "ringBack") <=> HasTask(o.tasks, "ringBack")
  BY <1>1, HasIsSome
<1>3. HasTask(s.tasks, "join") \/ s.state = "Incoming" => s.coming
  BY HasTaskAppend DEF RingsItsCaller
<1>4. RingsItsCaller(s) BY <1>1, <1>2, <1>3 DEF RingsItsCaller
<1> QED BY <1>1, <1>4 DEF Calmer, Fewer

LEMMA CalmerRest ==
  ASSUME NEW o, NEW s, RingsItsCaller(o), s.room = o.room, s.coming = o.coming,
         o.stray => s.stray, s.state = "Incoming" => o.state = "Incoming",
         o.tasks \in Seq(Task), o.tasks # <<>>, s.tasks = Tail(o.tasks)
  PROVE  Calmer(o, s)
<1>1. RingsItsCaller(s) BY CallerRest
<1>2. \A k : Fewer(TasksOf(o.tasks, k), TasksOf(s.tasks, k)) BY TasksOfTail
<1> QED BY <1>1, <1>2 DEF Calmer

-----------------------------------------------------------------------------
(* The present sessions of the phones.                                     *)

\* PresentRing of phone u by its sessions S, its ring g, its inbox q, and the
\* invitations I, the sessions Z and the rooms E of all.
RungOK(u, S, g, q, I, Z, E) ==
  S # <<>> /\ ~S[Len(S)].stray =>
    /\ S[Len(S)].state = "Connected" => g = "off"
    /\ ~S[Len(S)].coming =>
         /\ \A i \in DOMAIN S :
              ~S[i].coming /\ S[i].room = S[Len(S)].room => i = Len(S)
         /\ Announced(u, S[Len(S)], q, I, Z, E[S[Len(S)].room])

LEMMA PresentIs ==
  ASSUME NEW u \in User
  PROVE  /\ PresentRing(u) <=>
              (alive[u] => RungOK(u, ses[u], ring[u], inbox[u], invites, ses, members))
         /\ PresentRing(u)' <=>
              (alive'[u] => RungOK(u, ses'[u], ring'[u], inbox'[u], invites', ses', members'))
<1>1. PresentRing(u) <=>
        (alive[u] => RungOK(u, ses[u], ring[u], inbox[u], invites, ses, members))
  BY DEF PresentRing, RungOK, HasSession, Current, Cur
<1>2. PresentRing(u)' <=>
        (alive'[u] => RungOK(u, ses'[u], ring'[u], inbox'[u], invites', ses', members'))
  BY DEF PresentRing, RungOK, HasSession, Current, Cur
<1> QED BY <1>1, <1>2

\* The announcements of room r do not move, in the net or in the sessions.
Calm(r) ==
  /\ CalmNet(r)
  /\ Fewer(CallsTo(ses, r), CallsTo(ses', r))
  /\ Ringing(ses', r) => Ringing(ses, r)

LEMMA CalmUnheard ==
  ASSUME NEW r, Unheard(r), Calm(r)
  PROVE  Unheard(r)'
<1> DEFINE K == {"peers", "newPeer", "ring"}
<1>1. /\ members'[r] = {} /\ InvitesTo(invites', r) = {} /\ CallsTo(ses', r) = {}
  BY DEF Unheard, Calm, CalmNet, Fewer
<1>2. \A k \in K : MsgsOf(inbox[r[1]], k, r) = {} BY HasIsSome DEF Unheard
<1>3. \A k \in K : MsgsOf(inbox'[r[1]], k, r) = {}
  BY <1>2 DEF Calm, CalmNet, Settled, Fewer
<1>4. \A k \in K : ~HasMsg(inbox'[r[1]], k, r) BY <1>3, HasIsSome
<1> QED BY <1>1, <1>4 DEF Unheard

LEMMA CalmAnnounced ==
  ASSUME NEW u, NEW o, Announced(u, o, inbox[u], invites, ses, members[o.room]),
         o.room[1] = u, Calm(o.room), NEW s, s.room = o.room,
         \A k \in {"create", "peers", "newPeer"} :
           Fewer(TasksOf(o.tasks, k), TasksOf(s.tasks, k)),
         s.state = "Connected" => o.state = "Connected" \/ HasTask(o.tasks, "newPeer")
  PROVE  Announced(u, s, inbox'[u], invites', ses', members'[s.room])
<1>1. /\ Settled(inbox[u], inbox'[u], o.room)
      /\ Fewer(InvitesTo(invites, o.room), InvitesTo(invites', o.room))
      /\ Fewer(CallsTo(ses, o.room), CallsTo(ses', o.room))
      /\ Ringing(ses', o.room) => Ringing(ses, o.room)
      /\ members'[o.room] \subseteq members[o.room]
  BY DEF Calm, CalmNet
<1> QED BY <1>1, Kept

\* S and T differ at most in a session that is not the present one.
SamePresent(S, T) ==
  /\ Len(T) = Len(S) /\ DOMAIN T = DOMAIN S
  /\ T # <<>> => S # <<>> /\ T[Len(S)] = S[Len(S)]
  /\ \A i \in DOMAIN S : T[i].coming = S[i].coming /\ T[i].room = S[i].room

\* A phone whose present session is left alone.
LEMMA OtherPresent ==
  ASSUME SetupInv, NEW v \in User, PresentRing(v), SamePresent(ses[v], ses'[v]),
         ring'[v] \in {ring[v], "off"}, alive'[v] => alive[v],
         ses[v] \in Seq(Session),
         LET c == Current(v) IN
         HasSession(v) /\ ~c.stray /\ ~c.coming /\ c.room[1] = v
           /\ Announced(v, c, inbox[v], invites, ses, members[c.room]) =>
             Calm(c.room) \/ Announced(v, c, inbox'[v], invites', ses', members'[c.room])
  PROVE  PresentRing(v)'
<1> DEFINE T == ses'[v]
           c == ses[v][Len(ses[v])]
<1>0. SamePresent(ses[v], T) OBVIOUS
<1> HIDE DEF T
<1> SUFFICES ASSUME alive[v], T # <<>>, ~T[Len(T)].stray
             PROVE  RungOK(v, T, ring'[v], inbox'[v], invites', ses', members')
  BY PresentIs DEF RungOK, T
<1>a. /\ ses[v] # <<>> /\ Len(T) = Len(ses[v]) /\ T[Len(T)] = c /\ ~c.stray
      /\ DOMAIN T = DOMAIN ses[v]
      /\ \A i \in DOMAIN ses[v] : T[i].coming = ses[v][i].coming /\ T[i].room = ses[v][i].room
  BY <1>0 DEF SamePresent
<1>1. RungOK(v, ses[v], ring[v], inbox[v], invites, ses, members) BY PresentIs
<1>2. c.state = "Connected" => ring'[v] = "off" BY <1>1, <1>a DEF RungOK
<1>3. Current(v) = c /\ HasSession(v) BY <1>a DEF Current, Cur, HasSession
<1>4. ASSUME ~c.coming
      PROVE  /\ \A i \in DOMAIN ses[v] :
                  ~ses[v][i].coming /\ ses[v][i].room = c.room => i = Len(ses[v])
             /\ Announced(v, c, inbox'[v], invites', ses', members'[c.room])
  <2>1. /\ Announced(v, c, inbox[v], invites, ses, members[c.room])
        /\ \A i \in DOMAIN ses[v] :
             ~ses[v][i].coming /\ ses[v][i].room = c.room => i = Len(ses[v])
    BY <1>1, <1>4, <1>a DEF RungOK
  <2>2. c.room[1] = v
    <3>1. Len(ses[v]) \in DOMAIN ses[v] BY <1>a, SeqFacts
    <3>2. PhoneOK(v, ses[v], inbox[v], invites[v], RoomsOf(v)) BY DEF SetupInv
    <3>3. OwnRoom(v, c, Cardinality(Dialled(ses[v]))) BY <3>1, <3>2 DEF PhoneOK
    <3> QED BY <1>4, <3>3 DEF OwnRoom
  <2>3. Calm(c.room) \/ Announced(v, c, inbox'[v], invites', ses', members'[c.room])
    BY <1>3, <1>4, <1>a, <2>1, <2>2
  <2>4. ASSUME Calm(c.room)
        PROVE  Announced(v, c, inbox'[v], invites', ses', members'[c.room])
    <3> HIDE DEF c
    <3>1. \A k \in {"create", "peers", "newPeer"} :
            Fewer(TasksOf(c.tasks, k), TasksOf(c.tasks, k))
      BY DEF Fewer
    <3> QED BY <2>1, <2>2, <2>4, <3>1, CalmAnnounced
  <2> QED BY <2>1, <2>3, <2>4
<1> HIDE DEF c
<1> QED BY <1>2, <1>4, <1>a DEF RungOK

\* Of the room of a session somebody has heard.
LEMMA Heard ==
  ASSUME IInv, SetupInv, RingInv, NEW u \in User, alive[u], NEW i \in DOMAIN ses[u]
  PROVE  ses[u][i].room \in Room /\ ~Undialled(ses[u][i].room)
<1> DEFINE o == ses[u][i]
<1>1. /\ ses[u] \in Seq(Session) /\ o \in Session
  BY SessionFacts
<1>2. o.room \in Room /\ o.coming \in BOOLEAN BY <1>1 DEF Session
<1>3. CASE o.coming
  <2>1. <<u, i>> \in CallsTo(ses, o.room) BY <1>3, InCalls
  <2>2. ~Unheard(o.room) BY <2>1 DEF Unheard
  <2> QED BY <1>2, <2>2 DEF RingInv
<1>4. CASE ~o.coming
  <2>1. OwnRoom(u, o, Cardinality(Dialled(ses[u]))) BY DEF SetupInv, PhoneOK
  <2>2. o.room[1] = u /\ o.room[2] <= Cardinality(Dialled(ses[u]))
    BY <1>4, <2>1 DEF OwnRoom
  <2>3. Cardinality(Dialled(ses[u])) \in Nat BY <1>1, DialledAppend
  <2>4. o.room[2] \in Nat BY <1>2, RoomShape
  <2> QED BY <1>2, <2>2, <2>3, <2>4 DEF Undialled
<1> QED BY <1>2, <1>3, <1>4

\* A step rewrites session i of phone u to s.  C is the room whose
\* announcement it may move.
LEMMA RingRewritten ==
  ASSUME IInv, SetupInv, RingInv, NEW u \in User, alive[u], NEW i \in DOMAIN ses[u],
         NEW s \in Session, SetSession(u, i, s), UNCHANGED alive,
         s.room = ses[u][i].room, s.coming = ses[u][i].coming,
         ses[u][i].stray => s.stray, RingsItsCaller(s),
         HasTask(s.tasks, "ringBack") => HasTask(ses[u][i].tasks, "ringBack"),
         \A v \in User : ring'[v] \in {ring[v], "off"} \/ (v = u /\ i = Cur(u)),
         NEW C, C \in Room => ~Undialled(C),
         NetAddressed', \A r \in Room \ {C} : CalmNet(r),
         i = Cur(u) /\ ~s.stray =>
           /\ s.state = "Connected" => ring'[u] = "off"
           /\ ~s.coming => Announced(u, s, inbox'[u], invites', ses', members'[s.room]),
         \A v \in User :
           LET c == Current(v) IN
           (v # u \/ i # Cur(u)) /\ HasSession(v) /\ ~c.stray /\ ~c.coming
             /\ c.room[1] = v /\ c.room = C
             /\ Announced(v, c, inbox[v], invites, ses, members[C]) =>
               Announced(v, c, inbox'[v], invites', ses', members'[C])
  PROVE  RingInv'
<1> DEFINE o == ses[u][i]
           T == [ses[u] EXCEPT ![i] = s]
<1>1. /\ ses \in [User -> Seq(Session)] /\ ses[u] \in Seq(Session)
  BY DEF IInv, TypeOK
<1>2. /\ T \in Seq(Session) /\ Len(T) = Len(ses[u]) /\ DOMAIN T = DOMAIN ses[u]
      /\ \A j \in DOMAIN T : T[j] = IF j = i THEN s ELSE ses[u][j]
  <2>1. i \in 1 .. Len(ses[u]) BY <1>1, SeqFacts
  <2> QED BY <1>1, <2>1, ExceptSeq
<1>3. \A v \in User : ses'[v] = IF v = u THEN T ELSE ses[v]
  BY <1>1 DEF SetSession
<1> HIDE DEF T
<1>4. /\ \A r : CallsTo(ses', r) = CallsTo(ses, r)
      /\ \A r : Ringing(ses', r) => Ringing(ses, r)
      /\ \A v \in User : Dialled(ses'[v]) = Dialled(ses[v])
  BY <1>1, CallsRewritten
<1>5. \A r \in Room \ {C} : Calm(r) BY <1>4 DEF Calm, Fewer
<1>6. Addressed'
  <2>1. ASSUME NEW v \in User, NEW j \in DOMAIN ses'[v]
        PROVE  RingsItsCaller(ses'[v][j])
    <3>1. CASE v = u /\ j = i BY <1>2, <1>3, <3>1
    <3>2. CASE v = u /\ j # i
      <4>1. j \in DOMAIN ses[u] /\ ses'[v][j] = ses[u][j]
        BY <1>2, <1>3, <2>1, <3>2
      <4> QED BY <3>2, <4>1 DEF RingInv, Addressed
    <3>3. CASE v # u
      <4>1. ses'[v] = ses[v] BY <1>3, <3>3
      <4> QED BY <2>1, <4>1 DEF RingInv, Addressed
    <3> QED BY <3>1, <3>2, <3>3
  <2> QED BY <2>1 DEF Addressed, NetAddressed
<1>7. ASSUME NEW r \in Room, Undialled(r)' PROVE Unheard(r)'
  <2>1. r[1] \in User BY RoomShape
  <2>2. Undialled(r) BY <1>4, <1>7, <2>1 DEF Undialled
  <2>3. Unheard(r) /\ r # C BY <2>2 DEF RingInv
  <2> QED BY <1>5, <2>3, CalmUnheard
<1>8. ASSUME NEW v \in User PROVE PresentRing(v)'
  <2>1. CASE v = u /\ i = Cur(u)
    <3>1. RungOK(u, ses[u], ring[u], inbox[u], invites, ses, members)
      BY PresentIs DEF RingInv
    <3>2. i = Len(ses[u]) /\ T[Len(T)] = s /\ ses[u] # <<>>
      BY <1>1, <1>2, <2>1, SeqFacts DEF Cur
    <3>3. \A j \in DOMAIN T : T[j].coming = ses[u][j].coming /\ T[j].room = ses[u][j].room
      BY <1>2
    <3>4. RungOK(u, T, ring'[u], inbox'[u], invites', ses', members')
      <4> SUFFICES ASSUME ~s.stray
                   PROVE  /\ s.state = "Connected" => ring'[u] = "off"
                          /\ ~s.coming =>
                               /\ \A j \in DOMAIN T :
                                    ~T[j].coming /\ T[j].room = s.room => j = Len(T)
                               /\ Announced(u, s, inbox'[u], invites', ses', members'[s.room])
        BY <3>2 DEF RungOK
      <4>1. ~s.coming =>
              \A j \in DOMAIN ses[u] :
                ~ses[u][j].coming /\ ses[u][j].room = s.room => j = Len(ses[u])
        BY <3>1, <3>2 DEF RungOK
      <4> QED BY <1>2, <2>1, <3>3, <4>1
    <3>5. ses'[u] = T BY <1>3
    <3> QED BY <2>1, <3>4, <3>5, PresentIs
  <2>2. CASE v # u \/ i # Cur(u)
    <3>1. ring'[v] \in {ring[v], "off"} BY <2>2
    <3>2. SamePresent(ses[v], ses'[v])
      <4>1. CASE v # u
        <5>1. ses'[v] = ses[v] BY <1>3, <4>1
        <5> QED BY <5>1 DEF SamePresent
      <4>2. CASE v = u
        <5>1. ses'[v] = T BY <1>3, <4>2
        <5>2. i # Len(ses[u]) /\ ses[u] # <<>> /\ Len(ses[u]) \in DOMAIN ses[u]
          BY <1>1, <2>2, <4>2, SeqFacts DEF Cur
        <5>3. SamePresent(ses[u], T) BY <1>2, <5>2 DEF SamePresent
        <5> QED BY <4>2, <5>1, <5>3
      <4> QED BY <4>1, <4>2
    <3>3. ASSUME HasSession(v), ~Current(v).stray, ~Current(v).coming,
                 Current(v).room[1] = v,
                 Announced(v, Current(v), inbox[v], invites, ses, members[Current(v).room])
          PROVE  \/ Calm(Current(v).room)
                 \/ Announced(v, Current(v), inbox'[v], invites', ses',
                              members'[Current(v).room])
      <4>1. Current(v).room \in Room BY <3>3, CurrentFacts DEF Session
      <4>2. CASE Current(v).room # C BY <1>5, <4>1, <4>2
      <4>3. CASE Current(v).room = C BY <2>2, <3>3, <4>3
      <4> QED BY <4>2, <4>3
    <3>4. PresentRing(v) /\ ses[v] \in Seq(Session) /\ (alive'[v] => alive[v])
      BY <1>1 DEF RingInv
    <3> QED BY <3>1, <3>2, <3>3, <3>4, OtherPresent
  <2> QED BY <2>1, <2>2
<1> QED BY <1>6, <1>7, <1>8 DEF RingInv

\* A step that is calm for every room.
LEMMA CalmStep ==
  ASSUME IInv, SetupInv, RingInv, NEW u \in User, alive[u], NEW i \in DOMAIN ses[u],
         NEW s \in Session, SetSession(u, i, s), UNCHANGED alive,
         Calmer(ses[u][i], s),
         \A v \in User : ring'[v] \in {ring[v], "off"} \/ (v = u /\ i = Cur(u)),
         NetAddressed', \A r \in Room : CalmNet(r),
         i = Cur(u) /\ ~s.stray /\ s.state = "Connected" =>
           /\ ring'[u] = "off"
           /\ \/ s.coming \/ ses[u][i].state = "Connected"
              \/ HasTask(ses[u][i].tasks, "newPeer")
  PROVE  RingInv'
<1> DEFINE o == ses[u][i]
<1>1. ses \in [User -> Seq(Session)] BY DEF IInv, TypeOK
<1>2. /\ s.room = o.room /\ s.coming = o.coming /\ (o.stray => s.stray)
      /\ RingsItsCaller(s)
      /\ \A k \in {"create", "peers", "newPeer", "ringBack"} :
           Fewer(TasksOf(o.tasks, k), TasksOf(s.tasks, k))
  BY DEF Calmer
<1>3. HasTask(s.tasks, "ringBack") => HasTask(o.tasks, "ringBack")
  BY <1>2, HasIsSome DEF Fewer
<1>4. /\ \A r : CallsTo(ses', r) = CallsTo(ses, r)
      /\ \A r : Ringing(ses', r) => Ringing(ses, r)
  BY <1>1, <1>2, <1>3, CallsRewritten
<1>5. \A r \in Room : Calm(r) BY <1>4 DEF Calm, Fewer
<1>6. ASSUME i = Cur(u), ~s.stray, ~s.coming
      PROVE  Announced(u, s, inbox'[u], invites', ses', members'[s.room])
  <2>1. HasSession(u) /\ Current(u) = o
    BY <1>6, SessionFacts DEF HasSession, Current, Cur
  <2>2. Announced(u, o, inbox[u], invites, ses, members[o.room])
    BY <1>2, <1>6, <2>1 DEF RingInv, PresentRing
  <2>3. o.room[1] = u /\ o.room \in Room
    BY <1>2, <1>6, SessionFacts DEF Session
  <2>4. s.state = "Connected" => o.state = "Connected" \/ HasTask(o.tasks, "newPeer")
    BY <1>6
  <2> HIDE DEF o
  <2> QED BY <1>2, <1>5, <2>2, <2>3, <2>4, CalmAnnounced
<1>7. PICK C : C \notin Room BY NoSetContainsEverything
<1>8. \A v \in User : HasSession(v) => Current(v).room # C
  BY <1>7, CurrentFacts DEF Session
<1>9. \A r \in Room \ {C} : CalmNet(r) OBVIOUS
<1> HIDE DEF o
<1> QED BY <1>2, <1>3, <1>6, <1>7, <1>8, <1>9, RingRewritten DEF o

\* A step that is calm for every room in the net.
LEMMA NetCalmStep ==
  ASSUME IInv, SetupInv, RingInv, NEW u \in User, alive[u], NEW i \in DOMAIN ses[u],
         NEW s \in Session, SetSession(u, i, s), UNCHANGED alive,
         NEW o, o = ses[u][i],
         s.room = o.room, s.coming = o.coming, o.stray => s.stray,
         RingsItsCaller(s),
         HasTask(s.tasks, "ringBack") => HasTask(o.tasks, "ringBack"),
         \A v \in User : ring'[v] \in {ring[v], "off"},
         NetAddressed', \A r \in Room : CalmNet(r),
         ~s.stray /\ s.state = "Connected" => ring'[u] = "off",
         ~s.stray /\ ~s.coming =>
           Announced(u, s, inbox'[u], invites', ses', members'[s.room])
  PROVE  RingInv'
<1>1. PICK C : C \notin Room BY NoSetContainsEverything
<1>2. \A v \in User : HasSession(v) => Current(v).room # C
  BY <1>1, CurrentFacts DEF Session
<1>3. \A r \in Room \ {C} : CalmNet(r) OBVIOUS
<1> QED BY <1>1, <1>2, <1>3, RingRewritten

-----------------------------------------------------------------------------
(* The main thread.                                                        *)

LEMMA RingParts ==
  ASSUME IInv, RingInv
  PROVE  /\ NetType /\ PhoneType /\ NetAddressed
         /\ \A u \in User : \A i \in DOMAIN ses[u] : RingsItsCaller(ses[u][i])
BY IInvParts DEF RingInv, Addressed, NetAddressed

\* A click or a message keeps the state: a connected call stays silent.
LEMMA SilentConnected ==
  ASSUME RingInv, NEW u \in User, HasSession(u), ~Current(u).stray,
         Current(u).state = "Connected"
  PROVE  ring[u] = "off"
BY DEF RingInv, PresentRing

\* The ring of the present session, when the state stays as it was.
LEMMA SilentTask ==
  ASSUME IInv, SetupInv, RingInv, NEW u \in User, alive[u], NEW i \in DOMAIN ses[u],
         i = Cur(u), ~ses[u][i].stray, ses[u][i].state = "Connected"
  PROVE  ring[u] = "off"
<1>1. HasSession(u) /\ Current(u) = ses[u][i]
  BY SessionFacts DEF HasSession, Current, Cur
<1> QED BY <1>1, SilentConnected

\* A step within one session that does not connect it.
LEMMA SessionCalm ==
  ASSUME IInv, SetupInv, RingInv, NEW u \in User, alive[u], NEW i \in DOMAIN ses[u],
         NEW o, o = ses[u][i], NEW s \in Session, SetSession(u, i, s),
         Calmer(o, s), s.state = o.state \/ s.state # "Connected",
         UNCHANGED alive, UNCHANGED net,
         \A v \in User : ring'[v] \in {ring[v], "off"}
  PROVE  RingInv'
<1>1. NetAddressed' /\ \A r \in Room : CalmNet(r) BY RingParts, SilentCalm
<1>2. o.stray => s.stray BY DEF Calmer
<1>3. i = Cur(u) /\ ~s.stray /\ s.state = "Connected" =>
        /\ ring'[u] = "off"
        /\ \/ s.coming \/ ses[u][i].state = "Connected"
           \/ HasTask(ses[u][i].tasks, "newPeer")
  BY <1>2, SilentTask
<1> QED BY <1>1, <1>3, CalmStep

\* The screen changes, and announces nothing.
LEMMA ScreenRing ==
  ASSUME IInv, SetupInv, RingInv, NEW u \in User, alive[u], NEW i \in DOMAIN ses[u],
         NEW ui \in Ui, NEW c \in 0 .. MaxClicks,
         SetSession(u, i, [ses[u][i] EXCEPT !.ui = ui, !.clicks = c]),
         UNCHANGED <<alive, ring, died>>, UNCHANGED net
  PROVE  RingInv'
<1> DEFINE o == ses[u][i]
           s == [o EXCEPT !.ui = ui, !.clicks = c]
<1>1. o \in Session /\ RingsItsCaller(o) BY SessionFacts, RingParts
<1>2. o = ses[u][i] /\ SetSession(u, i, s) OBVIOUS
<1> HIDE DEF o
<1>3. /\ s \in Session /\ s.room = o.room /\ s.coming = o.coming
      /\ s.target = o.target /\ s.tasks = o.tasks /\ s.stray = o.stray
      /\ s.state = o.state
  BY <1>1 DEF Session
<1> HIDE DEF s
<1>4. Calmer(o, s) BY <1>1, <1>3, CalmerSame
<1>5. \A v \in User : ring'[v] \in {ring[v], "off"} OBVIOUS
<1> QED BY <1>2, <1>3, <1>4, <1>5, SessionCalm

\* ... without a click.
LEMMA UiRing ==
  ASSUME IInv, SetupInv, RingInv, NEW u \in User, alive[u], NEW i \in DOMAIN ses[u],
         NEW ui \in Ui, SetSession(u, i, [ses[u][i] EXCEPT !.ui = ui]),
         UNCHANGED <<alive, ring, died>>, UNCHANGED net
  PROVE  RingInv'
<1> DEFINE o == ses[u][i]
           c == o.clicks
<1>1. o \in Session BY SessionFacts
<1>2. c \in 0 .. MaxClicks BY <1>1 DEF Session
<1>3. [o EXCEPT !.ui = ui] = [o EXCEPT !.ui = ui, !.clicks = c]
  <2> HIDE DEF o
  <2> QED BY <1>1 DEF Session
<1>4. SetSession(u, i, [o EXCEPT !.ui = ui, !.clicks = c]) BY <1>3
<1> HIDE DEF c
<1> QED BY <1>2, <1>4, ScreenRing

LEMMA OpenUiRing ==
  ASSUME IInv, SetupInv, RingInv, NEW u \in User, OpenUi(u)
  PROVE  RingInv'
<1>1. PICK ui \in {"open", "closed"} :
        SetSession(u, Cur(u), [Current(u) EXCEPT !.ui = ui])
  BY DEF OpenUi
<1>2. /\ HasSession(u) /\ UNCHANGED <<alive, ring, died>> /\ UNCHANGED net
  BY DEF OpenUi
<1>3. alive[u] /\ Cur(u) \in DOMAIN ses[u] /\ Current(u) = ses[u][Cur(u)]
  BY <1>2, CurrentFacts
<1>4. ui \in Ui BY DEF Ui
<1> QED BY <1>1, <1>2, <1>3, <1>4, UiRing

LEMMA ShowConnectedRing ==
  ASSUME IInv, SetupInv, RingInv, NEW u \in User, NEW i \in DOMAIN ses[u],
         ShowConnected(u, i)
  PROVE  RingInv'
<1>1. "shown" \in Ui BY DEF Ui
<1> QED BY <1>1, UiRing DEF ShowConnected

\* The accept button, while the call is ringing: its phone is called.
LEMMA JoinPostedRing ==
  ASSUME IInv, SetupInv, RingInv, NEW u \in User, NEW i \in DOMAIN ses[u],
         Accept(u, i), Current(u).state = "Incoming"
  PROVE  RingInv'
<1> DEFINE o == Current(u)
           x == NewTask("join", Nobody)
           q == Append(o.tasks, x)
           b == i # Cur(u)
           s == [o EXCEPT !.tasks = q, !.clicks = o.clicks + 1,
                          !.stray = o.stray \/ b]
<1>1. /\ HasSession(u) /\ o.clicks < MaxClicks
      /\ SetSession(u, Cur(u), [Post(o, "join", Nobody) EXCEPT
                                  !.clicks = @ + 1, !.stray = @ \/ b])
      /\ UNCHANGED <<alive, ring, died>> /\ UNCHANGED net
  BY DEF Accept, OnTop
<1>2. /\ alive[u] /\ Cur(u) \in DOMAIN ses[u] /\ o = ses[u][Cur(u)]
      /\ o \in Session /\ o.tasks \in Seq(Task)
  BY <1>1, CurrentFacts
<1>3. RingsItsCaller(o) BY <1>2, RingParts
<1>4. o.coming BY <1>3 DEF RingsItsCaller
<1> HIDE DEF o
<1>5. o.clicks + 1 \in 0 .. MaxClicks
  BY <1>1, <1>2, ConstantsAssumption DEF Session, ConstantsAssumption
<1>6. x \in Task /\ x.kind = "join" BY DEF NewTask, Task
<1>7. [Post(o, "join", Nobody) EXCEPT !.clicks = @ + 1, !.stray = @ \/ b] = s
  <2>1. Post(o, "join", Nobody) = [o EXCEPT !.tasks = q] BY DEF Post
  <2> HIDE DEF b, q
  <2> QED BY <1>2, <2>1 DEF Session
<1>8. SetSession(u, Cur(u), s) BY <1>1, <1>7
<1>9. b \in BOOLEAN OBVIOUS
<1> HIDE DEF x, b
<1>10. q \in Seq(Task) BY <1>2, <1>6, AppendFacts
<1>11. q = Append(o.tasks, x) OBVIOUS
<1> HIDE DEF q
<1>12. /\ s \in Session /\ s.tasks = q /\ s.state = o.state
       /\ s.room = o.room /\ s.coming = o.coming /\ s.target = o.target
       /\ o.stray => s.stray
  BY <1>2, <1>5, <1>9, <1>10 DEF Session
<1> HIDE DEF s
<1>13. Calmer(o, s)
  BY <1>2, <1>3, <1>4, <1>6, <1>11, <1>12, CalmerPost
<1>14. \A v \in User : ring'[v] \in {ring[v], "off"} BY <1>1
<1> QED BY <1>1, <1>2, <1>8, <1>12, <1>13, <1>14, SessionCalm

LEMMA AcceptRing ==
  ASSUME IInv, SetupInv, RingInv, NEW u \in User, NEW i \in DOMAIN ses[u],
         Accept(u, i)
  PROVE  RingInv'
<1>1. CASE Current(u).state = "Incoming" BY <1>1, JoinPostedRing
<1>2. CASE Current(u).state # "Incoming"
  <2> DEFINE c == ses[u][i].clicks + 1
  <2>1. /\ alive[u] /\ ses[u][i].clicks < MaxClicks
        /\ SetSession(u, i, [ses[u][i] EXCEPT !.ui = "closed", !.clicks = @ + 1])
        /\ UNCHANGED <<alive, ring, died>> /\ UNCHANGED net
    BY <1>2 DEF Accept, OnTop, HasSession
  <2>2. ses[u][i] \in Session BY <2>1, SessionFacts
  <2>3. c \in 0 .. MaxClicks /\ "closed" \in Ui
    BY <2>1, <2>2, ConstantsAssumption DEF Session, ConstantsAssumption, Ui
  <2>4. SetSession(u, i, [ses[u][i] EXCEPT !.ui = "closed", !.clicks = c])
    BY <2>1
  <2> HIDE DEF c
  <2> QED BY <2>1, <2>3, <2>4, ScreenRing
<1> QED BY <1>1, <1>2

\* The tasks of ending announce nothing.
LEMMA EndingPosted ==
  ASSUME NEW o \in Session
  PROVE  LET p == PostEach(o, EndTasks(o)).tasks IN
         \A k \in {"create", "ringBack", "join", "peers", "newPeer"} :
           TasksOf(p, k) = TasksOf(o.tasks, k)
<1> DEFINE ks == EndTasks(o)
           q  == [j \in DOMAIN ks |-> NewTask(ks[j], Nobody)]
           p  == o.tasks \o q
           K  == {"refuse", "cancel", "leave", "release"}
<1>1. ks \in Seq(K)
  <2>1. /\ <<"refuse">> \in Seq(K) /\ <<"cancel">> \in Seq(K)
        /\ <<"leave", "release">> \in Seq(K)
    OBVIOUS
  <2> HIDE DEF K
  <2> QED BY <2>1 DEF EndTasks
<1>2. q \in Seq(Task) /\ \A j \in DOMAIN q : q[j].kind \in K
  <2> HIDE DEF ks
  <2>1. /\ Len(ks) \in Nat /\ DOMAIN ks = 1 .. Len(ks)
        /\ \A j \in DOMAIN ks : ks[j] \in K
    BY <1>1, LenProperties, ElementOfSeq
  <2>2. \A j \in DOMAIN ks : /\ NewTask(ks[j], Nobody) \in Task
                             /\ NewTask(ks[j], Nobody).kind \in K
    BY <2>1 DEF NewTask, Task
  <2> HIDE DEF K
  <2> QED BY <2>1, <2>2
<1>3. PostEach(o, ks).tasks = p /\ o.tasks \in Seq(Task)
  BY DEF PostEach, Session
<1> HIDE DEF ks, q
<1>4. /\ DOMAIN o.tasks \subseteq DOMAIN p
      /\ \A j \in DOMAIN p :
           (j \in DOMAIN o.tasks /\ p[j] = o.tasks[j])
             \/ (j \notin DOMAIN o.tasks /\ p[j].kind \in K)
  <2>1. p \in Seq(Task) /\ Len(p) = Len(o.tasks) + Len(q)
        /\ \A j \in 1 .. Len(o.tasks) + Len(q) :
             p[j] = IF j <= Len(o.tasks) THEN o.tasks[j] ELSE q[j - Len(o.tasks)]
    BY <1>2, <1>3, ConcatProperties
  <2>2. /\ Len(o.tasks) \in Nat /\ DOMAIN o.tasks = 1 .. Len(o.tasks)
        /\ Len(q) \in Nat /\ DOMAIN q = 1 .. Len(q) /\ DOMAIN p = 1 .. Len(p)
    BY <1>2, <1>3, <2>1, LenProperties
  <2>3. DOMAIN o.tasks \subseteq DOMAIN p
    <3> HIDE DEF p
    <3> QED BY <2>1, <2>2
  <2> SUFFICES ASSUME NEW j \in DOMAIN p
               PROVE  (j \in DOMAIN o.tasks /\ p[j] = o.tasks[j])
                      \/ (j \notin DOMAIN o.tasks /\ p[j].kind \in K)
    BY <2>3
  <2> HIDE DEF p, K
  <2>4. CASE j <= Len(o.tasks) BY <2>1, <2>2, <2>4
  <2>5. CASE ~(j <= Len(o.tasks))
    <3>1. j - Len(o.tasks) \in DOMAIN q /\ p[j] = q[j - Len(o.tasks)]
      BY <2>1, <2>2, <2>5
    <3> QED BY <1>2, <2>2, <2>5, <3>1
  <2> QED BY <2>4, <2>5
<1> HIDE DEF p
<1>5. ASSUME NEW k \in {"create", "ringBack", "join", "peers", "newPeer"}
      PROVE  TasksOf(p, k) = TasksOf(o.tasks, k)
  <2>1. k \notin K OBVIOUS
  <2> HIDE DEF K
  <2>2. \A j : j \in TasksOf(p, k) <=> j \in TasksOf(o.tasks, k)
    BY <1>4, <2>1 DEF TasksOf
  <2>3. TasksOf(p, k) \subseteq TasksOf(o.tasks, k) BY <2>2
  <2>4. TasksOf(o.tasks, k) \subseteq TasksOf(p, k) BY <2>2
  <2> QED BY <2>3, <2>4
<1> QED BY <1>3, <1>5 DEF ks

\* endCall: the ring stops and the tasks are posted ...
LEMMA HangUpRing ==
  ASSUME IInv, SetupInv, RingInv, NEW u \in User, NEW i \in DOMAIN ses[u],
         HangUp(u, i)
  PROVE  RingInv'
<1> DEFINE o == Current(u)
           p == PostEach(o, EndTasks(o))
           e == IF EndTasks(o) = <<"cancel">> THEN "cancelled" ELSE "hungUp"
           b == i # Cur(u)
           s == [p EXCEPT !.end = e, !.stray = @ \/ b]
<1>1. /\ HasSession(u) /\ SetSession(u, Cur(u), s)
      /\ ring' = [ring EXCEPT ![u] = "off"]
      /\ UNCHANGED <<alive, died>> /\ UNCHANGED net
  BY DEF HangUp, OnTop
<1>2. /\ alive[u] /\ Cur(u) \in DOMAIN ses[u] /\ o = ses[u][Cur(u)]
      /\ o \in Session
  BY <1>1, CurrentFacts
<1>3. p \in Session /\ p = [o EXCEPT !.tasks = p.tasks]
  BY <1>2, PostEachType
<1>4. \A k \in {"create", "ringBack", "join", "peers", "newPeer"} :
        TasksOf(p.tasks, k) = TasksOf(o.tasks, k)
  BY <1>2, EndingPosted
<1>5. RingsItsCaller(o) BY <1>2, RingParts
<1>6. e \in End /\ b \in BOOLEAN BY DEF End
<1> HIDE DEF o, p, e, b
<1>7. /\ p.room = o.room /\ p.coming = o.coming /\ p.target = o.target
      /\ p.stray = o.stray /\ p.state = o.state
  BY <1>2, <1>3 DEF Session
<1>8. /\ s \in Session /\ s.tasks = p.tasks /\ s.state = o.state
      /\ s.room = o.room /\ s.coming = o.coming /\ s.target = o.target
      /\ o.stray => s.stray
  BY <1>3, <1>6, <1>7 DEF Session
<1> HIDE DEF s
<1>9. Calmer(o, s) BY <1>4, <1>5, <1>8, CalmerSame
<1>10. \A v \in User : ring'[v] \in {ring[v], "off"}
  BY <1>1, RingParts DEF PhoneType
<1> QED BY <1>1, <1>2, <1>8, <1>9, <1>10, SessionCalm

\* ... the state is written ...
LEMMA HangUpIdleRing ==
  ASSUME IInv, SetupInv, RingInv, NEW u \in User, HangUpIdle(u)
  PROVE  RingInv'
<1> DEFINE o == Current(u)
           s == [o EXCEPT !.state = "Idle"]
<1>1. /\ HasSession(u) /\ SetSession(u, Cur(u), s)
      /\ UNCHANGED <<alive, ring, died>> /\ UNCHANGED net
  BY DEF HangUpIdle
<1>2. /\ alive[u] /\ Cur(u) \in DOMAIN ses[u] /\ o = ses[u][Cur(u)]
      /\ o \in Session
  BY <1>1, CurrentFacts
<1>3. RingsItsCaller(o) BY <1>2, RingParts
<1> HIDE DEF o
<1>4. /\ s \in Session /\ s.tasks = o.tasks /\ s.state = "Idle"
      /\ s.room = o.room /\ s.coming = o.coming /\ s.target = o.target
      /\ s.stray = o.stray
  BY <1>2 DEF Session, State
<1> HIDE DEF s
<1>5. Calmer(o, s) BY <1>3, <1>4, CalmerSame
<1>6. \A v \in User : ring'[v] \in {ring[v], "off"} BY <1>1
<1> QED BY <1>1, <1>2, <1>4, <1>5, <1>6, SessionCalm

\* ... and the screen finishes.
LEMMA HangUpFinishRing ==
  ASSUME IInv, SetupInv, RingInv, NEW u \in User, NEW i \in DOMAIN ses[u],
         HangUpFinish(u, i)
  PROVE  RingInv'
<1>1. "closed" \in Ui BY DEF Ui
<1> QED BY <1>1, UiRing DEF HangUpFinish

\* A ring is for the caller, and comes before the call is connected.
LEMMA OnRingRing ==
  ASSUME IInv, SetupInv, RingInv, NEW u \in User, OnRing(u)
  PROVE  RingInv'
<1> DEFINE o == Current(u)
           s == Touched(u)
           m == Head(inbox[u])
<1>1. /\ HasSession(u) /\ inbox[u] # <<>> /\ m.kind = "ring"
      /\ SetSession(u, Cur(u), s) /\ Handled(u)
      /\ ring' = [ring EXCEPT ![u] = "ringback"]
  BY DEF OnRing, Receives
<1>2. /\ alive[u] /\ Cur(u) \in DOMAIN ses[u] /\ o = ses[u][Cur(u)]
      /\ o \in Session /\ inbox[u] \in Seq(Msg)
  BY <1>1, CurrentFacts DEF IInv, TypeOK
<1>3. /\ s \in Session /\ s.room = o.room /\ s.coming = o.coming
      /\ s.target = o.target /\ s.tasks = o.tasks /\ s.state = o.state
      /\ ~s.stray => ~o.stray /\ m.room = o.room
  BY <1>1, TouchedFacts
<1>4. RingsItsCaller(o) BY <1>2, RingParts
<1>5. ASSUME ~s.stray, s.state = "Connected" PROVE FALSE
  <2>1. m = inbox[u][1] /\ 1 \in DOMAIN inbox[u] BY <1>1, <1>2, SeqFacts
  <2>2. m.room[1] = u BY <1>1, <2>1 DEF RingInv, Addressed
  <2>3. ~o.coming
    <3>1. OwnRoom(u, o, Cardinality(Dialled(ses[u])))
      BY <1>2 DEF SetupInv, PhoneOK
    <3> QED BY <1>3, <1>5, <2>2, <3>1 DEF OwnRoom
  <2>4. RingsFirst(o, inbox[u])
    BY <1>1, <1>3, <1>5, <2>3 DEF RingInv, PresentRing, Announced
  <2>5. HasMsg(inbox[u], "ring", o.room)
    BY <1>1, <1>3, <1>5, <2>1 DEF HasMsg
  <2> QED BY <1>3, <1>5, <2>4, <2>5 DEF RingsFirst
<1> HIDE DEF o, s
<1>6. Calmer(o, s)
  <2>1. o.stray => s.stray BY <1>3
  <2> QED BY <1>3, <1>4, <2>1, CalmerSame
<1>7. NetAddressed' /\ \A r \in Room : CalmNet(r)
  BY <1>1, RingParts, HandledCalm
<1>8. \A v \in User : ring'[v] \in {ring[v], "off"} \/ v = u
  BY <1>1, RingParts DEF PhoneType
<1>9. UNCHANGED alive BY <1>1 DEF Handled
<1> QED BY <1>1, <1>2, <1>3, <1>5, <1>6, <1>7, <1>8, <1>9, CalmStep

LEMMA HandleEndingRing ==
  ASSUME IInv, SetupInv, RingInv, NEW u \in User, NEW k, HandleEnding(u, k)
  PROVE  RingInv'
<1> DEFINE o == Current(u)
           r == Touched(u)
           x == NewTask("release", Nobody)
           e == IF r.end = "no" THEN "over" ELSE r.end
           s == [r EXCEPT !.tasks = Append(@, x), !.end = e]
<1>1. /\ HasSession(u) /\ inbox[u] # <<>> /\ Handled(u) /\ UNCHANGED ring
      /\ SetSession(u, Cur(u), [Post(r, "release", Nobody) EXCEPT
                                  !.end = IF @ = "no" THEN "over" ELSE @])
  BY DEF HandleEnding, Receives
<1>2. /\ alive[u] /\ Cur(u) \in DOMAIN ses[u] /\ o = ses[u][Cur(u)]
      /\ o \in Session /\ o.tasks \in Seq(Task)
  BY <1>1, CurrentFacts
<1>3. /\ r \in Session
      /\ r.room = o.room /\ r.coming = o.coming /\ r.target = o.target
      /\ r.tasks = o.tasks /\ r.state = o.state
      /\ ~r.stray => ~o.stray
  BY <1>1, TouchedFacts
<1>4. RingsItsCaller(o) BY <1>2, RingParts
<1>5. ~o.stray /\ o.state = "Connected" => ring[u] = "off"
  BY <1>1, SilentConnected
<1> HIDE DEF o, r
<1>6. SetSession(u, Cur(u), s)
  <2>1. [Post(r, "release", Nobody) EXCEPT !.end = IF @ = "no" THEN "over" ELSE @]
          = s
    BY <1>3 DEF Post, Session
  <2> QED BY <1>1, <2>1
<1>7. x \in Task /\ x.kind = "release" BY DEF NewTask, Task
<1>8. e \in End BY <1>3 DEF Session, End
<1> HIDE DEF x, e
<1>9. Append(o.tasks, x) \in Seq(Task) BY <1>2, <1>7, AppendFacts
<1>10. /\ s \in Session /\ s.tasks = Append(o.tasks, x) /\ s.stray = r.stray
       /\ s.room = o.room /\ s.coming = o.coming /\ s.target = o.target
       /\ s.state = o.state
  BY <1>3, <1>8, <1>9 DEF Session
<1> HIDE DEF s
<1>11. Calmer(o, s)
  <2>1. o.stray => s.stray BY <1>3, <1>10
  <2> QED BY <1>2, <1>4, <1>7, <1>10, <2>1, CalmerPost
<1>12. NetAddressed' /\ \A c \in Room : CalmNet(c)
  BY <1>1, RingParts, HandledCalm
<1>13. UNCHANGED alive BY <1>1 DEF Handled
<1> QED BY <1>1, <1>2, <1>3, <1>5, <1>6, <1>10, <1>11, <1>12, <1>13, CalmStep

\* onJoinHome and newPeer: what is heard of the present call becomes a task.
LEMMA HandlePostingRing ==
  ASSUME IInv, SetupInv, RingInv, NEW u \in User, NEW k \in Entering,
         HandlePosting(u, k)
  PROVE  RingInv'
<1> DEFINE o == Current(u)
           r == Touched(u)
           m == Head(inbox[u])
           x == NewTask(k, m.from)
           s == [r EXCEPT !.tasks = Append(@, x)]
<1>1. /\ HasSession(u) /\ inbox[u] # <<>> /\ m.kind = k /\ UNCHANGED ring
      /\ SetSession(u, Cur(u), Post(r, k, m.from)) /\ Handled(u)
  BY DEF HandlePosting, Receives
<1>2. /\ alive[u] /\ Cur(u) \in DOMAIN ses[u] /\ o = ses[u][Cur(u)]
      /\ o \in Session /\ o.tasks \in Seq(Task) /\ inbox[u] \in Seq(Msg)
  BY <1>1, CurrentFacts DEF IInv, TypeOK
<1>3. /\ r \in Session /\ m \in Msg
      /\ r.room = o.room /\ r.coming = o.coming /\ r.target = o.target
      /\ r.tasks = o.tasks /\ r.state = o.state
      /\ ~r.stray => ~o.stray /\ m.room = o.room
  BY <1>1, TouchedFacts
<1>4. SetSession(u, Cur(u), s) BY <1>1 DEF Post
<1>5. RingsItsCaller(o) BY <1>2, RingParts
<1>6. ~o.stray /\ o.state = "Connected" => ring[u] = "off"
  BY <1>1, SilentConnected
<1>7. ~o.stray /\ ~o.coming =>
        Announced(u, o, inbox[u], invites, ses, members[o.room])
  BY <1>1 DEF RingInv, PresentRing
<1>8. /\ inbox'[u] = Tail(inbox[u]) /\ UNCHANGED <<alive, invites, members>>
  BY <1>1, RingParts DEF Handled, NetType
<1> HIDE DEF o, r
<1>9. x \in Task /\ x.kind = k
  BY <1>3 DEF NewTask, Task, Msg, Entering
<1> HIDE DEF x
<1>10. Append(o.tasks, x) \in Seq(Task) BY <1>2, <1>9, AppendFacts
<1>11. /\ s \in Session /\ s.tasks = Append(o.tasks, x) /\ s.stray = r.stray
       /\ s.room = o.room /\ s.coming = o.coming /\ s.target = o.target
       /\ s.state = o.state
  BY <1>3, <1>10 DEF Session
<1> HIDE DEF s
<1>12. \A l \in {"create", "ringBack", "join"} :
         TasksOf(s.tasks, l) = TasksOf(o.tasks, l)
  BY <1>2, <1>9, <1>11, TasksOfAppend DEF Entering
<1>13. RingsItsCaller(s) BY <1>5, <1>11, <1>12, CallerSame
<1>14. HasTask(s.tasks, "ringBack") => HasTask(o.tasks, "ringBack")
  BY <1>12, HasIsSome
<1>15. /\ \A c : CallsTo(ses', c) = CallsTo(ses, c)
       /\ \A c : Ringing(ses', c) => Ringing(ses, c)
  BY <1>2, <1>4, <1>11, <1>14, CallsRewritten DEF IInv, TypeOK
<1>16. NetAddressed' /\ \A c \in Room : CalmNet(c)
  BY <1>1, RingParts, HandledCalm
<1>17. ASSUME ~s.stray, ~s.coming
       PROVE  Announced(u, s, inbox'[u], invites', ses', members'[s.room])
  <2>1. /\ Announced(u, o, inbox[u], invites, ses, members[o.room])
        /\ Head(inbox[u]).room = o.room /\ Head(inbox[u]).kind = k
    BY <1>1, <1>3, <1>7, <1>11, <1>17
  <2>2. Fewer(CallsTo(ses, o.room), CallsTo(ses', o.room)) BY <1>15 DEF Fewer
  <2>3. CASE k = "peers"
    <3>1. Announced(u, s, Tail(inbox[u]), invites, ses', members[o.room])
      BY <1>1, <1>2, <1>9, <1>11, <2>1, <2>2, <2>3, PeersTaken
    <3> QED BY <1>8, <1>11, <3>1
  <2>4. CASE k = "newPeer"
    <3>1. Announced(u, s, Tail(inbox[u]), invites, ses', members[o.room])
      BY <1>1, <1>2, <1>9, <1>11, <1>15, <2>1, <2>2, <2>4, NewPeerTaken
    <3> QED BY <1>8, <1>11, <3>1
  <2> QED BY <2>3, <2>4 DEF Entering
<1>18. ~s.stray /\ s.state = "Connected" => ring'[u] = "off"
  BY <1>1, <1>3, <1>6, <1>11
<1>19. o.stray => s.stray BY <1>3, <1>11
<1>20. UNCHANGED alive /\ \A v \in User : ring'[v] \in {ring[v], "off"}
  BY <1>1, <1>8
<1> QED BY <1>2, <1>4, <1>11, <1>13, <1>14, <1>16, <1>17, <1>18, <1>19, <1>20,
           NetCalmStep
-----------------------------------------------------------------------------
(* Calls begin.                                                            *)

\* A session begins.  C is the room of the call that is taken up.
LEMMA RingBegun ==
  ASSUME IInv, SetupInv, RingInv, NEW u \in User, alive[u], NEW s \in Session,
         \A v \in User : ses'[v] = IF v = u THEN Append(ses[u], s) ELSE ses[v],
         UNCHANGED alive, \A v \in User \ {u} : ring'[v] = ring[v],
         RingsItsCaller(s), s.state # "Connected",
         NetAddressed', \A r \in Room : CalmNet(r),
         NEW C, C \in Room => ~Undialled(C), s.coming => s.room = C,
         ~s.coming =>
           /\ \A i \in DOMAIN ses[u] :
                ses[u][i].coming \/ ses[u][i].room # s.room
           /\ Announced(u, s, inbox'[u], invites', ses', members'[s.room]),
         \A v \in User \ {u} :
           LET c == Current(v) IN
           HasSession(v) /\ ~c.stray /\ ~c.coming /\ c.room = C
             /\ Announced(v, c, inbox[v], invites, ses, members[C]) =>
               Announced(v, c, inbox'[v], invites', ses', members'[C])
  PROVE  RingInv'
<1> DEFINE T == Append(ses[u], s)
<1>1. /\ ses \in [User -> Seq(Session)] /\ ses[u] \in Seq(Session)
  BY DEF IInv, TypeOK
<1>2. /\ Len(ses[u]) \in Nat /\ DOMAIN ses[u] = 1 .. Len(ses[u])
      /\ DOMAIN T = 1 .. (Len(ses[u]) + 1) /\ Len(T) = Len(ses[u]) + 1
      /\ \A j \in 1 .. Len(ses[u]) : T[j] = ses[u][j]
      /\ T[Len(ses[u]) + 1] = s
  BY <1>1, SeqFacts, AppendFacts
<1>3. \A j \in DOMAIN T : \/ j \in DOMAIN ses[u] /\ T[j] = ses[u][j]
                          \/ j = Len(T) /\ T[j] = s
  <2>1. \A j \in 1 .. (Len(ses[u]) + 1) : j \in 1 .. Len(ses[u]) \/ j = Len(ses[u]) + 1
    BY <1>2
  <2> QED BY <1>2, <2>1
<1>4. ses'[u] = T /\ \A v \in User \ {u} : ses'[v] = ses[v] OBVIOUS
<1>5. \A r : ~(s.coming /\ s.room = r) =>
        CallsTo(ses', r) = CallsTo(ses, r) /\ (Ringing(ses', r) => Ringing(ses, r))
  BY <1>1, <1>4, CallsBegun
<1>6. \A r \in Room \ {C} : Calm(r) BY <1>5 DEF Calm, Fewer
<1>7. \A v \in User :
        /\ Cardinality(Dialled(ses[v])) \in Nat
        /\ Cardinality(Dialled(ses'[v])) \in Nat
        /\ Cardinality(Dialled(ses'[v])) >= Cardinality(Dialled(ses[v]))
  <2> TAKE v \in User
  <2>1. ses[v] \in Seq(Session) BY <1>1
  <2>2. /\ Cardinality(Dialled(ses[v])) \in Nat
        /\ Cardinality(Dialled(Append(ses[v], s))) =
             IF s.coming THEN Cardinality(Dialled(ses[v]))
             ELSE Cardinality(Dialled(ses[v])) + 1
    BY <2>1, DialledAppend
  <2>3. ses'[v] = ses[v] \/ ses'[v] = Append(ses[v], s) BY <1>4
  <2> QED BY <2>2, <2>3
<1> HIDE DEF T
<1>8. Addressed'
  <2>1. ASSUME NEW v \in User, NEW j \in DOMAIN ses'[v]
        PROVE  RingsItsCaller(ses'[v][j])
    <3>1. CASE v = u
      <4>1. j \in DOMAIN T /\ ses'[v][j] = T[j] BY <1>4, <2>1, <3>1
      <4> QED BY <1>3, <4>1 DEF RingInv, Addressed
    <3>2. CASE v # u
      <4>1. ses'[v] = ses[v] BY <1>4, <3>2
      <4> QED BY <2>1, <4>1 DEF RingInv, Addressed
    <3> QED BY <3>1, <3>2
  <2> QED BY <2>1 DEF Addressed, NetAddressed
<1>9. ASSUME NEW r \in Room, Undialled(r)' PROVE Unheard(r)'
  <2>1. r[1] \in User /\ r[2] \in Nat BY RoomShape
  <2>2. alive[r[1]] /\ r[2] > Cardinality(Dialled(ses'[r[1]]))
    BY <1>9 DEF Undialled
  <2>3. r[2] > Cardinality(Dialled(ses[r[1]])) BY <1>7, <2>1, <2>2
  <2>4. Undialled(r) BY <2>2, <2>3 DEF Undialled
  <2>5. Unheard(r) /\ r # C BY <2>4 DEF RingInv
  <2> QED BY <1>6, <2>5, CalmUnheard
<1>10. PresentRing(u)'
  <2>1. T[Len(T)] = s BY <1>2
  <2>2. ~s.coming => \A i \in DOMAIN T :
                       ~T[i].coming /\ T[i].room = s.room => i = Len(T)
    BY <1>3
  <2>3. RungOK(u, T, ring'[u], inbox'[u], invites', ses', members')
    BY <2>1, <2>2 DEF RungOK
  <2> QED BY <1>4, <2>3, PresentIs
<1>11. ASSUME NEW v \in User \ {u} PROVE PresentRing(v)'
  <2>1. /\ SamePresent(ses[v], ses'[v]) /\ ring'[v] \in {ring[v], "off"}
        /\ PresentRing(v) /\ ses[v] \in Seq(Session)
    BY <1>1, <1>4 DEF SamePresent, RingInv
  <2>2. ASSUME HasSession(v), ~Current(v).stray, ~Current(v).coming,
               Current(v).room[1] = v,
               Announced(v, Current(v), inbox[v], invites, ses, members[Current(v).room])
        PROVE  \/ Calm(Current(v).room)
               \/ Announced(v, Current(v), inbox'[v], invites', ses',
                            members'[Current(v).room])
    <3>1. Current(v).room \in Room BY <2>2, CurrentFacts DEF Session
    <3>2. CASE Current(v).room # C BY <1>6, <3>1, <3>2
    <3>3. CASE Current(v).room = C BY <2>2, <3>3
    <3> QED BY <3>2, <3>3
  <2> QED BY <2>1, <2>2, OtherPresent
<1> QED BY <1>8, <1>9, <1>10, <1>11 DEF RingInv

\* startOutCall: of the room of a new call nobody has heard.
LEMMA DialRing ==
  ASSUME IInv, SetupInv, RingInv, NEW u \in User, Dial(u)
  PROVE  RingInv'
<1> DEFINE n == Cardinality(Dialled(ses[u])) + 1
           r == <<u, n>>
           s == NewSession(r, Plan[u][n], FALSE)
           x == NewTask("create", Nobody)
<1>1. /\ alive[u] /\ n \in DOMAIN Plan[u]
      /\ ses' = [ses EXCEPT ![u] = Append(@, s)]
      /\ UNCHANGED <<alive, ring, died>> /\ UNCHANGED net
  BY DEF Dial, Dialled
<1>2. /\ ses \in [User -> Seq(Session)] /\ ses[u] \in Seq(Session)
  BY DEF IInv, TypeOK
<1>3. n = Cardinality(Dialled(ses[u])) + 1 OBVIOUS
<1>4. r \in Room /\ Plan[u][n] \in User /\ r[1] = u /\ r[2] = n
  BY <1>1, ConstantsAssumption DEF ConstantsAssumption, Room
<1> HIDE DEF n
<1>5. s \in Session BY <1>4, NewSessionType
<1>6. x \in Task /\ x.kind = "create" BY DEF NewTask, Task
<1>7. ~s.coming /\ s.room = r /\ s.state = "Outgoing" /\ s.tasks = <<x>>
  BY DEF NewSession
<1>8. \A v \in User : ses'[v] = IF v = u THEN Append(ses[u], s) ELSE ses[v]
  BY <1>1, <1>2
<1> HIDE DEF s, x, r
<1>8a. Cardinality(Dialled(ses[u])) \in Nat BY <1>2, <1>5, DialledAppend
<1>9. Undialled(r) BY <1>1, <1>3, <1>4, <1>8a DEF Undialled
<1>10. Unheard(r) BY <1>4, <1>9 DEF RingInv
<1>11. NetAddressed' /\ \A c \in Room : CalmNet(c)
  BY <1>1, RingParts, SilentCalm
<1>12. CallsTo(ses', r) = {}
  <2>1. ses'[u] = Append(ses[u], s) /\ \A v \in User \ {u} : ses'[v] = ses[v]
    BY <1>8
  <2>2. CallsTo(ses', r) = CallsTo(ses, r) BY <1>2, <1>5, <1>7, <2>1, CallsBegun
  <2> QED BY <1>10, <2>2 DEF Unheard
<1>13. Announced(u, s, inbox'[u], invites', ses', members'[s.room])
  <2>1. /\ members'[r] = {} /\ InvitesTo(invites', r) = {}
        /\ \A k \in {"peers", "newPeer", "ring"} : ~HasMsg(inbox'[u], k, r)
    BY <1>1, <1>4, <1>10 DEF Unheard, net
  <2>2. s.state # "Connected" BY <1>7
  <2> QED BY <1>6, <1>7, <1>12, <2>1, <2>2, CallBegins
<1>14. \A i \in DOMAIN ses[u] : ses[u][i].coming \/ ses[u][i].room # s.room
  <2> SUFFICES ASSUME NEW i \in DOMAIN ses[u], ~ses[u][i].coming, ses[u][i].room = r
               PROVE  FALSE
    BY <1>7
  <2>1. OwnRoom(u, ses[u][i], Cardinality(Dialled(ses[u])))
    BY <1>1 DEF SetupInv, PhoneOK
  <2>2. r[2] <= Cardinality(Dialled(ses[u])) BY <2>1 DEF OwnRoom
  <2> QED BY <1>3, <1>4, <1>8a, <2>2
<1>15. RingsItsCaller(s)
  <2>1. DOMAIN s.tasks = {1} /\ s.tasks[1] = x BY <1>7
  <2>2. s.state # "Incoming" BY <1>7
  <2> QED BY <1>6, <2>1, <2>2 DEF RingsItsCaller, TasksOf, HasTask
<1>16. PICK C : C \notin Room BY NoSetContainsEverything
<1>17. \A v \in User : HasSession(v) => Current(v).room # C
  BY <1>16, CurrentFacts DEF Session
<1>18. alive[u] /\ UNCHANGED alive /\ UNCHANGED ring BY <1>1
<1> QED BY <1>5, <1>7, <1>8, <1>11, <1>13, <1>14, <1>15, <1>16, <1>17,
           <1>18, RingBegun
\* An invitation is taken, and nothing is announced.
LEMMA TakenCalm ==
  ASSUME NetType, NetAddressed, NEW u \in User, invites[u] # <<>>,
         invites' = [invites EXCEPT ![u] = Tail(@)], UNCHANGED members,
         \A v \in User : BoxStep(v, {})
  PROVE  NetAddressed' /\ \A r \in Room : CalmNet(r)
<1> DEFINE J == invites'
<1>1. invites \in [User -> Seq(Invitation)] BY DEF NetType, Invitation
<1>2. J[u] = Tail(invites[u]) /\ \A v \in User \ {u} : J[v] = invites[v]
  BY <1>1
<1>3. \A r : Fewer(InvitesTo(invites, r), InvitesTo(J, r))
  <2> HIDE DEF J
  <2> QED BY <1>1, <1>2, InvitesTaken
<1>4. \A v \in User : \A k \in DOMAIN J[v] : J[v][k].from = J[v][k].room[1]
  <2> TAKE v \in User
  <2>1. CASE v = u
    <3>1. invites[u] \in Seq(Invitation) BY <1>1
    <3>2. /\ Len(invites[u]) \in Nat /\ DOMAIN invites[u] = 1 .. Len(invites[u])
          /\ DOMAIN Tail(invites[u]) = 1 .. (Len(invites[u]) - 1)
          /\ \A j \in 1 .. (Len(invites[u]) - 1) :
               Tail(invites[u])[j] = invites[u][j + 1]
      BY <3>1, SeqFacts
    <3>3. \A k \in DOMAIN Tail(invites[u]) :
            k + 1 \in DOMAIN invites[u] /\ Tail(invites[u])[k] = invites[u][k + 1]
      BY <3>2
    <3> QED BY <1>2, <2>1, <3>3 DEF NetAddressed
  <2>2. CASE v # u
    <3>1. J[v] = invites[v] BY <1>2, <2>2
    <3> HIDE DEF J
    <3> QED BY <3>1 DEF NetAddressed
  <2> QED BY <2>1, <2>2
<1>5. \A v \in User : \A j \in DOMAIN inbox'[v] :
        inbox'[v][j].kind = "ring" => inbox'[v][j].room[1] = v
  BY BoxesCalm
<1>6. NetAddressed' BY <1>4, <1>5 DEF NetAddressed
<1>7. ASSUME NEW r \in Room PROVE CalmNet(r)
  <2>1. r[1] \in User /\ r \in Room \ {} BY RoomShape
  <2>2. Settled(inbox[r[1]], inbox'[r[1]], r) BY <2>1, BoxesCalm
  <2> QED BY <1>3, <2>2 DEF CalmNet
<1> QED BY <1>6, <1>7

\* A step of the net alone that is calm for every room.
LEMMA RingKept ==
  ASSUME IInv, SetupInv, RingInv, UNCHANGED <<alive, ses, ring>>,
         NetAddressed', \A r \in Room : CalmNet(r)
  PROVE  RingInv'
<1>1. \A r \in Room : Calm(r) BY DEF Calm, Fewer
<1>2. Addressed' BY DEF RingInv, Addressed, NetAddressed
<1>3. ASSUME NEW r \in Room, Undialled(r)' PROVE Unheard(r)'
  <2>1. Undialled(r) BY <1>3 DEF Undialled
  <2>2. Unheard(r) BY <2>1 DEF RingInv
  <2> QED BY <1>1, <2>2, CalmUnheard
<1>4. ASSUME NEW v \in User PROVE PresentRing(v)'
  <2>1. /\ SamePresent(ses[v], ses'[v]) /\ ring'[v] \in {ring[v], "off"}
        /\ PresentRing(v) /\ ses[v] \in Seq(Session)
    BY DEF SamePresent, RingInv, IInv, TypeOK
  <2>2. HasSession(v) => Calm(Current(v).room)
    BY <1>1, CurrentFacts DEF Session
  <2> QED BY <2>1, <2>2, OtherPresent
<1> QED BY <1>2, <1>3, <1>4 DEF RingInv

\* VoipReceiver.onReceive: the announcement has reached the phone that is
\* called.  A busy phone lets it drop.
LEMMA ReceiveInviteRing ==
  ASSUME IInv, SetupInv, RingInv, NEW u \in User, ReceiveInvite(u)
  PROVE  RingInv'
<1> DEFINE inv == Head(invites[u])
           C == inv.room
<1>1. /\ alive[u] /\ invites[u] # <<>> /\ UNCHANGED members
      /\ invites' = [invites EXCEPT ![u] = Tail(@)]
  BY DEF ReceiveInvite
<1>2. /\ ses \in [User -> Seq(Session)] /\ invites[u] \in Seq(Invitation)
      /\ invites \in [User -> Seq(Invitation)] /\ NetType /\ NetAddressed
  BY RingParts DEF IInv, TypeOK, Invitation
<1>3. inv \in Invitation /\ C \in Room /\ inv.from \in User
  <2>1. inv \in Invitation BY <1>1, <1>2, SeqFacts
  <2> QED BY <2>1 DEF Invitation
<1>4. inv.from = C[1] /\ C[1] # u
  <2>1. inv = invites[u][1] /\ 1 \in DOMAIN invites[u] BY <1>1, <1>2, SeqFacts
  <2>2. \A j \in DOMAIN invites[u] : invites[u][j].room[1] # u
    BY <1>1 DEF SetupInv, PhoneOK
  <2> QED BY <1>2, <2>1, <2>2 DEF NetAddressed
<1>5. CASE Busy(u)
  <2>1. /\ Deliver([Nothing EXCEPT ![inv.from] = <<Message("reject", u, C)>>])
        /\ UNCHANGED <<alive, ses, ring, died>>
    BY <1>5 DEF ReceiveInvite, phone
  <2> HIDE DEF inv, C
  <2>2. \A v \in User : BoxStep(v, {}) BY <1>2, <1>3, <2>1, RelayBoxes
  <2>3. NetAddressed' /\ \A r \in Room : CalmNet(r)
    BY <1>1, <1>2, <2>2, TakenCalm
  <2> QED BY <2>1, <2>3, RingKept
<1>6. CASE ~Busy(u)
  <2> DEFINE b == \E i \in DOMAIN ses[u] : ses[u][i].room = C
             t == NewSession(C, inv.from, TRUE)
             s == [t EXCEPT !.stray = b]
             x == NewTask("ringBack", Nobody)
  <2>1. /\ ses' = [ses EXCEPT ![u] = Append(@, s)]
        /\ ring' = [ring EXCEPT ![u] = "incoming"]
        /\ UNCHANGED <<alive, died, inbox>>
    BY <1>6 DEF ReceiveInvite
  <2>2. t \in Session BY <1>3, NewSessionType
  <2>3. x \in Task /\ x.kind = "ringBack" BY DEF NewTask, Task
  <2>4. /\ t.coming /\ t.room = C /\ t.state = "Incoming"
        /\ t.target = inv.from /\ t.tasks = <<x>>
    BY DEF NewSession
  <2>5. b \in BOOLEAN OBVIOUS
  <2> HIDE DEF t, x, b
  <2>6. /\ s \in Session /\ s.coming /\ s.room = C /\ s.state = "Incoming"
        /\ s.target = inv.from /\ s.tasks = <<x>>
    BY <2>2, <2>4, <2>5 DEF Session
  <2>7. /\ \A v \in User : ses'[v] = IF v = u THEN Append(ses[u], s) ELSE ses[v]
        /\ \A v \in User \ {u} : ring'[v] = ring[v]
    BY <1>2, <2>1, RingParts DEF PhoneType
  <2> DEFINE J == invites'
             Y == ses'
  <2>8. J[u] = Tail(invites[u]) /\ \A v \in User \ {u} : J[v] = invites[v]
    BY <1>1, <1>2
  <2>9. Y[u] = Append(ses[u], s) /\ \A v \in User \ {u} : Y[v] = ses[v]
    BY <2>7
  <2>10. \A v \in User : BoxStep(v, {}) BY <2>1 DEF BoxStep
  <2>11. NetAddressed' /\ \A r \in Room : CalmNet(r)
    BY <1>1, <1>2, <2>10, TakenCalm
  <2> HIDE DEF s, inv, J, Y
  <2>12. RingsItsCaller(s)
    <3>1. DOMAIN s.tasks = {1} /\ s.tasks[1] = x BY <2>6
    <3> QED BY <1>4, <2>3, <2>6, <3>1 DEF RingsItsCaller, TasksOf, HasTask
  <2>13. /\ InvitesTo(invites, C) # {}
         /\ AtMostOne(InvitesTo(invites, C)) => InvitesTo(J, C) = {}
    BY <1>1, <1>2, <2>8, InvitesTaken DEF C, inv
  <2>14. CallsTo(ses, C) = {} => AtMostOne(CallsTo(Y, C))
    BY <1>2, <2>6, <2>9, CallsBegun
  <2> HIDE DEF C
  <2>15. ~Undialled(C) BY <1>3, <2>13 DEF RingInv, Unheard
  <2>16. ASSUME NEW v \in User \ {u}, NEW c, c.room = C,
                Announced(v, c, inbox[v], invites, ses, members[C])
         PROVE  Announced(v, c, inbox'[v], invites', ses', members'[C])
    <3>1. Announced(v, c, inbox[v], J, Y, members[C])
      BY <2>13, <2>14, <2>16, InviteTakenUp
    <3> QED BY <1>1, <2>1, <3>1 DEF J, Y
  <2>17. alive[u] /\ UNCHANGED alive BY <1>1, <2>1
  <2>18. s.state # "Connected" BY <2>6
  <2>19. \A v \in User \ {u} :
           LET c == Current(v) IN
           HasSession(v) /\ ~c.stray /\ ~c.coming /\ c.room = C
             /\ Announced(v, c, inbox[v], invites, ses, members[C]) =>
               Announced(v, c, inbox'[v], invites', ses', members'[C])
    BY <2>16
  <2> QED BY <2>6, <2>7, <2>11, <2>12, <2>15, <2>17, <2>18, <2>19, RingBegun
<1> QED BY <1>5, <1>6

\* An exception: what was announced to the process or by it is lost.
LEMMA DieRing ==
  ASSUME IInv, SetupInv, RingInv, NEW u \in User, NEW i \in DOMAIN ses[u],
         NEW k, Die(u, i, k)
  PROVE  RingInv'
<1>1. /\ ses \in [User -> Seq(Session)] /\ NetType /\ NetAddressed /\ PhoneType
      /\ invites \in [User -> Seq(Invitation)]
  BY RingParts DEF IInv, TypeOK, Invitation
<1> DEFINE J == invites'
           Y == ses'
<1>2. /\ \A v \in User : J[v] = IF v = u THEN <<>> ELSE invites[v]
      /\ \A v \in User : Y[v] = IF v = u THEN <<>> ELSE ses[v]
      /\ \A v \in User : inbox'[v] = IF v = u THEN <<>> ELSE inbox[v]
      /\ \A v \in User : alive'[v] = IF v = u THEN FALSE ELSE alive[v]
      /\ \A v \in User \ {u} : ring'[v] = ring[v]
      /\ members' = members
  BY <1>1 DEF Die, NetType, PhoneType
<1> HIDE DEF J, Y
<1>3. \A r : /\ Fewer(CallsTo(ses, r), CallsTo(Y, r))
             /\ Ringing(Y, r) => Ringing(ses, r)
             /\ Fewer(InvitesTo(invites, r), InvitesTo(J, r))
  BY <1>1, <1>2, CallsEnded, InvitesLost
<1>4. \A v \in User : BoxStep(v, {}) BY <1>2 DEF BoxStep
<1>5. \A r \in Room : Calm(r)
  <2> TAKE r \in Room
  <2>1. r[1] \in User /\ r \in Room \ {} BY RoomShape
  <2>2. Settled(inbox[r[1]], inbox'[r[1]], r) BY <1>1, <1>4, <2>1, BoxesCalm
  <2> QED BY <1>2, <1>3, <2>2 DEF Calm, CalmNet, J, Y
<1>6. DOMAIN <<>> = {} OBVIOUS
<1>7. Addressed'
  <2>1. \A v \in User : \A j \in DOMAIN inbox'[v] :
          inbox'[v][j].kind = "ring" => inbox'[v][j].room[1] = v
    BY <1>1, <1>4, BoxesCalm
  <2>2. \A v \in User : \A j \in DOMAIN J[v] : J[v][j].from = J[v][j].room[1]
    <3> TAKE v \in User
    <3>1. CASE v = u BY <1>2, <1>6, <3>1
    <3>2. CASE v # u
      <4>1. J[v] = invites[v] BY <1>2, <3>2
      <4> QED BY <1>1, <4>1 DEF NetAddressed
    <3> QED BY <3>1, <3>2
  <2>3. \A v \in User : \A j \in DOMAIN Y[v] : RingsItsCaller(Y[v][j])
    BY <1>2, <1>6 DEF RingInv, Addressed
  <2> QED BY <2>1, <2>2, <2>3 DEF Addressed, J, Y
<1>8. ASSUME NEW r \in Room, Undialled(r)' PROVE Unheard(r)'
  <2>1. r[1] \in User BY RoomShape
  <2>2. alive'[r[1]] /\ r[2] > Cardinality(Dialled(Y[r[1]]))
    BY <1>8 DEF Undialled, Y
  <2>3. alive[r[1]] /\ Y[r[1]] = ses[r[1]] BY <1>2, <2>1, <2>2
  <2>4. Undialled(r) BY <2>2, <2>3 DEF Undialled
  <2>5. Unheard(r) BY <2>4 DEF RingInv
  <2> QED BY <1>5, <2>5, CalmUnheard
<1>9. ASSUME NEW v \in User PROVE PresentRing(v)'
  <2>1. CASE v = u
    <3>1. ~alive'[v] BY <1>2, <2>1
    <3> QED BY <3>1, PresentIs
  <2>2. CASE v # u
    <3>1. Y[v] = ses[v] BY <1>2, <2>2
    <3>2. /\ SamePresent(ses[v], ses'[v]) /\ ring'[v] \in {ring[v], "off"}
          /\ PresentRing(v) /\ ses[v] \in Seq(Session) /\ (alive'[v] => alive[v])
      BY <1>1, <1>2, <2>2, <3>1 DEF SamePresent, RingInv, Y
    <3>3. HasSession(v) => Calm(Current(v).room)
      BY <1>5, CurrentFacts DEF Session
    <3> QED BY <3>2, <3>3, OtherPresent
  <2> QED BY <2>1, <2>2
<1> QED BY <1>7, <1>8, <1>9 DEF RingInv
-----------------------------------------------------------------------------
(* The executors.                                                          *)

LEMMA RestFacts ==
  ASSUME NEW t \in Session, t.tasks # <<>>
  PROVE  /\ Rest(t) \in Session /\ Rest(t).tasks = Tail(t.tasks)
         /\ Rest(t).room = t.room /\ Rest(t).coming = t.coming
         /\ Rest(t).target = t.target /\ Rest(t).stray = t.stray
         /\ Rest(t).state = t.state
<1>1. Rest(t) \in Session BY RestType
<1>2. t.tasks \in Seq(Task) BY DEF Session
<1> QED BY <1>1, <1>2 DEF Rest, Session

\* A task that moves no announcement.
LEMMA CalmTask ==
  ASSUME IInv, SetupInv, RingInv, NEW u \in User, NEW i \in DOMAIN ses[u], NEW k,
         Running(u, i, k), NEW o, o = ses[u][i], NEW t \in Session,
         t.tasks = o.tasks, t.room = o.room, t.coming = o.coming, t.stray = o.stray,
         t.state = "Incoming" => o.state = "Incoming",
         SetSession(u, i, Rest(t)), UNCHANGED alive,
         \A v \in User : ring'[v] \in {ring[v], "off"},
         NetAddressed', \A r \in Room : CalmNet(r),
         i = Cur(u) /\ ~o.stray /\ t.state = "Connected" =>
           /\ ring'[u] = "off"
           /\ t.coming \/ o.state = "Connected" \/ k = "newPeer"
  PROVE  RingInv'
<1> DEFINE s == Rest(t)
<1>1. /\ alive[u] /\ o.tasks \in Seq(Task) /\ o.tasks # <<>> /\ HasTask(o.tasks, k)
  BY TaskFacts
<1>2. /\ s \in Session /\ s.tasks = Tail(o.tasks) /\ s.room = o.room
      /\ s.coming = o.coming /\ s.stray = o.stray /\ s.state = t.state
  BY <1>1, RestFacts
<1>3. SetSession(u, i, s) OBVIOUS
<1> HIDE DEF s
<1>4. RingsItsCaller(o) BY RingParts
<1>5. Calmer(o, s)
  <2>1. o.stray => s.stray BY <1>2
  <2> QED BY <1>1, <1>2, <1>4, <2>1, CalmerRest
<1>6. i = Cur(u) /\ ~s.stray /\ s.state = "Connected" =>
        /\ ring'[u] = "off"
        /\ \/ s.coming \/ ses[u][i].state = "Connected"
           \/ HasTask(ses[u][i].tasks, "newPeer")
  BY <1>1, <1>2
<1> QED BY <1>1, <1>2, <1>3, <1>5, <1>6, CalmStep

\* The session is left as it is.
LEMMA CalmTalk ==
  ASSUME IInv, SetupInv, RingInv, NEW u \in User, NEW i \in DOMAIN ses[u], NEW k,
         Running(u, i, k), Done(u, i, ses[u][i]),
         NetAddressed', \A r \in Room : CalmNet(r)
  PROVE  RingInv'
<1> DEFINE o == ses[u][i]
<1>1. /\ SetSession(u, i, Rest(o)) /\ UNCHANGED alive /\ UNCHANGED ring
  BY DEF Done
<1>2. alive[u] /\ o \in Session BY TaskFacts
<1>3. i = Cur(u) /\ ~o.stray /\ o.state = "Connected" => ring'[u] = "off"
  BY <1>1, <1>2, SilentTask
<1>4. \A v \in User : ring'[v] \in {ring[v], "off"} BY <1>1
<1>5. o = ses[u][i] OBVIOUS
<1> HIDE DEF o
<1> QED BY <1>1, <1>2, <1>3, <1>4, <1>5, CalmTask

LEMMA TaskRefuseRing ==
  ASSUME IInv, SetupInv, RingInv, NEW u \in User, NEW i \in DOMAIN ses[u],
         TaskRefuse(u, i)
  PROVE  RingInv'
<1> DEFINE o == ses[u][i]
<1>1. /\ Running(u, i, "refuse") /\ Relay("reject", u, o.target, o.room)
      /\ Done(u, i, o)
  BY DEF TaskRefuse
<1>2. o.room \in Room /\ o.target \in User BY <1>1, TaskFacts
<1>3. /\ Deliver([Nothing EXCEPT ![o.target] = <<Message("reject", u, o.room)>>])
      /\ UNCHANGED <<invites, members>>
  BY <1>1 DEF Relay
<1> HIDE DEF o
<1>4. \A v \in User : BoxStep(v, {}) BY <1>2, <1>3, RingParts, RelayBoxes
<1>5. NetAddressed' /\ \A r \in Room \ {} : CalmNet(r)
  BY <1>3, <1>4, RingParts, NetCalm
<1> QED BY <1>1, <1>5, CalmTalk DEF o

LEMMA TaskCancelRing ==
  ASSUME IInv, SetupInv, RingInv, NEW u \in User, NEW i \in DOMAIN ses[u],
         TaskCancel(u, i)
  PROVE  RingInv'
<1>1. Running(u, i, "cancel") /\ Done(u, i, ses[u][i]) /\ UNCHANGED net
  BY DEF TaskCancel
<1>2. NetAddressed' /\ \A r \in Room : CalmNet(r)
  BY <1>1, RingParts, SilentCalm
<1> QED BY <1>1, <1>2, CalmTalk

LEMMA TaskLeaveRing ==
  ASSUME IInv, SetupInv, RingInv, NEW u \in User, NEW i \in DOMAIN ses[u],
         TaskLeave(u, i)
  PROVE  RingInv'
<1>1. /\ Running(u, i, "leave") /\ ServerLeave(u, ses[u][i].room)
      /\ Done(u, i, ses[u][i])
  BY DEF TaskLeave
<1>2. ses[u][i].room \in Room BY <1>1, TaskFacts
<1>3. NetAddressed' /\ \A r \in Room : CalmNet(r)
  BY <1>1, <1>2, RingParts, LeaveCalm
<1> QED BY <1>1, <1>3, CalmTalk

LEMMA RemoteStreamRing ==
  ASSUME IInv, SetupInv, RingInv, NEW u \in User, NEW i \in DOMAIN ses[u],
         RemoteStream(u, i)
  PROVE  RingInv'
<1> DEFINE o == ses[u][i]
           s == [o EXCEPT !.remote = "live"]
<1>1. /\ alive[u] /\ SetSession(u, i, s)
      /\ UNCHANGED <<alive, ring, died>> /\ UNCHANGED net
  BY DEF RemoteStream
<1>2. o \in Session /\ RingsItsCaller(o) BY <1>1, SessionFacts, RingParts
<1>3. o = ses[u][i] OBVIOUS
<1> HIDE DEF o
<1>4. /\ s \in Session /\ s.room = o.room /\ s.coming = o.coming
      /\ s.target = o.target /\ s.tasks = o.tasks /\ s.stray = o.stray
      /\ s.state = o.state
  BY <1>2 DEF Session
<1> HIDE DEF s
<1>5. Calmer(o, s) BY <1>2, <1>4, CalmerSame
<1>6. \A v \in User : ring'[v] \in {ring[v], "off"} BY <1>1
<1> QED BY <1>1, <1>3, <1>4, <1>5, <1>6, SessionCalm

\* The first task is replaced by one that announces nothing.
LEMMA FirstReplaced ==
  ASSUME NEW ts \in Seq(Task), ts # <<>>, NEW x \in Task, x.kind = "close",
         NEW k \in {"create", "ringBack", "join", "peers", "newPeer"}
  PROVE  TasksOf(<<x>> \o Tail(ts), k) \subseteq TasksOf(ts, k)
<1> DEFINE q == <<x>> \o Tail(ts)
<1>1. /\ Len(ts) \in Nat /\ DOMAIN ts = 1 .. Len(ts) /\ Tail(ts) \in Seq(Task)
      /\ DOMAIN Tail(ts) = 1 .. (Len(ts) - 1)
      /\ \A j \in 1 .. (Len(ts) - 1) : Tail(ts)[j] = ts[j + 1]
  BY SeqFacts
<1>2. <<x>> \in Seq(Task) /\ Len(<<x>>) = 1 /\ <<x>>[1] = x
  OBVIOUS
<1>3. /\ q \in Seq(Task) /\ Len(q) = 1 + Len(Tail(ts))
      /\ \A j \in 1 .. 1 + Len(Tail(ts)) :
           q[j] = IF j <= 1 THEN x ELSE Tail(ts)[j - 1]
  <2> HIDE DEF q
  <2>1. /\ <<x>> \o Tail(ts) \in Seq(Task)
        /\ Len(<<x>> \o Tail(ts)) = Len(<<x>>) + Len(Tail(ts))
        /\ \A j \in 1 .. Len(<<x>>) + Len(Tail(ts)) :
             (<<x>> \o Tail(ts))[j] =
               IF j <= Len(<<x>>) THEN <<x>>[j] ELSE Tail(ts)[j - Len(<<x>>)]
    BY <1>1, <1>2, ConcatProperties
  <2>2. \A j \in 1 .. 1 + Len(Tail(ts)) : j <= 1 => j = 1
    OBVIOUS
  <2> QED BY <1>2, <2>1, <2>2 DEF q
<1>4. Len(Tail(ts)) = Len(ts) - 1 /\ DOMAIN q = 1 .. Len(q)
  BY <1>1, <1>3, LenProperties
<1> HIDE DEF q
<1> SUFFICES ASSUME NEW j \in TasksOf(q, k) PROVE j \in TasksOf(ts, k)
  BY DEF q
<1>5. j \in DOMAIN q /\ q[j].kind = k BY DEF TasksOf
<1>6. j # 1 BY <1>3, <1>4, <1>5
<1>7. j \in DOMAIN ts /\ j - 1 \in 1 .. (Len(ts) - 1)
  BY <1>1, <1>3, <1>4, <1>5, <1>6
<1>8. q[j] = Tail(ts)[j - 1] BY <1>1, <1>3, <1>4, <1>5, <1>6
<1>9. q[j] = ts[j] BY <1>1, <1>7, <1>8
<1> QED BY <1>5, <1>7, <1>9 DEF TasksOf

LEMMA TaskReleaseRing ==
  ASSUME IInv, SetupInv, RingInv, NEW u \in User, NEW i \in DOMAIN ses[u],
         TaskRelease(u, i)
  PROVE  RingInv'
<1> DEFINE o == ses[u][i]
           x == NewTask("close", Nobody)
           q == <<x>> \o Tail(o.tasks)
           t == [o EXCEPT !.local = "disposed", !.remote = "disposed",
                          !.peer = "closed", !.factory = FALSE,
                          !.state = "Idle", !.tasks = q]
<1>1. Running(u, i, "release") BY DEF TaskRelease
<1>2. /\ o \in Session /\ alive[u] /\ o.tasks # <<>> /\ o.tasks \in Seq(Task)
  BY <1>1, TaskFacts
<1>3. CASE o.local = "live" /\ o.remote = "live" /\ o.peer # "none"
  <2>1. /\ SetSession(u, i, t) /\ UNCHANGED <<alive, ring, died>>
        /\ UNCHANGED net
    BY <1>3 DEF TaskRelease
  <2>2. o = ses[u][i] /\ RingsItsCaller(o) BY RingParts
  <2>3. x \in Task /\ x.kind = "close" BY DEF NewTask, Task
  <2> HIDE DEF o, x
  <2>4. \A k \in {"create", "ringBack", "join", "peers", "newPeer"} :
          TasksOf(q, k) \subseteq TasksOf(o.tasks, k)
    BY <1>2, <2>3, FirstReplaced
  <2>5. q \in Seq(Task)
    <3>1. Tail(o.tasks) \in Seq(Task) /\ <<x>> \in Seq(Task)
      BY <1>2, <2>3, SeqFacts
    <3> QED BY <3>1, ConcatProperties
  <2> HIDE DEF q
  <2>6. /\ t \in Session /\ t.tasks = q /\ t.state = "Idle"
        /\ t.room = o.room /\ t.coming = o.coming /\ t.target = o.target
        /\ t.stray = o.stray
    <3>1. o \in Session /\ "Idle" \in State /\ q \in Seq(Task)
      BY <1>2, <2>5 DEF State
    <3>2. t \in Session BY ONLY <3>1 DEF Session
    <3>3. /\ t.tasks = q /\ t.state = "Idle"
          /\ t.room = o.room /\ t.coming = o.coming /\ t.target = o.target
          /\ t.stray = o.stray
      BY ONLY <3>1 DEF Session
    <3> QED BY ONLY <3>2, <3>3
  <2> HIDE DEF t
  <2>7. /\ HasTask(t.tasks, "ringBack") => HasTask(o.tasks, "ringBack")
        /\ HasTask(t.tasks, "join") => HasTask(o.tasks, "join")
    BY <2>4, <2>6, HasIsSome
  <2>8. RingsItsCaller(t)
    BY <2>2, <2>4, <2>6, <2>7 DEF RingsItsCaller
  <2>9. \A k \in {"create", "peers", "newPeer", "ringBack"} :
          Fewer(TasksOf(o.tasks, k), TasksOf(t.tasks, k))
    BY <2>4, <2>6 DEF Fewer, AtMostOne
  <2>10. Calmer(o, t) BY <2>6, <2>8, <2>9 DEF Calmer
  <2>11. \A v \in User : ring'[v] \in {ring[v], "off"} BY <2>1
  <2>12. t.state # "Connected" BY <2>6
  <2> QED BY <1>2, <2>1, <2>2, <2>6, <2>10, <2>11, <2>12, SessionCalm
<1>4. CASE ~(o.local = "live" /\ o.remote = "live" /\ o.peer # "none")
  <2>1. Die(u, i, "release") BY <1>4 DEF TaskRelease
  <2> QED BY <2>1, DieRing
<1> QED BY <1>3, <1>4

\* The screen is called back.
LEMMA TaskCloseRing ==
  ASSUME IInv, SetupInv, RingInv, NEW u \in User, NEW i \in DOMAIN ses[u],
         TaskClose(u, i)
  PROVE  RingInv'
<1> DEFINE o == ses[u][i]
           e == IF HasScreen(o) THEN "closed" ELSE o.ui
           t == [o EXCEPT !.ui = e]
<1>1. Running(u, i, "close") /\ Done(u, i, t) /\ UNCHANGED net
  BY DEF TaskClose
<1>2. alive[u] /\ o \in Session BY <1>1, TaskFacts
<1>3. o = ses[u][i] OBVIOUS
<1>4. i = Cur(u) /\ ~o.stray /\ o.state = "Connected" => ring[u] = "off"
  BY <1>2, SilentTask
<1> HIDE DEF o
<1>5. e \in Ui BY <1>2 DEF Session, Ui
<1> HIDE DEF e
<1>6. /\ t \in Session /\ t.tasks = o.tasks /\ t.room = o.room
      /\ t.coming = o.coming /\ t.stray = o.stray /\ t.state = o.state
  BY <1>2, <1>5 DEF Session
<1> HIDE DEF t
<1>7. /\ SetSession(u, i, Rest(t)) /\ UNCHANGED alive /\ ring' = ring
      /\ \A v \in User : ring'[v] \in {ring[v], "off"}
  BY <1>1 DEF Done
<1>8. NetAddressed' /\ \A r \in Room : CalmNet(r)
  BY <1>1, RingParts, SilentCalm
<1> QED BY <1>1, <1>3, <1>4, <1>6, <1>7, <1>8, CalmTask

\* A task that connects the call stops the ring.
LEMMA ConnectRing ==
  ASSUME IInv, SetupInv, RingInv, NEW u \in User, NEW i \in DOMAIN ses[u], NEW k,
         Running(u, i, k), NEW o, o = ses[u][i], NEW t \in Session,
         t.tasks = o.tasks, t.room = o.room, t.coming = o.coming, t.stray = o.stray,
         t.coming \/ k = "newPeer", Connect(u, i, t)
  PROVE  RingInv'
<1> DEFINE c == [t EXCEPT !.state = "Connected"]
<1>1. /\ SetSession(u, i, Rest(c)) /\ UNCHANGED alive /\ UNCHANGED net
      /\ ring' = [ring EXCEPT ![u] = "off"]
  BY DEF Connect
<1>2. /\ c \in Session /\ c.tasks = t.tasks /\ c.room = t.room
      /\ c.coming = t.coming /\ c.stray = t.stray /\ c.state = "Connected"
  BY DEF Session, State
<1> HIDE DEF c
<1>3. ring'[u] = "off" /\ \A v \in User : ring'[v] \in {ring[v], "off"}
  BY <1>1, RingParts DEF PhoneType
<1>4. NetAddressed' /\ \A r \in Room : CalmNet(r)
  BY <1>1, RingParts, SilentCalm
<1>5. UNCHANGED alive /\ SetSession(u, i, Rest(c)) BY <1>1
<1> QED BY <1>2, <1>3, <1>4, <1>5, CalmTask

LEMMA TaskNewPeerRing ==
  ASSUME IInv, SetupInv, RingInv, NEW u \in User, NEW i \in DOMAIN ses[u],
         TaskNewPeer(u, i)
  PROVE  RingInv'
<1> DEFINE o == ses[u][i]
           l == IF o.local = "none" THEN "live" ELSE o.local
           p == IF o.factory THEN "open" ELSE o.peer
           t == [o EXCEPT !.local = l, !.peer = p]
<1>1. Running(u, i, "newPeer") BY DEF TaskNewPeer
<1>2. o \in Session BY <1>1, TaskFacts
<1>3. IF (o.local = "none" /\ ~o.factory) \/ o.ui = "none"
      THEN Die(u, i, "newPeer") ELSE Connect(u, i, t)
  BY DEF TaskNewPeer
<1>4. o = ses[u][i] OBVIOUS
<1> HIDE DEF o
<1>5. l \in {"none", "live", "disposed"} /\ p \in {"none", "open", "closed"}
  BY <1>2 DEF Session
<1> HIDE DEF l, p
<1>6. /\ t \in Session /\ t.tasks = o.tasks /\ t.room = o.room
      /\ t.coming = o.coming /\ t.stray = o.stray
  BY <1>2, <1>5 DEF Session
<1> HIDE DEF t
<1>7. CASE (o.local = "none" /\ ~o.factory) \/ o.ui = "none"
  BY <1>3, <1>7, DieRing
<1>8. CASE ~((o.local = "none" /\ ~o.factory) \/ o.ui = "none")
  BY <1>1, <1>3, <1>4, <1>6, <1>8, ConnectRing
<1> QED BY <1>7, <1>8
\* A task that moves the announcement of its own room.
LEMMA MovingTask ==
  ASSUME IInv, SetupInv, RingInv, NEW u \in User, NEW i \in DOMAIN ses[u], NEW k,
         Running(u, i, k), NEW o, o = ses[u][i], NEW t \in Session,
         t.tasks = o.tasks, t.room = o.room, t.coming = o.coming, t.stray = o.stray,
         t.state = o.state \/ t.state = "Connecting",
         NEW s, s = Rest(t), SetSession(u, i, s), UNCHANGED alive, UNCHANGED ring,
         NetAddressed', \A r \in Room \ {o.room} : CalmNet(r),
         ~o.coming /\ Announced(u, o, inbox[u], invites, ses, members[o.room]) =>
           Announced(u, s, inbox'[u], invites', ses', members'[o.room]),
         o.coming =>
           \A v \in User \ {u} : \A c :
             c.room = o.room /\ c.room[1] = v /\ alive[v]
               /\ Announced(v, c, inbox[v], invites, ses, members[o.room]) =>
                 Announced(v, c, inbox'[v], invites', ses', members'[o.room])
  PROVE  RingInv'
<1>1. /\ alive[u] /\ o \in Session /\ o.tasks \in Seq(Task) /\ o.tasks # <<>>
      /\ o.room \in Room
      /\ ~o.coming => o.room[1] = u
  BY TaskFacts
<1>2. /\ s \in Session /\ s.tasks = Tail(o.tasks) /\ s.room = o.room
      /\ s.coming = o.coming /\ s.stray = o.stray /\ s.state = t.state
  BY <1>1, RestFacts
<1>3. RingsItsCaller(o) BY RingParts
<1>4. RingsItsCaller(s) BY <1>1, <1>2, <1>3, CallerRest
<1>5. HasTask(s.tasks, "ringBack") => HasTask(o.tasks, "ringBack")
  BY <1>1, <1>2, HasTaskTail
<1>6. ~Undialled(o.room) BY <1>1, Heard
<1>7. o.coming => o.room[1] # u
  <2>1. OwnRoom(u, o, Cardinality(Dialled(ses[u])))
    BY <1>1 DEF SetupInv, PhoneOK
  <2> QED BY <2>1 DEF OwnRoom
<1>8. ASSUME i = Cur(u), ~o.stray
      PROVE  /\ o.state = "Connected" => ring[u] = "off"
             /\ ~o.coming => Announced(u, o, inbox[u], invites, ses, members[o.room])
  <2>1. HasSession(u) /\ Current(u) = o
    BY <1>1, <1>8, SessionFacts DEF HasSession, Current, Cur
  <2> QED BY <1>8, <2>1 DEF RingInv, PresentRing
<1>9. i = Cur(u) /\ ~s.stray =>
        /\ s.state = "Connected" => ring'[u] = "off"
        /\ ~s.coming => Announced(u, s, inbox'[u], invites', ses', members'[s.room])
  BY <1>2, <1>8
<1>10. ASSUME NEW v \in User, v # u \/ i # Cur(u), HasSession(v),
              ~Current(v).stray, ~Current(v).coming, Current(v).room[1] = v,
              Current(v).room = o.room,
              Announced(v, Current(v), inbox[v], invites, ses, members[o.room])
       PROVE  Announced(v, Current(v), inbox'[v], invites', ses', members'[o.room])
  <2>1. CASE o.coming
    BY <1>7, <1>10, <2>1 DEF HasSession
  <2>2. CASE ~o.coming
    <3>1. v = u BY <1>1, <1>10, <2>2
    <3>2. i = Cur(u) BY <1>10, <2>2, <3>1 DEF RingInv, PresentRing
    <3> QED BY <1>10, <3>1, <3>2
  <2> QED BY <2>1, <2>2
<1>11. /\ \A v \in User : ring'[v] \in {ring[v], "off"} \/ (v = u /\ i = Cur(u))
       /\ o.stray => s.stray
  BY <1>2
<1>12. \A v \in User :
         LET c == Current(v) IN
         (v # u \/ i # Cur(u)) /\ HasSession(v) /\ ~c.stray /\ ~c.coming
           /\ c.room[1] = v /\ c.room = o.room
           /\ Announced(v, c, inbox[v], invites, ses, members[o.room]) =>
             Announced(v, c, inbox'[v], invites', ses', members'[o.room])
  BY <1>10
<1> QED BY <1>1, <1>2, <1>4, <1>5, <1>6, <1>9, <1>11, <1>12, RingRewritten

\* Running a task rewrites no call, and nobody begins to ring.
LEMMA TaskCalls ==
  ASSUME IInv, SetupInv, NEW u \in User, NEW i \in DOMAIN ses[u], NEW k,
         Running(u, i, k), NEW o, o = ses[u][i], NEW t \in Session,
         t.tasks = o.tasks, t.room = o.room, t.coming = o.coming,
         SetSession(u, i, Rest(t)), NEW r
  PROVE  /\ CallsTo(ses', r) = CallsTo(ses, r)
         /\ Ringing(ses', r) => Ringing(ses, r)
<1> DEFINE s == Rest(t)
<1>1. /\ o.tasks \in Seq(Task) /\ o.tasks # <<>> BY TaskFacts
<1>2. /\ s \in Session /\ s.tasks = Tail(o.tasks) /\ s.room = o.room
      /\ s.coming = o.coming
  BY <1>1, RestFacts
<1>3. SetSession(u, i, s) OBVIOUS
<1> HIDE DEF s
<1>4. HasTask(s.tasks, "ringBack") => HasTask(o.tasks, "ringBack")
  BY <1>1, <1>2, HasTaskTail
<1>5. ses \in [User -> Seq(Session)] BY DEF IInv, TypeOK
<1> QED BY <1>2, <1>3, <1>4, <1>5, CallsRewritten

\* __create: the announcement is on its way back to the caller.
LEMMA TaskCreateRing ==
  ASSUME IInv, SetupInv, RingInv, NEW u \in User, NEW i \in DOMAIN ses[u],
         TaskCreate(u, i)
  PROVE  RingInv'
<1> DEFINE o == ses[u][i]
           s == Rest(o)
<1>1. /\ Running(u, i, "create") /\ ServerEnter(u, o.room) /\ Done(u, i, o)
  BY DEF TaskCreate
<1>2. /\ alive[u] /\ o \in Session /\ o.tasks \in Seq(Task) /\ o.tasks # <<>>
      /\ Head(o.tasks).kind = "create" /\ HasTask(o.tasks, "create")
      /\ o.room \in Room /\ Keeps(u, o, o)
  BY <1>1, TaskFacts
<1>3. ~o.coming BY <1>2 DEF Keeps, EntersWithScreen
<1>4. /\ SetSession(u, i, s) /\ UNCHANGED alive /\ UNCHANGED ring
  BY <1>1 DEF Done
<1>5. o = ses[u][i] /\ s = Rest(o) OBVIOUS
<1> HIDE DEF o, s
<1>6. s.tasks = Tail(o.tasks) /\ s.room = o.room /\ s.state = o.state
  BY <1>2, <1>5, RestFacts
<1>7. /\ NetAddressed' /\ \A r \in Room \ {o.room} : CalmNet(r)
      /\ invites' = invites /\ members'[o.room] \subseteq members[o.room] \cup {u}
      /\ \E w \in User \cup {Nobody} :
           inbox'[u] = Append(inbox[u], Message("peers", w, o.room))
  BY <1>1, <1>2, RingParts, EnterBoxes
<1>8. PICK m \in Msg : /\ inbox'[u] = Append(inbox[u], m)
                       /\ m.kind = "peers" /\ m.room = o.room
  BY <1>2, <1>7 DEF Message, Msg
<1>9. Fewer(CallsTo(ses, o.room), CallsTo(ses', o.room))
  BY <1>1, <1>2, <1>4, <1>5, TaskCalls DEF Fewer
<1>10. inbox[u] \in Seq(Msg) BY DEF IInv, TypeOK
<1>11. Announced(u, o, inbox[u], invites, ses, members[o.room]) =>
         Announced(u, s, inbox'[u], invites', ses', members'[o.room])
  <2> SUFFICES ASSUME Announced(u, o, inbox[u], invites, ses, members[o.room])
               PROVE  Announced(u, s, inbox'[u], invites', ses', members'[o.room])
    OBVIOUS
  <2>1. Announced(u, s, Append(inbox[u], m), invites, ses', members'[o.room])
    BY <1>2, <1>6, <1>7, <1>8, <1>9, <1>10, CreateDone
  <2> QED BY <1>7, <1>8, <2>1
<1> QED BY <1>1, <1>2, <1>3, <1>4, <1>5, <1>7, <1>11, MovingTask

\* onJoinHome.  The caller, alone in its room, sends the invitation.
LEMMA TaskPeersRing ==
  ASSUME IInv, SetupInv, RingInv, NEW u \in User, NEW i \in DOMAIN ses[u],
         TaskPeers(u, i)
  PROVE  RingInv'
<1> DEFINE o == ses[u][i]
           who == Head(o.tasks).who
           v == IF who = Nobody THEN o.target ELSE who
           l == IF o.local = "none" THEN "live" ELSE o.local
           t == [o EXCEPT !.target = v, !.factory = TRUE, !.local = l]
           p == [t EXCEPT !.peer = "open"]
           s == Rest(t)
<1>1. Running(u, i, "peers") BY DEF TaskPeers
<1>2. /\ o \in Session /\ o.tasks \in Seq(Task) /\ o.tasks # <<>>
      /\ Head(o.tasks).kind = "peers" /\ Head(o.tasks) \in Task
      /\ o.room \in Room /\ o.target \in User
      /\ ~o.coming => o.room[1] = u
  BY <1>1, TaskFacts
<1>3. IF ~t.coming
      THEN ServerInvite(u, t.target, t.room) /\ Done(u, i, t)
      ELSE IF t.local = "disposed" \/ t.ui = "none"
      THEN Die(u, i, "peers")
      ELSE Connect(u, i, p)
  BY DEF TaskPeers
<1>4. who \in User \cup {Nobody} BY <1>2 DEF Task
<1>5. o = ses[u][i] OBVIOUS
<1> HIDE DEF o, who
<1>6. v \in User /\ l \in {"none", "live", "disposed"}
  BY <1>2, <1>4 DEF Session
<1> HIDE DEF v, l
<1>7. /\ t \in Session /\ t.tasks = o.tasks /\ t.room = o.room
      /\ t.coming = o.coming /\ t.stray = o.stray /\ t.state = o.state
      /\ t.target = v
  BY <1>2, <1>6 DEF Session
<1>8. /\ p \in Session /\ p.tasks = o.tasks /\ p.room = o.room
      /\ p.coming = o.coming /\ p.stray = o.stray
  BY <1>2, <1>6 DEF Session
<1>9. s = Rest(t) OBVIOUS
<1> HIDE DEF t, p, s
<1>10. CASE ~o.coming
  <2>1. ServerInvite(u, v, o.room) /\ Done(u, i, t) BY <1>3, <1>7, <1>10
  <2>2. SetSession(u, i, s) /\ UNCHANGED alive /\ UNCHANGED ring
    BY <1>9, <2>1 DEF Done
  <2>3. s.tasks = Tail(o.tasks) /\ s.room = o.room /\ s.state = o.state
    BY <1>2, <1>7, <1>9, RestFacts
  <2>4. /\ NetAddressed' /\ \A r \in Room \ {o.room} : CalmNet(r)
        /\ inbox' = inbox /\ members' = members
        /\ InvitesTo(invites, o.room) = {} => AtMostOne(InvitesTo(invites', o.room))
    BY <1>2, <1>6, <1>10, <2>1, RingParts, InviteNet
  <2>5. Fewer(CallsTo(ses, o.room), CallsTo(ses', o.room))
    BY <1>1, <1>5, <1>7, <1>9, <2>2, TaskCalls DEF Fewer
  <2>6. Announced(u, o, inbox[u], invites, ses, members[o.room]) =>
          Announced(u, s, inbox'[u], invites', ses', members'[o.room])
    <3> SUFFICES ASSUME Announced(u, o, inbox[u], invites, ses, members[o.room])
                 PROVE  Announced(u, s, inbox'[u], invites', ses', members'[o.room])
      OBVIOUS
    <3>1. Announced(u, s, inbox[u], invites', ses', members[o.room])
      BY <1>2, <2>3, <2>4, <2>5, InviteDone
    <3> QED BY <2>4, <3>1
  <2> QED BY <1>1, <1>5, <1>7, <1>9, <1>10, <2>2, <2>4, <2>6, MovingTask
<1>11. CASE o.coming
  <2>1. CASE t.local = "disposed" \/ t.ui = "none"
    BY <1>3, <1>7, <1>11, <2>1, DieRing
  <2>2. CASE ~(t.local = "disposed" \/ t.ui = "none")
    <3>1. Connect(u, i, p) BY <1>3, <1>7, <1>11, <2>2
    <3> QED BY <1>1, <1>5, <1>8, <1>11, <3>1, ConnectRing
  <2> QED BY <2>1, <2>2
<1> QED BY <1>10, <1>11

\* The phone that is called rings back: the announcement has arrived.
LEMMA TaskRingBackRing ==
  ASSUME IInv, SetupInv, RingInv, NEW u \in User, NEW i \in DOMAIN ses[u],
         TaskRingBack(u, i)
  PROVE  RingInv'
<1> DEFINE o == ses[u][i]
           w == o.target
           m == Message("ring", u, o.room)
<1>1. /\ Running(u, i, "ringBack") /\ Relay("ring", u, w, o.room)
      /\ Done(u, i, o)
  BY DEF TaskRingBack
<1>2. /\ o \in Session /\ o.tasks \in Seq(Task) /\ o.tasks # <<>>
      /\ HasTask(o.tasks, "ringBack") /\ o.room \in Room /\ w \in User
  BY <1>1, TaskFacts
<1>3. o.coming /\ w = o.room[1]
  BY <1>2, RingParts DEF RingsItsCaller
<1>4. SetSession(u, i, Rest(o)) /\ UNCHANGED alive /\ UNCHANGED ring
  BY <1>1 DEF Done
<1>5. /\ Deliver([Nothing EXCEPT ![w] = <<m>>]) /\ UNCHANGED <<invites, members>>
  BY <1>1 DEF Relay
<1>6. o = ses[u][i] OBVIOUS
<1> HIDE DEF o, w
<1>7. m \in Msg /\ m.kind = "ring" BY <1>2 DEF Message, Msg
<1>8. \A v \in User : BoxStep(v, {o.room})
  BY <1>2, <1>3, <1>5, RingParts, RelayBoxes
<1>9. NetAddressed' /\ \A r \in Room \ {o.room} : CalmNet(r)
  BY <1>5, <1>8, RingParts, NetCalm
<1> HIDE DEF m
<1>10. alive[w] => inbox'[w] = Append(inbox[w], m)
  <2> DEFINE out == [Nothing EXCEPT ![w] = <<m>>]
  <2>1. out[w] = <<m>> BY <1>2 DEF Nothing
  <2>2. Deliver(out) BY <1>5
  <2> HIDE DEF out
  <2> QED BY <1>2, <1>7, <2>1, <2>2, RingParts, Delivered DEF NetType
<1>11. Ringing(ses, o.room)
  <2>1. /\ <<u, i>> \in CallsTo(ses, o.room)
        /\ <<u, i>>[1] = u /\ <<u, i>>[2] = i
    BY <1>3, <1>6, InCalls
  <2> QED BY <1>2, <1>6, <2>1 DEF Ringing
<1>12. Fewer(CallsTo(ses, o.room), CallsTo(ses', o.room))
  BY <1>1, <1>2, <1>4, <1>6, TaskCalls DEF Fewer
<1>13. ASSUME NEW v \in User \ {u}, NEW c, c.room = o.room, c.room[1] = v, alive[v],
              Announced(v, c, inbox[v], invites, ses, members[o.room])
       PROVE  Announced(v, c, inbox'[v], invites', ses', members'[o.room])
  <2>1. v = w /\ inbox'[v] = Append(inbox[v], m) BY <1>3, <1>10, <1>13
  <2>2. inbox[v] \in Seq(Msg) BY DEF IInv, TypeOK
  <2>3. Announced(v, c, Append(inbox[v], m), invites, ses', members[o.room])
    BY <1>7, <1>11, <1>12, <1>13, <2>2, RingDone
  <2> QED BY <1>5, <2>1, <2>3
<1> QED BY <1>1, <1>2, <1>3, <1>4, <1>6, <1>9, <1>13, MovingTask

\* It joins, after it has rung back: what the caller hears of it comes last.
LEMMA TaskJoinRing ==
  ASSUME IInv, SetupInv, RingInv, NEW u \in User, NEW i \in DOMAIN ses[u],
         TaskJoin(u, i)
  PROVE  RingInv'
<1> DEFINE o == ses[u][i]
           t == [o EXCEPT !.state = "Connecting"]
           C == o.room
<1>1. /\ Running(u, i, "join") /\ ServerEnter(u, C) /\ Done(u, i, t)
  BY DEF TaskJoin
<1>2. /\ o \in Session /\ o.tasks \in Seq(Task) /\ o.tasks # <<>>
      /\ Head(o.tasks).kind = "join" /\ HasTask(o.tasks, "join") /\ C \in Room
  BY <1>1, TaskFacts
<1>3. RingsItsCaller(o) BY RingParts
<1>4. o.coming BY <1>2, <1>3 DEF RingsItsCaller
<1>5. o = ses[u][i] /\ C = o.room OBVIOUS
<1> HIDE DEF o
<1>6. /\ t \in Session /\ t.state = "Connecting" /\ t.tasks = o.tasks
      /\ t.room = o.room /\ t.coming = o.coming /\ t.stray = o.stray
  BY <1>2 DEF Session, State
<1> HIDE DEF t
<1>7. SetSession(u, i, Rest(t)) /\ UNCHANGED alive /\ UNCHANGED ring
  BY <1>1 DEF Done
<1> HIDE DEF C
<1>8. /\ NetAddressed' /\ \A r \in Room \ {C} : CalmNet(r) /\ invites' = invites
      /\ \A v \in User \ {u} :
           \/ inbox'[v] = inbox[v]
           \/ inbox'[v] = Append(inbox[v], Message("newPeer", u, C))
  BY <1>1, <1>2, RingParts, EnterBoxes
<1> DEFINE m == Message("newPeer", u, C)
<1>9. m \in Msg /\ m.kind = "newPeer" BY <1>2 DEF Message, Msg
<1>10. \A v \in User \ {u} : inbox'[v] = inbox[v] \/ inbox'[v] = Append(inbox[v], m)
  BY <1>8
<1>10a. invites' = invites BY <1>1 DEF ServerEnter
<1> HIDE DEF m
<1>11. ~HasTask(o.tasks, "ringBack")
  <2> SUFFICES ASSUME NEW j \in TasksOf(o.tasks, "ringBack") PROVE FALSE
    BY HasIsSome
  <2>1. j = 1 BY <1>3 DEF RingsItsCaller
  <2>2. o.tasks[1].kind = "ringBack" BY <2>1 DEF TasksOf
  <2>3. Head(o.tasks) = o.tasks[1] BY <1>2, SeqFacts
  <2> QED BY <1>2, <2>2, <2>3
<1>12. <<u, i>> \in CallsTo(ses, C) BY <1>4, <1>5, InCalls
<1>13. AtMostOne(CallsTo(ses, C)) => ~Ringing(ses, C)
  <2> SUFFICES ASSUME AtMostOne(CallsTo(ses, C)), NEW x \in CallsTo(ses, C),
                      HasTask(ses[x[1]][x[2]].tasks, "ringBack")
               PROVE  FALSE
    BY DEF Ringing
  <2>1. x = <<u, i>> BY <1>12 DEF AtMostOne
  <2>2. x[1] = u /\ x[2] = i BY <2>1
  <2> QED BY <1>5, <1>11, <2>2
<1>14. /\ CallsTo(ses', C) = CallsTo(ses, C)
       /\ Ringing(ses', C) => Ringing(ses, C)
  BY <1>1, <1>5, <1>6, <1>7, TaskCalls
<1>15. ASSUME NEW v \in User \ {u}, NEW c, c.room = C, c.room[1] = v, alive[v],
              Announced(v, c, inbox[v], invites, ses, members[C])
       PROVE  Announced(v, c, inbox'[v], invites', ses', members'[C])
  <2>1. AtMostOne(CallsTo(ses, C))
    BY <1>15, AnnouncedOnce DEF Announced, Single
  <2>2. ~Ringing(ses, C) /\ ~Ringing(ses', C) BY <1>13, <1>14, <2>1
  <2>3. CallsTo(ses, C) # {} /\ Fewer(CallsTo(ses, C), CallsTo(ses', C))
    BY <1>12, <1>14 DEF Fewer
  <2>4. inbox[v] \in Seq(Msg) BY DEF IInv, TypeOK
  <2>5. inbox'[v] = inbox[v] \/ inbox'[v] = Append(inbox[v], m) BY <1>10
  <2>6. Announced(v, c, inbox'[v], invites, ses', members'[C])
    BY <1>9, <1>15, <2>2, <2>3, <2>4, <2>5, JoinDone
  <2> QED BY <1>10a, <2>6
<1> QED BY <1>1, <1>4, <1>5, <1>6, <1>7, <1>8, <1>15, MovingTask
-----------------------------------------------------------------------------

LEMMA InitRing == Init => RingInv
<1> SUFFICES ASSUME Init PROVE RingInv
  OBVIOUS
<1>1. \A u \in User : ses[u] = <<>> /\ inbox[u] = <<>> /\ invites[u] = <<>>
  BY DEF Init
<1>2. DOMAIN <<>> = {} OBVIOUS
<1>3. \A u \in User : /\ DOMAIN ses[u] = {} /\ DOMAIN inbox[u] = {}
                      /\ DOMAIN invites[u] = {}
  BY <1>1, <1>2
<1>4. Addressed BY <1>3 DEF Addressed
<1>5. ASSUME NEW r \in Room PROVE Unheard(r)
  <2>1. members[r] = {} BY DEF Init
  <2>2. InvitesTo(invites, r) = {} /\ CallsTo(ses, r) = {}
    BY <1>3, InInvites, InCalls
  <2>3. r[1] \in User BY RoomShape
  <2>4. \A k : ~HasMsg(inbox[r[1]], k, r) BY <1>3, <2>3 DEF HasMsg
  <2> QED BY <2>1, <2>2, <2>4 DEF Unheard
<1>6. \A u \in User : PresentRing(u) BY <1>1 DEF PresentRing, HasSession
<1> QED BY <1>4, <1>5, <1>6 DEF RingInv

LEMMA NextRing == IInv /\ SetupInv /\ RingInv /\ [Next]_vars => RingInv'
<1> SUFFICES ASSUME IInv, SetupInv, RingInv, [Next]_vars PROVE RingInv'
  OBVIOUS
<1>1. CASE UNCHANGED vars
  <2>1. UNCHANGED <<alive, ses, ring>> /\ UNCHANGED net BY <1>1 DEF vars, net
  <2>2. NetAddressed' /\ \A r \in Room : CalmNet(r)
    BY <2>1, RingParts, SilentCalm
  <2> QED BY <2>1, <2>2, RingKept
<1>2. ASSUME NEW u \in User, Looper(u) PROVE RingInv'
  <2>1. CASE Dial(u) BY <2>1, DialRing
  <2>2. CASE ReceiveInvite(u) BY <2>2, ReceiveInviteRing
  <2>3. CASE OpenUi(u) BY <2>3, OpenUiRing
  <2>4. CASE \E i \in DOMAIN ses[u] : Accept(u, i) \/ ShowConnected(u, i)
    BY <2>4, AcceptRing, ShowConnectedRing
  <2>5. CASE Handle(u)
    <3>1. CASE OnPeers(u)
      BY <3>1, HandlePostingRing DEF OnPeers, Entering
    <3>2. CASE OnNewPeer(u)
      BY <3>2, HandlePostingRing DEF OnNewPeer, Entering
    <3>3. CASE OnRing(u) BY <3>3, OnRingRing
    <3>4. CASE OnReject(u) BY <3>4, HandleEndingRing DEF OnReject
    <3>5. CASE OnLeave(u) BY <3>5, HandleEndingRing DEF OnLeave
    <3> QED BY <2>5, <3>1, <3>2, <3>3, <3>4, <3>5 DEF Handle
  <2> QED BY <1>2, <2>1, <2>2, <2>3, <2>4, <2>5 DEF Looper
<1>3. ASSUME NEW u \in User, NEW i \in DOMAIN ses[u], HangUp(u, i)
      PROVE  RingInv'
  BY <1>3, HangUpRing
<1>4. ASSUME NEW u \in User, HangingUp(u) PROVE RingInv'
  BY <1>4, HangUpIdleRing, HangUpFinishRing DEF HangingUp
<1>5. ASSUME NEW u \in User, NEW i \in DOMAIN ses[u], Execute(u, i)
      PROVE  RingInv'
  BY <1>5, TaskCreateRing, TaskRingBackRing, TaskJoinRing, TaskRefuseRing,
     TaskCancelRing, TaskLeaveRing, TaskReleaseRing, TaskCloseRing,
     TaskPeersRing, TaskNewPeerRing DEF Execute
<1>6. ASSUME NEW u \in User, NEW i \in DOMAIN ses[u], RemoteStream(u, i)
      PROVE  RingInv'
  BY <1>6, RemoteStreamRing
<1> QED BY <1>1, <1>2, <1>3, <1>4, <1>5, <1>6 DEF Next, OnLooper

\* RingInv is an invariant: the announcement of a present call is in at most one
\* place, while it is under way its caller is alone in the room, and no ring is
\* overtaken by what is told of who entered.
THEOREM RingInvariance == Spec => []RingInv
BY Invariance, SetupInvariance, InitRing, NextRing, PTL DEF Spec

\* A phone whose present call is connected, and has seen no message of another
\* call, does not ring: neither the ring back of the main thread nor the
\* ringtone outlives the task that connects.
THEOREM RingSilencedByConnectAlways == Spec => []RingSilencedByConnect
<1>1. RingInv => RingSilencedByConnect
  BY DEF RingInv, PresentRing, RingSilencedByConnect
<1> QED BY <1>1, RingInvariance, PTL


=============================================================================
