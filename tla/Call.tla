-------------------------------- MODULE Call --------------------------------
(***************************************************************************)
(* One-to-one calls: SkyEngineKit, CallSession, Peer, SocketManager,       *)
(* VoipReceiver and the call screen of every phone, and the signalling     *)
(* server between them.                                                    *)
(*                                                                         *)
(* A phone has three kinds of threads.  The main thread runs the user's    *)
(* clicks, the runnables SocketManager posts for messages from the server  *)
(* (inbox) and the broadcast of an invitation (invites).  Every            *)
(* CallSession has an executor with one thread that runs its tasks in      *)
(* order; a session that was replaced keeps its executor and its tasks.    *)
(* WebRTC calls the Peer back on a thread of its own.  _callState is       *)
(* written by the main thread and by the executors without a lock: endCall *)
(* tests it in one step (HangUp) and writes it in another (HangUpIdle),    *)
(* and release writes it in one step (TaskRelease) and closes the screen   *)
(* in another (TaskClose).                                                 *)
(*                                                                         *)
(* The buttons of a call screen act on the current session, whatever call  *)
(* the screen was opened for.                                              *)
(*                                                                         *)
(* A message is sent to the server, relayed and put in the inbox of its    *)
(* receiver in one step; it is delayed in the inbox, in order.  The        *)
(* connection to the server stays open.  Descriptions and candidates, by   *)
(* which two Peers find each other, are left out: the remote stream may    *)
(* come at any time once there is a Peer, or never.  An uncaught           *)
(* exception kills the process (OwnUncaughtExceptionHandler).              *)
(*                                                                         *)
(* Messages name their sender but not their call.  The field room of a     *)
(* message, and the fields stray, end and clicks of a session, are history *)
(* kept for the properties; the code does not have them and no guard       *)
(* reads them, except clicks, which is bounded.                            *)
(***************************************************************************)
EXTENDS Naturals, Sequences, FiniteSets

CONSTANTS
  User,      \* the phones
  Nobody,    \* no user
  Plan,      \* bound: the users each user calls, one after the other
  MaxClicks, \* bound: how often the accept button of one call is pressed
  MaxHangUps \* bound: how many of the present calls are hung up by a user

ASSUME ConstantsAssumption ==
  /\ Nobody \notin User
  /\ Plan \in [User -> Seq(User)]
  /\ \A u \in User : \A n \in DOMAIN Plan[u] : Plan[u][n] # u
  /\ MaxClicks \in Nat \ {0}
  /\ MaxHangUps \in Nat

VARIABLES
  alive,    \* the process of the phone runs
  ses,      \* the CallSessions of a phone; the last is mCurrentCallSession
  ring,     \* what the ring player was last told to play
  inbox,    \* runnables posted to the main looper for messages
  invites,  \* broadcasts of invitations not yet received
  members,  \* the users the server has in each room
  died,     \* history: the task that killed the process, and its session
  main      \* where the main thread is in the hang-up button's onClick

phone == <<alive, ses, ring, died>>
net   == <<inbox, invites, members>>
vars  == <<alive, ses, ring, inbox, invites, members, died, main>>

\* A room is named by the user who made it and a number (a UUID in the code).
Room == UNION {{u} \X DOMAIN Plan[u] : u \in User}

State == {"Idle", "Outgoing", "Incoming", "Connecting", "Connected"}

Msg == [kind : {"peers", "newPeer", "ring", "reject", "leave"},
        from : User \cup {Nobody},
        room : Room]

Task == [kind : {"create", "ringBack", "join", "refuse", "cancel", "leave",
                 "release", "close", "peers", "newPeer"},
         who  : User \cup {Nobody}]

\* A screen that is shown has no accept button any more.
Ui  == {"none", "open", "shown", "closed"}
End == {"no", "hungUp", "cancelled", "over"}

Session == [state   : State,
            coming  : BOOLEAN,          \* mIsComing
            room    : Room,             \* mRoom
            target  : User,             \* mTargetId
            factory : BOOLEAN,          \* _factory is not null
            local   : {"none", "live", "disposed"},  \* _localStream
            remote  : {"none", "live", "disposed"},  \* _remoteStream
            peer    : {"none", "open", "closed"},    \* mPeer
            tasks   : Seq(Task),        \* the queue of executor
            ui      : Ui,               \* the call screen
            stray   : BOOLEAN,          \* took a message or a click of
                                        \* another call
            end     : End,              \* why it is ending
            clicks  : 0 .. MaxClicks]   \* accepts

\* The task whose exception killed the process, and what its session was.
Death   == [task : {"release", "peers", "newPeer"}, stray : BOOLEAN,
            end : End]
NotDead == [task |-> "none", stray |-> FALSE, end |-> "no"]

\* onClick of the hang-up button of a screen, before endCall writes Idle and
\* before finish; otherwise the main thread is in its loop.
MainAt == [at : {"loop", "idle", "finish"}, screen : Nat]
InLoop == [at |-> "loop", screen |-> 0]

TypeOK ==
  /\ alive \in [User -> BOOLEAN]
  /\ ses \in [User -> Seq(Session)]
  /\ ring \in [User -> {"off", "incoming", "ringback"}]
  /\ inbox \in [User -> Seq(Msg)]
  /\ invites \in [User -> Seq([from : User, room : Room])]
  /\ members \in [Room -> SUBSET User]
  /\ died \in [User -> {NotDead} \cup Death]
  /\ main \in [User -> MainAt]

Init ==
  /\ alive   = [u \in User |-> TRUE]
  /\ ses     = [u \in User |-> <<>>]
  /\ ring    = [u \in User |-> "off"]
  /\ inbox   = [u \in User |-> <<>>]
  /\ invites = [u \in User |-> <<>>]
  /\ members = [r \in Room |-> {}]
  /\ died    = [u \in User |-> NotDead]
  /\ main    = [u \in User |-> InLoop]

-----------------------------------------------------------------------------
(* Vocabulary.                                                             *)

\* The index of mCurrentCallSession, and the session.
Cur(u) == Len(ses[u])
HasSession(u) == alive[u] /\ ses[u] # <<>>
Current(u) == ses[u][Cur(u)]

\* Variant for mutation: only a connected phone is busy.
BusyWhenConnected(u) == ses[u] # <<>> /\ Current(u).state = "Connected"

Busy(u) == ses[u] # <<>> /\ Current(u).state # "Idle"

NewTask(k, v) == [kind |-> k, who |-> v]
Post(s, k, v) == [s EXCEPT !.tasks = Append(@, NewTask(k, v))]
PostEach(s, ks) ==
  [s EXCEPT !.tasks = @ \o [j \in DOMAIN ks |-> NewTask(ks[j], Nobody)]]
HasTask(ts, k) == \E j \in DOMAIN ts : ts[j].kind = k
SetSession(u, i, s) == ses' = [ses EXCEPT ![u][i] = s]

NewSession(r, v, coming) ==
  [state |-> IF coming THEN "Incoming" ELSE "Outgoing",
   coming |-> coming, room |-> r, target |-> v, factory |-> FALSE,
   local |-> "none", remote |-> "none", peer |-> "none",
   tasks |-> <<NewTask(IF coming THEN "ringBack" ELSE "create", Nobody)>>,
   ui |-> IF coming THEN "none" ELSE "open",
   stray |-> FALSE, end |-> "no", clicks |-> 0]

-----------------------------------------------------------------------------
(* The server.  It relays what it gets and keeps who is in which room.     *)

Message(k, u, r) == [kind |-> k, from |-> u, room |-> r]

\* Messages to a process that was killed are lost.
Deliver(out) ==
  inbox' = [v \in User |-> IF alive[v] THEN inbox[v] \o out[v] ELSE inbox[v]]

Nothing == [v \in User |-> <<>>]

Relay(k, u, v, r) ==
  /\ Deliver([Nothing EXCEPT ![v] = <<Message(k, u, r)>>])
  /\ UNCHANGED <<invites, members>>

\* __create and __join: the newcomer learns who is there, and the others
\* learn of the newcomer.
ServerEnter(u, r) ==
  LET others == members[r] \ {u} IN
  /\ members' = [members EXCEPT ![r] = @ \cup {u}]
  /\ \E w \in IF others = {} THEN {Nobody} ELSE others :
       Deliver([v \in User |->
                  IF v = u THEN <<Message("peers", w, r)>>
                  ELSE IF v \in others THEN <<Message("newPeer", u, r)>>
                  ELSE <<>>])
  /\ UNCHANGED invites

ServerInvite(u, v, r) ==
  /\ invites' = [invites EXCEPT ![v] =
                   IF alive[v] THEN Append(@, [from |-> u, room |-> r]) ELSE @]
  /\ UNCHANGED <<inbox, members>>

ServerLeave(u, r) ==
  /\ members' = [members EXCEPT ![r] = @ \ {u}]
  /\ Deliver([v \in User |-> IF v \in members[r] \ {u}
                             THEN <<Message("leave", u, r)>> ELSE <<>>])
  /\ UNCHANGED invites

-----------------------------------------------------------------------------
(* The main thread: what the user does.                                    *)

\* CallSingleActivity.init for an outgoing call, and startOutCall.
Dial(u) ==
  LET n == Cardinality({i \in DOMAIN ses[u] : ~ses[u][i].coming}) + 1 IN
  /\ alive[u]
  /\ ~Busy(u)
  /\ n \in DOMAIN Plan[u]
  /\ ses' = [ses EXCEPT ![u] =
               Append(@, NewSession(<<u, n>>, Plan[u][n], FALSE))]
  /\ UNCHANGED <<alive, ring, died>> /\ UNCHANGED net

\* Variant for mutation: a busy phone does not answer.
ReceiveInviteBusySilent(u) ==
  /\ alive[u]
  /\ invites[u] # <<>>
  /\ LET inv == Head(invites[u]) IN
     /\ invites' = [invites EXCEPT ![u] = Tail(@)]
     /\ IF Busy(u)
        THEN UNCHANGED phone
        ELSE /\ ses' = [ses EXCEPT ![u] =
                          Append(@, NewSession(inv.room, inv.from, TRUE))]
             /\ ring' = [ring EXCEPT ![u] = "incoming"]
             /\ UNCHANGED <<alive, died>>
  /\ UNCHANGED <<inbox, members>>

\* VoipReceiver.onReceive and startInCall.  A busy phone refuses at once.
ReceiveInvite(u) ==
  /\ alive[u]
  /\ invites[u] # <<>>
  /\ LET inv == Head(invites[u]) IN
     /\ invites' = [invites EXCEPT ![u] = Tail(@)]
     /\ IF Busy(u)
        THEN /\ Deliver([Nothing EXCEPT ![inv.from] =
                           <<Message("reject", u, inv.room)>>])
             /\ UNCHANGED phone
        ELSE /\ ses' = [ses EXCEPT ![u] = Append(@,
                  [NewSession(inv.room, inv.from, TRUE) EXCEPT
                     !.stray = \E i \in DOMAIN ses[u] : ses[u][i].room = inv.room])]
             /\ ring' = [ring EXCEPT ![u] = "incoming"]
             /\ UNCHANGED <<alive, died, inbox>>
  /\ UNCHANGED members

HasScreen(s) == s.ui \in {"open", "shown"}

\* The screen the user sees; a later call's screen lies above.
OnTop(u, i) ==
  /\ HasSession(u)
  /\ HasScreen(ses[u][i])
  /\ \A j \in DOMAIN ses[u] : j > i => ~HasScreen(ses[u][j])

\* The screen of an incoming call opens when the caller has been looked up
\* and the permissions are granted; until then nobody can accept or refuse
\* on it.  FragmentVideo finishes at once when the call is over.
OpenUi(u) ==
  /\ HasSession(u)
  /\ Current(u).coming
  /\ Current(u).ui = "none"
  /\ \E ui \in {"open"} \cup IF Current(u).state = "Idle" THEN {"closed"} ELSE {} :
       SetSession(u, Cur(u), [Current(u) EXCEPT !.ui = ui])
  /\ UNCHANGED <<alive, ring, died>> /\ UNCHANGED net

\* Variant for mutation: the join overtakes the tasks that wait.
AcceptFirst(u, i) ==
  /\ OnTop(u, i)
  /\ ses[u][i].coming /\ ses[u][i].ui = "open"
  /\ LET s == Current(u) IN
     /\ s.state = "Incoming"
     /\ s.clicks < MaxClicks
     /\ SetSession(u, Cur(u),
          [s EXCEPT !.tasks = <<NewTask("join", Nobody)>> \o @, !.clicks = @ + 1])
  /\ UNCHANGED <<alive, ring, died>> /\ UNCHANGED net

\* The accept button.  Pressed when the first press has taken effect, it
\* closes the screen.
Accept(u, i) ==
  /\ OnTop(u, i)
  /\ ses[u][i].coming /\ ses[u][i].ui = "open"
  /\ IF Current(u).state = "Incoming"
     THEN /\ Current(u).clicks < MaxClicks
          /\ SetSession(u, Cur(u), [Post(Current(u), "join", Nobody) EXCEPT
                                      !.clicks = @ + 1,
                                      !.stray  = @ \/ i # Cur(u)])
     ELSE /\ ses[u][i].clicks < MaxClicks
          /\ SetSession(u, i, [ses[u][i] EXCEPT !.ui = "closed",
                                                !.clicks = @ + 1])
  /\ UNCHANGED <<alive, ring, died>> /\ UNCHANGED net

\* The runnable the screen posts to itself for a connected call: the accept
\* button goes, the hang-up button stays.
ShowConnected(u, i) ==
  /\ alive[u]
  /\ ses[u][i].coming /\ ses[u][i].ui = "open"
  /\ ses[u][i].state = "Connected"
  /\ SetSession(u, i, [ses[u][i] EXCEPT !.ui = "shown"])
  /\ UNCHANGED <<alive, ring, died>> /\ UNCHANGED net

\* Variant for mutation: the other side is not told.
EndTasksSilent(s) ==
  IF s.coming /\ s.state = "Incoming" THEN <<"refuse">>
  ELSE IF ~s.coming /\ s.state = "Outgoing" THEN <<"cancel">>
  ELSE <<"release">>

\* The tasks endCall posts, by what it believes the call to be.
EndTasks(s) ==
  IF s.coming /\ s.state = "Incoming" THEN <<"refuse">>
  ELSE IF ~s.coming /\ s.state = "Outgoing" THEN <<"cancel">>
  ELSE <<"leave", "release">>

HungUp(s) == s.end \in {"hungUp", "cancelled"}
HungUpCalls == UNION {{u} \X {i \in DOMAIN ses[u] : HungUp(ses[u][i])} : u \in User}

\* The hang-up button.  endCall stops the ring, looks at the state and posts
\* tasks; an executor may change the state before the next step.
HangUp(u, i) ==
  /\ OnTop(u, i)
  /\ main[u].at = "loop"
  /\ Cardinality(HungUpCalls) < MaxHangUps
  /\ LET s     == Current(u)
         tasks == EndTasks(s)
     IN SetSession(u, Cur(u), [PostEach(s, tasks) EXCEPT
          !.end   = IF tasks = <<"cancel">> THEN "cancelled" ELSE "hungUp",
          !.stray = @ \/ i # Cur(u)])
  /\ ring' = [ring EXCEPT ![u] = "off"]
  /\ main' = [main EXCEPT ![u] = [at |-> "idle", screen |-> i]]
  /\ UNCHANGED <<alive, died>> /\ UNCHANGED net

\* endCall, to its end: the state is Idle.
HangUpIdle(u) ==
  /\ HasSession(u)
  /\ main[u].at = "idle"
  /\ SetSession(u, Cur(u), [Current(u) EXCEPT !.state = "Idle"])
  /\ main' = [main EXCEPT ![u].at = "finish"]
  /\ UNCHANGED <<alive, ring, died>> /\ UNCHANGED net

\* onClick, to its end: the screen finishes, and takes no more clicks.
HangUpFinish(u, i) ==
  /\ alive[u]
  /\ main[u] = [at |-> "finish", screen |-> i]
  /\ SetSession(u, i, [ses[u][i] EXCEPT !.ui = "closed"])
  /\ main' = [main EXCEPT ![u] = InLoop]
  /\ UNCHANGED <<alive, ring, died>> /\ UNCHANGED net

-----------------------------------------------------------------------------
(* The main thread: the runnables of SocketManager.  Each acts on the      *)
(* current session, whatever call its message belongs to.                  *)

Receives(u, kind) == /\ HasSession(u)
                     /\ inbox[u] # <<>>
                     /\ Head(inbox[u]).kind = kind

Handled(u) == /\ inbox' = [inbox EXCEPT ![u] = Tail(@)]
              /\ UNCHANGED <<alive, died, invites, members>>

Touched(u) ==
  [Current(u) EXCEPT !.stray = @ \/ Head(inbox[u]).room # Current(u).room]

\* onJoinHome, newPeer: the rest is a task of the session.
HandlePosting(u, kind) ==
  /\ Receives(u, kind)
  /\ SetSession(u, Cur(u), Post(Touched(u), kind, Head(inbox[u]).from))
  /\ UNCHANGED ring
  /\ Handled(u)

OnPeers(u)   == HandlePosting(u, "peers")
OnNewPeer(u) == HandlePosting(u, "newPeer")

OnRing(u) ==
  /\ Receives(u, "ring")
  /\ ring' = [ring EXCEPT ![u] = "ringback"]
  /\ SetSession(u, Cur(u), Touched(u))
  /\ Handled(u)

\* onRefuse and onLeave: release.
HandleEnding(u, kind) ==
  /\ Receives(u, kind)
  /\ SetSession(u, Cur(u),
       [Post(Touched(u), "release", Nobody) EXCEPT
          !.end = IF @ = "no" THEN "over" ELSE @])
  /\ UNCHANGED ring
  /\ Handled(u)

OnReject(u) == HandleEnding(u, "reject")
OnLeave(u)  == HandleEnding(u, "leave")

-----------------------------------------------------------------------------
(* The executors.                                                          *)

Running(u, i, kind) ==
  /\ alive[u]
  /\ ses[u][i].tasks # <<>>
  /\ Head(ses[u][i].tasks).kind = kind

Rest(s) == [s EXCEPT !.tasks = Tail(@)]

\* A task that leaves the session as s and only talks to the server.
Done(u, i, s) == /\ SetSession(u, i, Rest(s))
                 /\ UNCHANGED <<alive, ring, died>>

\* An exception in a task ends the process and everything in it.
Die(u, i, kind) ==
  /\ alive' = [alive EXCEPT ![u] = FALSE]
  /\ died'  = [died EXCEPT ![u] =
                 [task |-> kind, stray |-> ses[u][i].stray, end |-> ses[u][i].end]]
  /\ ses'   = [ses EXCEPT ![u] = <<>>]
  /\ ring'  = [ring EXCEPT ![u] = "off"]
  /\ inbox' = [inbox EXCEPT ![u] = <<>>]
  /\ invites' = [invites EXCEPT ![u] = <<>>]
  /\ UNCHANGED members

\* Variants for mutation: the ring goes on; the state is not set.
ConnectKeepsRinging(u, i, s) ==
  /\ SetSession(u, i, Rest([s EXCEPT !.state = "Connected"]))
  /\ UNCHANGED <<alive, ring, died>> /\ UNCHANGED net

ConnectKeepsState(u, i, s) ==
  /\ SetSession(u, i, Rest(s))
  /\ ring' = [ring EXCEPT ![u] = "off"]
  /\ UNCHANGED <<alive, died>> /\ UNCHANGED net

\* The end of onJoinHome's and newPeer's tasks: the ring stops, the call is
\* connected, and the screen, which must have been there, is told.
Connect(u, i, s) ==
  /\ SetSession(u, i, Rest([s EXCEPT !.state = "Connected"]))
  /\ ring' = [ring EXCEPT ![u] = "off"]
  /\ UNCHANGED <<alive, died>> /\ UNCHANGED net

TaskCreate(u, i) ==
  /\ Running(u, i, "create")
  /\ ServerEnter(u, ses[u][i].room)
  /\ Done(u, i, ses[u][i])

TaskRingBack(u, i) ==
  /\ Running(u, i, "ringBack")
  /\ Relay("ring", u, ses[u][i].target, ses[u][i].room)
  /\ Done(u, i, ses[u][i])

\* The state is set when the task runs, not when the button is pressed.
TaskJoin(u, i) ==
  /\ Running(u, i, "join")
  /\ ServerEnter(u, ses[u][i].room)
  /\ Done(u, i, [ses[u][i] EXCEPT !.state = "Connecting"])

TaskRefuse(u, i) ==
  /\ Running(u, i, "refuse")
  /\ Relay("reject", u, ses[u][i].target, ses[u][i].room)
  /\ Done(u, i, ses[u][i])

\* __cancel reaches SocketManager.onCancel, whose body is empty: nothing is
\* posted, and the phone that was called goes on ringing.
TaskCancel(u, i) ==
  /\ Running(u, i, "cancel")
  /\ Done(u, i, ses[u][i])
  /\ UNCHANGED net

TaskLeave(u, i) ==
  /\ Running(u, i, "leave")
  /\ ServerLeave(u, ses[u][i].room)
  /\ Done(u, i, ses[u][i])

\* Variant for mutation: the screen is not called back.
TaskReleaseQuiet(u, i) ==
  /\ Running(u, i, "release")
  /\ LET s == ses[u][i] IN
     IF s.local = "live" /\ s.remote = "live" /\ s.peer # "none"
     THEN /\ Done(u, i, [s EXCEPT
               !.local = "disposed", !.remote = "disposed",
               !.peer = "closed", !.factory = FALSE, !.state = "Idle"])
          /\ UNCHANGED net
     ELSE Die(u, i, "release")

\* release's task, until the state is Idle: a stream that is null or already
\* disposed, or a missing Peer, is an uncaught exception.
TaskRelease(u, i) ==
  /\ Running(u, i, "release")
  /\ LET s == ses[u][i] IN
     IF s.local = "live" /\ s.remote = "live" /\ s.peer # "none"
     THEN /\ SetSession(u, i, [s EXCEPT
               !.local = "disposed", !.remote = "disposed",
               !.peer = "closed", !.factory = FALSE, !.state = "Idle",
               !.tasks = <<NewTask("close", Nobody)>> \o Tail(@)])
          /\ UNCHANGED <<alive, ring, died>> /\ UNCHANGED net
     ELSE Die(u, i, "release")

\* The rest of it: the screen is called back, and finishes.
TaskClose(u, i) ==
  /\ Running(u, i, "close")
  /\ LET s == ses[u][i] IN
     Done(u, i, [s EXCEPT !.ui = IF HasScreen(s) THEN "closed" ELSE @])
  /\ UNCHANGED net

\* Variant for mutation: the calling side makes its factory and stream only
\* when the other one comes.
TaskPeersLazy(u, i) ==
  /\ Running(u, i, "peers")
  /\ LET who == Head(ses[u][i].tasks).who
         s   == [ses[u][i] EXCEPT !.target = IF who = Nobody THEN @ ELSE who]
         t   == [s EXCEPT !.factory = TRUE,
                          !.local = IF @ = "none" THEN "live" ELSE @]
     IN IF ~s.coming
        THEN ServerInvite(u, s.target, s.room) /\ Done(u, i, s)
        ELSE IF s.local = "disposed" \/ s.ui = "none"
        THEN Die(u, i, "peers")
        ELSE Connect(u, i, [t EXCEPT !.peer = "open"])

\* onJoinHome's task.  The answering side makes its Peer and an offer; the
\* calling side, alone in its room, now invites.
TaskPeers(u, i) ==
  /\ Running(u, i, "peers")
  /\ LET who == Head(ses[u][i].tasks).who
         s   == [ses[u][i] EXCEPT
                   !.target  = IF who = Nobody THEN @ ELSE who,
                   !.factory = TRUE,
                   !.local   = IF @ = "none" THEN "live" ELSE @]
     IN IF ~s.coming
        THEN ServerInvite(u, s.target, s.room) /\ Done(u, i, s)
        ELSE IF s.local = "disposed" \/ s.ui = "none"
        THEN Die(u, i, "peers")
        ELSE Connect(u, i, [s EXCEPT !.peer = "open"])

\* Variant for mutation: the call is connected without a Peer.
TaskNewPeerWithout(u, i) ==
  /\ Running(u, i, "newPeer")
  /\ LET s == ses[u][i] IN
     IF (s.local = "none" /\ ~s.factory) \/ s.ui = "none"
     THEN Die(u, i, "newPeer")
     ELSE Connect(u, i, [s EXCEPT
            !.local = IF @ = "none" THEN "live" ELSE @])

\* newPeer's task.  Failing to make the Peer is caught; a stream cannot be
\* made without a factory.
TaskNewPeer(u, i) ==
  /\ Running(u, i, "newPeer")
  /\ LET s == ses[u][i] IN
     IF (s.local = "none" /\ ~s.factory) \/ s.ui = "none"
     THEN Die(u, i, "newPeer")
     ELSE Connect(u, i, [s EXCEPT
            !.local = IF @ = "none" THEN "live" ELSE @,
            !.peer  = IF s.factory THEN "open" ELSE @])

Execute(u, i) ==
  \/ TaskCreate(u, i)
  \/ TaskRingBack(u, i)
  \/ TaskJoin(u, i)
  \/ TaskRefuse(u, i)
  \/ TaskCancel(u, i)
  \/ TaskLeave(u, i)
  \/ TaskRelease(u, i)
  \/ TaskClose(u, i)
  \/ TaskPeers(u, i)
  \/ TaskNewPeer(u, i)

-----------------------------------------------------------------------------
\* WebRTC calls Peer.onAddStream, when there is or was a Peer to talk to.
HadPeer(v, r) ==
  ~alive[v] \/ \E j \in DOMAIN ses[v] :
                 ses[v][j].room = r /\ ses[v][j].peer # "none"

RemoteStream(u, i) ==
  /\ alive[u]
  /\ ses[u][i].peer = "open"
  /\ ses[u][i].remote # "live"
  /\ \E v \in User \ {u} : HadPeer(v, ses[u][i].room)
  /\ SetSession(u, i, [ses[u][i] EXCEPT !.remote = "live"])
  /\ UNCHANGED <<alive, ring, died>> /\ UNCHANGED net

-----------------------------------------------------------------------------
Handle(u) == \/ OnPeers(u)  \/ OnNewPeer(u) \/ OnRing(u)
             \/ OnReject(u) \/ OnLeave(u)

\* What the looper may run next, when the main thread is in its loop.
Looper(u) == \/ Dial(u)
             \/ ReceiveInvite(u)
             \/ OpenUi(u)
             \/ \E i \in DOMAIN ses[u] : Accept(u, i) \/ ShowConnected(u, i)
             \/ Handle(u)

OnLooper(u, A) == main[u].at = "loop" /\ A /\ UNCHANGED main

HangingUp(u) == HangUpIdle(u) \/ \E i \in DOMAIN ses[u] : HangUpFinish(u, i)

Next ==
  \E u \in User :
    \/ OnLooper(u, Looper(u))
    \/ \E i \in DOMAIN ses[u] : HangUp(u, i)
    \/ HangingUp(u)
    \/ \E i \in DOMAIN ses[u] : (Execute(u, i) \/ RemoteStream(u, i)) /\ UNCHANGED main

Spec == Init /\ [][Next]_vars

\* The main threads and executors keep working; users need do nothing.
Fairness ==
  \A u \in User :
    /\ WF_vars(OnLooper(u, ReceiveInvite(u) \/ Handle(u)) \/ HangingUp(u))
    /\ \A i \in 1 .. Cardinality(Room) :
         WF_vars(i \in DOMAIN ses[u] /\ Execute(u, i) /\ UNCHANGED main)

FairSpec == Spec /\ Fairness

-----------------------------------------------------------------------------
(* Properties.                                                             *)

\* The session has seen only its own call's messages and clicks, and nobody
\* has ended it.
Undisturbed(s) == ~s.stray /\ s.end = "no"

\* A call that is connected is not accompanied by a ring: the ring the main
\* thread starts for __ring comes before the task that connects, although
\* they run on different threads.
RingSilencedByConnect ==
  \A u \in User :
    HasSession(u) /\ Current(u).state = "Connected" /\ ~Current(u).stray =>
      ring[u] = "off"

\* Setting a call up never kills the process: every null pointer and disposed
\* stream met by a task is met in a session that was ended or that took a
\* message of another call.
SetupNeverFatal ==
  \A u \in User : ~alive[u] => died[u].stray \/ died[u].end # "no"

\* What the phone calls connected has a Peer to talk through, a local stream
\* to send, and a place in the server's room.
ConnectedIsEquipped ==
  \A u \in User : \A i \in DOMAIN ses[u] :
    LET s == ses[u][i] IN
    s.state = "Connected" /\ Undisturbed(s) =>
      s.peer = "open" /\ s.local = "live" /\ u \in members[s.room]

\* startOutCall and startInCall only replace a session that is over: no call
\* is dropped without its user or the other side having ended it.  And the
\* screen of a session they replace, whose buttons now act on another call,
\* is one that release is about to close.
ReplacedIsOver ==
  \A u \in User : \A i \in DOMAIN ses[u] :
    LET s == ses[u][i] IN
    i # Cur(u) =>
      /\ s.end # "no"
      /\ HasScreen(s) => s.stray \/ HasTask(s.tasks, "close")

(***************************************************************************)
(* Why ReplacedIsOver holds: a session becomes Idle only when it was hung  *)
(* up or in a release, a release is only posted for a call that is over,   *)
(* and it only gets as far as Idle with a Peer, which is only made while   *)
(* there is a screen.  From there the screen is closed by the task itself  *)
(* or by the main thread before its next runnable.                         *)
(***************************************************************************)
EndsInOrder(s) ==
  /\ HasTask(s.tasks, "release") \/ HasTask(s.tasks, "close") => s.end # "no"
  /\ s.state = "Idle" => s.end # "no"
  /\ s.peer # "none" \/ HasTask(s.tasks, "close") => s.ui # "none"

\* The session s, the n-th and present one of a phone whose main thread is
\* at m.
ClosesOnTime(s, n, m) ==
  /\ m.at = "idle" => s.end # "no" /\ (s.stray \/ (s.ui # "none" /\ m.screen = n))
  /\ s.state = "Idle" /\ ~s.stray =>
       \/ s.ui = "closed" \/ HasTask(s.tasks, "close")
       \/ m = [at |-> "finish", screen |-> n]

\* The inductive invariant of the proofs in CallProofs.
IInv ==
  /\ TypeOK
  /\ \A u \in User : \A i \in DOMAIN ses[u] : EndsInOrder(ses[u][i])
  /\ \A u \in User : HasSession(u) => ClosesOnTime(Current(u), Cur(u), main[u])
  /\ ReplacedIsOver

(***************************************************************************)
(* Why SetupNeverFatal and ConnectedIsEquipped hold.  A room is entered    *)
(* only from a session with a screen, unless the accept button of another  *)
(* call's screen was pressed, so a session hears of its room only then; a  *)
(* phone makes no second session for the same room without noting it; and  *)
(* who has entered a room is told who was there before it is told who      *)
(* comes, so that factory and stream are there when they are needed.  The  *)
(* messages and tasks between the two handlers are followed in order.      *)
(***************************************************************************)
HasMsg(q, k, r) == \E j \in DOMAIN q : q[j].kind = k /\ q[j].room = r

\* Every newPeer of room r in the inbox q, and every one among the tasks ts,
\* comes after a peers, unless that has been dealt with.
MsgsInOrder(q, r, dealt) ==
  \A k \in DOMAIN q : q[k].kind = "newPeer" /\ q[k].room = r =>
    dealt \/ \E j \in 1 .. (k - 1) : q[j].kind = "peers" /\ q[j].room = r
TasksInOrder(ts, dealt) ==
  \A k \in DOMAIN ts : ts[k].kind = "newPeer" =>
    dealt \/ \E j \in 1 .. (k - 1) : ts[j].kind = "peers"

\* An undisturbed session s of a phone with the inbox q and in the rooms M.
Prepared(s, q, M) ==
  /\ s.room \in M =>
       s.factory \/ HasTask(s.tasks, "peers") \/ HasMsg(q, "peers", s.room)
  /\ MsgsInOrder(q, s.room, s.factory \/ HasTask(s.tasks, "peers"))
  /\ TasksInOrder(s.tasks, s.factory)
  /\ HasMsg(q, "peers", s.room) \/ HasMsg(q, "newPeer", s.room) => s.room \in M
  /\ HasTask(s.tasks, "peers") \/ HasTask(s.tasks, "newPeer") =>
       s.room \in M /\ s.ui # "none"
  /\ s.state = "Connected" =>
       s.peer = "open" /\ s.local = "live" /\ s.room \in M

\* What a session of phone u may hold, n being the calls u has dialled.
OwnRoom(u, s, n) ==
  /\ s.coming  => s.room[1] # u
  /\ ~s.coming => s.room[1] = u /\ s.room[2] <= n /\ s.target # u
  /\ \A j \in DOMAIN s.tasks : s.tasks[j].kind = "peers" => s.tasks[j].who # u
EntersWithScreen(s) ==
  /\ ~s.coming \/ HasTask(s.tasks, "join") => s.ui # "none" \/ s.stray
  /\ HasTask(s.tasks, "create") => ~s.coming
  /\ HasTask(s.tasks, "leave") \/ s.local = "disposed" => s.end # "no"

Dialled(S) == {i \in DOMAIN S : ~S[i].coming}

\* Phone u with sessions S, inbox q, invitations vs, and in the rooms M.
PhoneOK(u, S, q, vs, M) ==
  /\ \A i \in DOMAIN S : OwnRoom(u, S[i], Cardinality(Dialled(S)))
                         /\ EntersWithScreen(S[i])
  /\ \A j \in DOMAIN vs : vs[j].room[1] # u
  /\ \A j \in DOMAIN q : q[j].kind = "peers" => q[j].from # u
  /\ \A r \in Room : r \in M \/ HasMsg(q, "peers", r) \/ HasMsg(q, "newPeer", r) =>
       \E i \in DOMAIN S : S[i].room = r /\ (S[i].ui # "none" \/ S[i].stray)
  /\ S # <<>> /\ Undisturbed(S[Len(S)]) =>
       /\ \A i \in DOMAIN S : S[i].room = S[Len(S)].room => i = Len(S)
       /\ Prepared(S[Len(S)], q, M)

RoomsOf(u) == {r \in Room : u \in members[r]}

\* The inductive invariant behind SetupNeverFatal and ConnectedIsEquipped.
SetupInv ==
  /\ SetupNeverFatal
  /\ \A u \in User : alive[u] =>
       PhoneOK(u, ses[u], inbox[u], invites[u], RoomsOf(u))

(***************************************************************************)
(* Why RingSilencedByConnect holds.  A call is announced once: the caller  *)
(* creates the room, hears that nobody is in it, invites, and the phone    *)
(* that gets the invitation sends back the ring before it can join.  So    *)
(* as long as the announcement is under way nobody else has entered, and   *)
(* what is told of a ring comes before what is told of who entered.  A     *)
(* phone that is called gets no ring for its call at all.                  *)
(***************************************************************************)
MsgsOf(q, k, r) == {j \in DOMAIN q : q[j].kind = k /\ q[j].room = r}
TasksOf(ts, k)  == {j \in DOMAIN ts : ts[j].kind = k}
AtMostOne(A)    == \A x, y \in A : x = y

\* Where, in the invitations I and in the sessions Z of all phones, room r is.
InvitesTo(I, r) ==
  UNION {{v} \X {k \in DOMAIN I[v] : I[v][k].room = r} : v \in User}
CallsTo(Z, r) ==
  UNION {{v} \X {i \in DOMAIN Z[v] : Z[v][i].coming /\ Z[v][i].room = r} :
         v \in User}
Ringing(Z, r) == \E x \in CallsTo(Z, r) : HasTask(Z[x[1]][x[2]].tasks, "ringBack")

\* Where the announcement of the call of session s is, q being its inbox.
Announcement(s, q, I, Z) ==
  ({"create"}  \X TasksOf(s.tasks, "create")) \cup
  ({"created"} \X MsgsOf(q, "peers", s.room)) \cup
  ({"invite"}  \X TasksOf(s.tasks, "peers")) \cup
  ({"invited"} \X InvitesTo(I, s.room)) \cup
  ({"called"}  \X CallsTo(Z, s.room))

UnderWay(s, q, I, Z) ==
  \/ HasTask(s.tasks, "create") \/ HasTask(s.tasks, "peers")
  \/ HasMsg(q, "peers", s.room)
  \/ InvitesTo(I, s.room) # {} \/ Ringing(Z, s.room)

Alone(u, s, q, M) ==
  /\ M \subseteq {u}
  /\ ~HasMsg(q, "newPeer", s.room) /\ ~HasTask(s.tasks, "newPeer")
  /\ s.state # "Connected"

\* Nothing that tells of another one in the room has overtaken a ring.
RingsFirst(s, q) ==
  /\ \A j \in MsgsOf(q, "ring", s.room) : \A k \in MsgsOf(q, "newPeer", s.room) : j < k
  /\ HasMsg(q, "ring", s.room) =>
       ~HasTask(s.tasks, "newPeer") /\ s.state # "Connected"

\* The present call s of phone u, which made it, M being who is in its room.
Announced(u, s, q, I, Z, M) ==
  /\ AtMostOne(Announcement(s, q, I, Z))
  /\ UnderWay(s, q, I, Z) => Alone(u, s, q, M)
  /\ RingsFirst(s, q)

\* Ringing back and creating are the first tasks of a session, and only a
\* phone that is called rings back, to the maker of the room, and joins.
RingsItsCaller(s) ==
  /\ \A k \in {"create", "ringBack"} : \A j \in TasksOf(s.tasks, k) : j = 1
  /\ HasTask(s.tasks, "ringBack") => s.coming /\ s.target = s.room[1]
  /\ HasTask(s.tasks, "join") \/ s.state = "Incoming" => s.coming

Addressed ==
  /\ \A u \in User : \A i \in DOMAIN ses[u] : RingsItsCaller(ses[u][i])
  /\ \A u \in User : \A k \in DOMAIN invites[u] :
       invites[u][k].from = invites[u][k].room[1]
  /\ \A u \in User : \A j \in DOMAIN inbox[u] :
       inbox[u][j].kind = "ring" => inbox[u][j].room[1] = u

\* Nobody has heard of a room that has not been dialled yet.
Undialled(r) == alive[r[1]] /\ r[2] > Cardinality(Dialled(ses[r[1]]))
Unheard(r) ==
  /\ members[r] = {} /\ InvitesTo(invites, r) = {} /\ CallsTo(ses, r) = {}
  /\ \A k \in {"peers", "newPeer", "ring"} : ~HasMsg(inbox[r[1]], k, r)

\* The present session of phone u, if it has seen only its own call.
PresentRing(u) ==
  LET s == Current(u) IN
  HasSession(u) /\ ~s.stray =>
    /\ s.state = "Connected" => ring[u] = "off"
    /\ ~s.coming =>
         /\ \A i \in DOMAIN ses[u] :
              ~ses[u][i].coming /\ ses[u][i].room = s.room => i = Cur(u)
         /\ Announced(u, s, inbox[u], invites, ses, members[s.room])

\* The inductive invariant behind RingSilencedByConnect.
RingInv ==
  /\ Addressed
  /\ \A r \in Room : Undialled(r) => Unheard(r)
  /\ \A u \in User : PresentRing(u)

Quiet == \A u \in User :
           /\ inbox[u] = <<>> /\ invites[u] = <<>>
           /\ \A i \in DOMAIN ses[u] : ses[u][i].tasks = <<>>

\* When every message and task has been dealt with, the other side of an
\* undisturbed connected call is connected too, unless its process died or
\* the message of another call got between: A says whom else to excuse.
OtherSide(s, A(_)) ==
  \/ ~alive[s.target]
  \/ \E j \in DOMAIN ses[s.target] :
       LET t == ses[s.target][j] IN t.state = "Connected" \/ t.stray \/ A(t)

\* Whoever leaves a call says so.  A phone that hung up while it was, as it
\* believed, still calling is excused: it only sends a cancel.
LeftIsTold ==
  LET Cancelled(t) == t.end = "cancelled" IN
  Quiet =>
    \A u \in User : \A i \in DOMAIN ses[u] :
      LET s == ses[u][i] IN
      s.state = "Connected" /\ Undisturbed(s) => OtherSide(s, Cancelled)

\* An invitation is answered: with a ring, or a refusal when busy.
InviteAnswered ==
  \A r \in Room : \A u \in User \ {r[1]} :
    (\E k \in DOMAIN invites[u] : invites[u][k].room = r) ~>
      \/ ~alive[u] \/ ~alive[r[1]]
      \/ \E k \in DOMAIN inbox[r[1]] :
           inbox[r[1]][k].room = r /\ inbox[r[1]][k].kind \in {"ring", "reject"}

\* Accepting connects both sides, unless one of them ends the call or is
\* disturbed by another one.
In(u, r, P(_)) == \E i \in DOMAIN ses[u] : ses[u][i].room = r /\ P(ses[u][i])
AcceptConnects ==
  \A r \in Room : \A u \in User \ {r[1]} :
    LET Clicked(s) == /\ Undisturbed(s)
                      /\ \E k \in DOMAIN s.tasks : s.tasks[k].kind = "join"
        Up(s)      == s.state = "Connected"
        Off(s)     == ~Undisturbed(s)
    IN In(u, r, Clicked) ~>
         \/ ~alive[u] \/ ~alive[r[1]]
         \/ In(u, r, Off) \/ In(r[1], r, Off)
         \/ In(u, r, Up) /\ In(r[1], r, Up)

-----------------------------------------------------------------------------
(* What comments in the code say, and the code does not do.  Runs of their *)
(* own refute the first two; the last two fail as well, on OneCall and     *)
(* Both of MCCall.                                                         *)

\* "Set the state to Idle", "call the screen back" (CallSession.release):
\* a phone that releases its call because the other side refused it or left
\* gets that far.
ReleaseReachesIdle ==
  \A u \in User : died[u].task = "release" => died[u].end # "over"

\* "Already connected, hang up the call" (SkyEngineKit.endCall): when a call
\* that has been connected is hung up, the other side is not left in it.
NobodyTalksAlone ==
  LET NoOther(t) == FALSE IN
  Quiet =>
    \A u \in User : \A i \in DOMAIN ses[u] :
      LET s == ses[u][i] IN
      s.state = "Connected" /\ Undisturbed(s) => OtherSide(s, NoOther)

\* "Hang up the session" (SkyEngineKit.endCall): a call that its caller has
\* hung up is not connected any more once the button's onClick is done.
HungUpStaysDown ==
  \A u \in User : \A i \in DOMAIN ses[u] :
    LET s == ses[u][i] IN
    ~s.coming /\ HungUp(s) /\ main[u].at = "loop" => s.state # "Connected"

\* "Hang up the call" (FragmentAudio.onClick): the call whose screen it is.
\* A screen with a hang-up button is the current session's.
ScreenOfPresentCall ==
  \A u \in User : \A i \in DOMAIN ses[u] : HasScreen(ses[u][i]) => i = Cur(u)

=============================================================================
