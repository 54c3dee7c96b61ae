------------------------------ MODULE ClientProof ------------------------------
(***************************************************************************)
(* Whatever the page of module Client does, and whatever becomes of its    *)
(* calls, the API behind it is that of module Games: each step of the two  *)
(* together is a step of Games or leaves its variables alone.  And         *)
(* whatever is lost, refused or doubled, the page and its calls keep their *)
(* types.                                                                  *)
(***************************************************************************)
EXTENDS Client, GamesProof

(* What the page does leaves the API alone.                                *)
LEMMA PlayerSteps ==
  ASSUME \/ \E d \in Dir : Play(d)
         \/ StartFresh \/ TriggerUndo \/ Reload
         \/ \E r \in Req : On(r)
  PROVE  UNCHANGED vars
<1>1. ASSUME NEW d \in Dir, Play(d) PROVE UNCHANGED vars
  BY <1>1 DEF Play
<1>2. CASE StartFresh
  BY <1>2 DEF StartFresh
<1>3. CASE TriggerUndo
  BY <1>3 DEF TriggerUndo
<1>4. CASE Reload
  BY <1>4 DEF Reload
<1>5. ASSUME NEW r \in Req, On(r) PROVE UNCHANGED vars
  BY <1>5 DEF On, OnLoad, OnFreshOrResync, OnMove, OnUndo, OnSubmit
<1> QED BY <1>1, <1>2, <1>3, <1>4, <1>5

(* What a handler does is a step of the API.                               *)
LEMMA ServeSteps ==
  ASSUME NEW r \in Req, Serve(r)
  PROVE  [Next]_vars
<1>1. CASE ServeState(r)
  BY <1>1 DEF ServeState
<1>2. CASE ServeStart(r)
  BY <1>2 DEF ServeStart, Next
<1>3. CASE ServeMove(r)
  BY <1>3 DEF ServeMove, Acceptable, Next
<1>4. CASE ServeAppend(r)
  BY <1>4 DEF ServeAppend, Next
<1>5. CASE ServeUndo(r)
  BY <1>5 DEF ServeUndo, Next
<1>6. CASE ServeSubmit(r)
  BY <1>6 DEF ServeSubmit, Next
<1> QED BY <1>1, <1>2, <1>3, <1>4, <1>5, <1>6 DEF Serve

(* So is what goes wrong.                                                  *)
LEMMA DisturbSteps ==
  ASSUME Disturb
  PROVE  [Next]_vars
<1>1. ASSUME NEW r \in Req, ServerFails(r) PROVE [Next]_vars
  BY <1>1 DEF ServerFails, Next
<1>2. ASSUME NEW r \in Req, Disconnect(r) \/ Vanish(r) PROVE UNCHANGED vars
  BY <1>2 DEF Disconnect, Vanish
<1>3. CASE OtherDevice
  BY <1>3 DEF OtherDevice
<1>4. CASE Expire
  BY <1>4 DEF Expire, Next
<1> QED BY <1>1, <1>2, <1>3, <1>4 DEF Disturb

(* A step of the page and of the API is one of the API, or none.           *)
LEMMA ClientRefines ==
  ASSUME [ClientNext]_allVars
  PROVE  [Next]_vars
<1>1. CASE UNCHANGED allVars
  BY <1>1 DEF allVars
<1>2. CASE ClientNext
  BY <1>2, PlayerSteps, ServeSteps, DisturbSteps DEF ClientNext
<1> QED BY <1>1, <1>2

(* The page and the API together implement the API alone (App.tsx against  *)
(* the handlers of index.ts).                                              *)
THEOREM ClientRefinesGames == ClientSpec => Spec
<1>1. ClientInit => Init
  BY DEF ClientInit
<1> QED BY <1>1, ClientRefines, PTL DEF ClientSpec, Spec

(* So a page that loses replies, is reloaded, asks twice or races another  *)
(* device gets no undo for free, cannot spoil the score row, and never     *)
(* plays on a finished game.                                               *)
THEOREM ClientKeepsPromises ==
  ASSUME ScoresAreNumbers, NoGameIsNoRow
  PROVE  ClientSpec => [](NoFreeUndo /\ RowKeepsBest /\ SnapshotReplays) /\ FinishedIsFrozen
BY ClientRefinesGames, UndosArePaid, RowCorrect, SnapshotCorrect, FinishedCorrect, PTL
-----------------------------------------------------------------------------
(***************************************************************************)
(* Sending is a fold over the calls that go out.                           *)
(***************************************************************************)
Calls == [Req -> ApiCall]

(* The calls cs after those in out have been sent, one by one.             *)
SendAll(cs, out) == FoldLeft(SendOne, cs, out)

SendStep(out) == [x \in Calls \X (1 .. Len(out)) |-> SendOne(x[1], out[x[2]])]

SentBy(cs, out, it) ==
  it = [s \in SUBSET DOMAIN out |->
          IF s = {} THEN cs ELSE SendOne(it[s \ {Max(s)}], out[Max(s)])]

(* A call that goes out leaves the slots well typed.                       *)
LEMMA SendOneType ==
  ASSUME NEW cs \in Calls, NEW call \in ApiCall
  PROVE  SendOne(cs, call) \in Calls
BY DEF SendOne, Calls

(* Become sends by a fold whose steps are SendOne.                         *)
LEMMA SendFolds ==
  ASSUME NEW cs \in Calls, NEW out \in Seq(ApiCall)
  PROVE  \E it : /\ SendAll(cs, out) = it[1 .. Len(out)]
                 /\ Folding(Calls, SendStep(out), cs, it, Len(out))
<1>1. DOMAIN out = 1 .. Len(out) /\ Len(out) \in Nat /\ \A i \in 1 .. Len(out) : out[i] \in ApiCall
  OBVIOUS
<1>2. SendStep(out) \in [Calls \X (1 .. Len(out)) -> Calls]
<2>1. \A x \in Calls \X (1 .. Len(out)) : SendOne(x[1], out[x[2]]) \in Calls
  BY <1>1, SendOneType
<2> QED BY <2>1 DEF SendStep
<1>3. PICK jt : FoldsBy(Calls, SendStep(out), cs, Len(out), jt)
  BY <1>1, <1>2, FoldExists
<1>4. SentBy(cs, out, jt)
<2>1. ASSUME NEW s \in SUBSET (1 .. Len(out))
      PROVE  jt[s] = IF s = {} THEN cs ELSE SendOne(jt[s \ {Max(s)}], out[Max(s)])
<3>1. CASE s = {}
  BY <3>1, <1>3 DEF FoldStep, FoldsBy
<3>2. CASE s # {}
<4>1. Max(s) \in 1 .. Len(out)
  BY <1>1, <3>2, MaxIn
<4>2. jt[s \ {Max(s)}] \in Calls
  BY <1>3 DEF FoldsBy
<4>3. jt[s] = SendStep(out)[<<jt[s \ {Max(s)}], Max(s)>>]
  BY <1>3, <3>2 DEF FoldStep, FoldsBy
<4> QED BY <3>2, <4>1, <4>2, <4>3 DEF SendStep
<3> QED BY <3>1, <3>2
<2>2. jt = [s \in SUBSET (1 .. Len(out)) |-> jt[s]]
  BY <1>3 DEF FoldsBy
<2> QED BY <1>1, <2>1, <2>2 DEF SentBy
<1> DEFINE it == CHOOSE i : SentBy(cs, out, i)
<1>5. SendAll(cs, out) = it[1 .. Len(out)]
  BY <1>1 DEF SendAll, FoldLeft, MapThenFoldSet, SentBy
<1>6. SentBy(cs, out, it)
  BY <1>4
<1> HIDE DEF it
<1>7. Folding(Calls, SendStep(out), cs, it, Len(out))
<2>1. it[{}] = cs
  BY <1>6 DEF SentBy
<2>2. ASSUME NEW k \in 1 .. Len(out), it[1 .. k - 1] \in Calls
      PROVE  it[1 .. k] = SendStep(out)[<<it[1 .. k - 1], k>>]
<3>1. k \in Nat /\ k # 0 /\ 1 .. k \in SUBSET DOMAIN out
  BY <1>1
<3>2. (1 .. k) \ {Max(1 .. k)} = 1 .. k - 1 /\ Max(1 .. k) = k /\ 1 .. k # {}
  BY <3>1, SegmentStep
<3>3. it[1 .. k] = SendOne(it[1 .. k - 1], out[k])
  BY <3>1, <3>2, <1>6 DEF SentBy
<3> QED BY <2>2, <3>3 DEF SendStep
<2> QED BY <2>1, <2>2 DEF Folding
<1> QED BY <1>5, <1>7

(* Nothing to send.                                                        *)
LEMMA SendNone ==
  ASSUME NEW cs \in Calls
  PROVE  SendAll(cs, <<>>) = cs
<1>1. <<>> \in Seq(ApiCall) /\ Len(<<>>) = 0 /\ 1 .. 0 = {}
  OBVIOUS
<1>2. PICK it : /\ SendAll(cs, <<>>) = it[1 .. Len(<<>>)]
                /\ Folding(Calls, SendStep(<<>>), cs, it, Len(<<>>))
  BY <1>1, SendFolds
<1>3. it[{}] = cs
  BY <1>2 DEF Folding
<1> QED BY <1>1, <1>2, <1>3

(* The page sends at most two calls at a time.                             *)
LEMMA SendTwo ==
  ASSUME NEW cs \in Calls, NEW a \in ApiCall, NEW b \in ApiCall
  PROVE  /\ SendAll(cs, <<a>>) = SendOne(cs, a)
         /\ SendAll(cs, <<a, b>>) = SendOne(SendOne(cs, a), b)
<1>1. SendAll(cs, <<a>>) = SendOne(cs, a)
<2> DEFINE out == <<a>>
<2>1. out \in Seq(ApiCall) /\ Len(out) = 1 /\ out[1] = a /\ 1 .. 1 - 1 = {} /\ 1 \in 1 .. 1
  OBVIOUS
<2>2. PICK it : SendAll(cs, out) = it[1 .. 1] /\ Folding(Calls, SendStep(out), cs, it, 1)
<3> HIDE DEF out
<3> QED BY <2>1, SendFolds
<2>3. it[{}] = cs
  BY <2>2 DEF Folding
<2>4. it[1 .. 1] = SendStep(out)[<<cs, 1>>]
  BY <2>1, <2>2, <2>3 DEF Folding
<2> HIDE DEF out
<2> QED BY <2>1, <2>2, <2>4 DEF SendStep, out
<1>2. SendAll(cs, <<a, b>>) = SendOne(SendOne(cs, a), b)
<2> DEFINE out == <<a, b>>
<2>1. /\ out \in Seq(ApiCall) /\ Len(out) = 2 /\ out[1] = a /\ out[2] = b
      /\ 1 .. 1 - 1 = {} /\ 1 \in 1 .. 2 /\ 2 \in 1 .. 2 /\ 2 - 1 = 1
  OBVIOUS
<2>2. PICK it : SendAll(cs, out) = it[1 .. 2] /\ Folding(Calls, SendStep(out), cs, it, 2)
<3> HIDE DEF out
<3> QED BY <2>1, SendFolds
<2>3. it[{}] = cs
  BY <2>2 DEF Folding
<2>4. it[1 .. 1] = SendStep(out)[<<cs, 1>>]
  BY <2>1, <2>2, <2>3 DEF Folding
<2>5. it[1 .. 1] = SendOne(cs, a)
  BY <2>1, <2>4 DEF SendStep
<2>6. it[1 .. 1] \in Calls
  BY <2>5, SendOneType
<2>7. it[1 .. 2] = SendStep(out)[<<it[1 .. 1], 2>>]
  BY <2>1, <2>2, <2>6 DEF Folding
<2>8. SendStep(out)[<<it[1 .. 1], 2>>] = SendOne(it[1 .. 1], b)
<3> HIDE DEF out
<3> QED BY <2>1, <2>6 DEF SendStep
<2> QED BY <2>2, <2>5, <2>7, <2>8
<1> QED BY <1>1, <1>2

(* Slot q taken by a call.                                                 *)
Put(cs, q, call) == [cs EXCEPT ![q] = call]

(* It holds the call, and the other slots keep theirs.                     *)
LEMMA PutType ==
  ASSUME NEW cs \in Calls, NEW q \in Req, NEW call \in ApiCall
  PROVE  /\ Put(cs, q, call) \in Calls
         /\ Put(cs, q, call)[q] = call
         /\ \A r \in Req \ {q} : Put(cs, q, call)[r] = cs[r]
BY DEF Put, Calls

(* A call goes out in a free slot.                                         *)
LEMMA SendOneFree ==
  ASSUME NEW cs \in Calls, NEW call \in ApiCall, Free(cs) # {}
  PROVE  \E q \in Free(cs) : SendOne(cs, call) = Put(cs, q, call)
BY DEF SendOne, Put

(* Free slots can be counted, and there is one if they number one.         *)
LEMMA FreeFinite ==
  ASSUME NEW cs
  PROVE  /\ IsFiniteSet(Free(cs))
         /\ Cardinality(Free(cs)) \in Nat
         /\ Cardinality(Free(cs)) >= 1 => Free(cs) # {}
<1>1. IsFiniteSet(Free(cs))
  BY GamesAssumption, FS_Subset DEF Free
<1>2. Cardinality({}) = 0
  BY FS_EmptySet
<1>3. Cardinality(Free(cs)) \in Nat
  BY <1>1, FS_CardinalityType
<1>4. ASSUME Free(cs) = {} PROVE ~(Cardinality(Free(cs)) >= 1)
  BY <1>2, <1>4
<1> QED BY <1>1, <1>3, <1>4

(* What Become does to the calls, for no, one and two calls sent.          *)
LEMMA BecomeNone ==
  ASSUME NEW cl, NEW cs \in Calls, Become(cl, cs, <<>>)
  PROVE  c' = cl /\ calls' = cs
<1>1. calls' = SendAll(cs, <<>>)
  BY DEF Become, SendAll, FoldLeft, MapThenFoldSet
<1> QED BY <1>1, SendNone DEF Become

LEMMA BecomeOne ==
  ASSUME NEW cl, NEW cs \in Calls, NEW a \in ApiCall, Become(cl, cs, <<a>>)
  PROVE  c' = cl /\ \E q \in Free(cs) : calls' = Put(cs, q, a)
<1>1. calls' = SendAll(cs, <<a>>)
  BY DEF Become, SendAll, FoldLeft, MapThenFoldSet
<1>2. c' = cl /\ Cardinality(Free(cs)) >= 1
  BY DEF Become
<1>3. Free(cs) # {}
  BY <1>2, FreeFinite
<1>4. SendAll(cs, <<a>>) = SendOne(cs, a)
  BY SendTwo
<1>5. PICK q \in Free(cs) : SendOne(cs, a) = Put(cs, q, a)
  BY <1>3, SendOneFree
<1>6. calls' = Put(cs, q, a)
  BY <1>1, <1>4, <1>5, Zenon
<1> QED BY <1>2, <1>6

LEMMA BecomeTwo ==
  ASSUME NEW cl, NEW cs \in Calls, NEW a \in ApiCall, NEW b \in ApiCall, a.mine,
         Become(cl, cs, <<a, b>>)
  PROVE  /\ c' = cl
         /\ \E p, q \in Free(cs) :
              p # q /\ calls' = Put(Put(cs, p, a), q, b)
<1>1. calls' = SendAll(cs, <<a, b>>)
  BY DEF Become, SendAll, FoldLeft, MapThenFoldSet
<1>2. c' = cl /\ Cardinality(Free(cs)) >= 2
  BY DEF Become
<1>3. Free(cs) # {}
  BY <1>2, FreeFinite
<1>4. PICK p \in Free(cs) : SendOne(cs, a) = Put(cs, p, a)
  BY <1>3, SendOneFree
<1> DEFINE ds == Put(cs, p, a)
<1>5. ds \in Calls /\ p \in Req
  BY PutType DEF Free
<1>6. Free(ds) = Free(cs) \ {p}
<2>1. a # NoCall
  BY DEF NoCall, Call
<2>2. \A r \in Req : ds[r] = IF r = p THEN a ELSE cs[r]
  BY <1>5, PutType
<2> QED BY <2>1, <2>2, <1>5 DEF Free
<1>7. Cardinality(Free(ds)) = Cardinality(Free(cs)) - 1
  BY <1>6, FreeFinite, FS_RemoveElement
<1>8. Free(ds) # {}
<2>1. Cardinality(Free(cs)) \in Nat
  BY FreeFinite
<2>2. Cardinality(Free(ds)) >= 1
  BY <1>2, <1>7, <2>1
<2> HIDE DEF ds
<2> QED BY <2>2, FreeFinite
<1>9. PICK q \in Free(ds) : SendOne(ds, b) = Put(ds, q, b)
  BY <1>5, <1>8, SendOneFree
<1>10. calls' = Put(ds, q, b)
<2>1. SendAll(cs, <<a, b>>) = SendOne(SendOne(cs, a), b)
  BY SendTwo
<2>2. SendOne(cs, a) = ds
  BY <1>4
<2> HIDE DEF ds
<2> QED BY <1>1, <1>9, <2>1, <2>2, Zenon
<1>11. q \in Free(cs) /\ p # q
  BY <1>6, <1>9
<1> QED BY <1>2, <1>10, <1>11

(***************************************************************************)
(* What drainQueue does to the page and to its calls.                      *)
(***************************************************************************)
Drained(cl, cs) ==
  \/ /\ MayPost(cl)
     /\ c' = [cl EXCEPT !.queue = <<>>, !.inFlight = TRUE]
     /\ \E q \in Free(cs) : calls' = Put(cs, q, MoveCall(cl.queue))
  \/ /\ ~MayPost(cl) /\ MaySubmit(cl)
     /\ c' = [cl EXCEPT !.submitting = TRUE]
     /\ \E q \in Free(cs) : calls' = Put(cs, q, Call("submit", 0, <<>>))
  \/ /\ ~MayPost(cl) /\ ~MaySubmit(cl)
     /\ c' = cl
     /\ calls' = cs

(* What Call makes is a call that is on its way and that is the page's.    *)
LEMMA CallType ==
  ASSUME NEW kind \in StateKind \cup StartKind \cup {"none", "move", "undo", "submit"},
         NEW len \in Nat, NEW dirs \in Seq(Dir)
  PROVE  /\ Call(kind, len, dirs) \in ApiCall
         /\ Call(kind, len, dirs).kind = kind
         /\ Call(kind, len, dirs).mine
         /\ Call(kind, len, dirs).phase = "sent"
         /\ Call(kind, len, dirs).len = len
         /\ Call(kind, len, dirs).dirs = dirs
BY DEF Call, ApiCall, NoReply

(* The same for the calls without a batch.                                 *)
LEMMA BareCallType ==
  ASSUME NEW kind \in StateKind \cup StartKind \cup {"none", "move", "undo", "submit"}
  PROVE  /\ Call(kind, 0, <<>>) \in ApiCall
         /\ Call(kind, 0, <<>>).kind = kind
         /\ Call(kind, 0, <<>>).mine
         /\ Call(kind, 0, <<>>).phase = "sent"
<1> DEFINE none == <<>>
<1>1. none \in Seq(Dir) /\ 0 \in Nat
  OBVIOUS
<1> HIDE DEF none
<1>2. /\ Call(kind, 0, none) \in ApiCall /\ Call(kind, 0, none).kind = kind
      /\ Call(kind, 0, none).mine /\ Call(kind, 0, none).phase = "sent"
  BY <1>1, CallType
<1> QED BY <1>2 DEF none

(* An empty slot is neither the page's nor of any kind.                    *)
LEMMA NoCallType ==
  NoCall \in ApiCall /\ NoCall.mine = FALSE /\ NoCall.kind = "none" /\ NoCall.phase = "sent"
<1>1. Call("none", 0, <<>>) \in ApiCall
  BY BareCallType
<1> QED BY <1>1 DEF NoCall, Call, ApiCall

(* The moves of a queue.                                                   *)
Turns(queue) == [i \in DOMAIN queue |-> queue[i].dir]

(* The batch that drainQueue makes of a queue.                             *)
LEMMA MoveCallType ==
  ASSUME NEW cl \in Page, cl.queue # <<>>
  PROVE  /\ MoveCall(cl.queue) = Call("move", cl.queue[1].len, Turns(cl.queue))
         /\ cl.queue[1].len \in Nat
         /\ Turns(cl.queue) \in Seq(Dir)
         /\ MoveCall(cl.queue) \in ApiCall
         /\ MoveCall(cl.queue).mine
         /\ MoveCall(cl.queue).kind = "move"
         /\ MoveCall(cl.queue).phase = "sent"
<1>1. cl.queue \in Seq([dir : Dir, len : Nat])
  BY DEF Page
<1>2. cl.queue[1].len \in Nat /\ Turns(cl.queue) \in Seq(Dir)
<2> DEFINE queue == cl.queue
           Turn == [dir : Dir, len : Nat]
<2>1. queue \in Seq(Turn) /\ queue # <<>>
  BY <1>1
<2> HIDE DEF queue, Turn
<2>2. Len(queue) \in Nat /\ DOMAIN queue = 1 .. Len(queue) /\ 1 \in DOMAIN queue
  BY <2>1
<2>3. \A i \in DOMAIN queue : queue[i] \in Turn
  BY <2>1
<2>4. \A i \in DOMAIN queue : queue[i].dir \in Dir /\ queue[i].len \in Nat
  BY <2>3 DEF Turn
<2>5. Turns(queue) \in [1 .. Len(queue) -> Dir]
  BY <2>2, <2>4 DEF Turns
<2>6. Turns(queue) \in Seq(Dir)
  BY <2>2, <2>5
<2> QED BY <2>2, <2>4, <2>6 DEF queue
<1>3. MoveCall(cl.queue) = Call("move", cl.queue[1].len, Turns(cl.queue))
  BY DEF MoveCall, Turns
<1> DEFINE len == cl.queue[1].len
           dirs == Turns(cl.queue)
<1> HIDE DEF len, dirs
<1>4. len \in Nat /\ dirs \in Seq(Dir) /\ MoveCall(cl.queue) = Call("move", len, dirs)
  BY <1>2, <1>3 DEF len, dirs
<1>5. /\ Call("move", len, dirs) \in ApiCall /\ Call("move", len, dirs).kind = "move"
      /\ Call("move", len, dirs).mine /\ Call("move", len, dirs).phase = "sent"
  BY <1>4, CallType
<1> QED BY <1>2, <1>3, <1>4, <1>5

(* DrainQueue and DrainCalls together do what Drained says.                *)
LEMMA Drains ==
  ASSUME NEW cl \in Page, NEW cs \in Calls,
         Become(DrainQueue(cl), cs, DrainCalls(cl))
  PROVE  Drained(cl, cs)
<1>1. CASE MayPost(cl)
<2> DEFINE call == MoveCall(cl.queue)
           next == DrainQueue(cl)
<2>1. call \in ApiCall
  BY <1>1, MoveCallType DEF MayPost
<2>2. DrainCalls(cl) = <<call>>
  BY <1>1 DEF DrainCalls
<2>3. next = [cl EXCEPT !.queue = <<>>, !.inFlight = TRUE]
  BY <1>1 DEF DrainQueue
<2>4. Become(next, cs, <<call>>)
  BY <2>2
<2>5. c' = next /\ \E q \in Free(cs) : calls' = Put(cs, q, call)
<3> HIDE DEF call, next
<3> QED BY <2>1, <2>4, BecomeOne
<2> QED BY <1>1, <2>3, <2>5 DEF Drained
<1>2. CASE ~MayPost(cl) /\ MaySubmit(cl)
<2> DEFINE call == Call("submit", 0, <<>>)
           next == DrainQueue(cl)
<2>1. call \in ApiCall
  BY BareCallType
<2>2. DrainCalls(cl) = <<call>>
  BY <1>2 DEF DrainCalls
<2>3. next = [cl EXCEPT !.submitting = TRUE]
  BY <1>2 DEF DrainQueue
<2>4. Become(next, cs, <<call>>)
  BY <2>2
<2>5. c' = next /\ \E q \in Free(cs) : calls' = Put(cs, q, call)
<3> HIDE DEF call, next
<3> QED BY <2>1, <2>4, BecomeOne
<2> QED BY <1>2, <2>3, <2>5 DEF Drained
<1>3. CASE ~MayPost(cl) /\ ~MaySubmit(cl)
<2>1. DrainCalls(cl) = <<>> /\ DrainQueue(cl) = cl
  BY <1>3 DEF DrainCalls, DrainQueue
<2>2. Become(cl, cs, <<>>)
  BY <2>1
<2> QED BY <1>3, <2>2, BecomeNone DEF Drained
<1> QED BY <1>1, <1>2, <1>3

(* After a refused batch the page asks for the state first; its queue is   *)
(* empty, so a score is all it can send besides.                           *)
Resync == Call("resync", 0, <<>>)

(* Two calls to send, one after the other.                                 *)
LEMMA PairOfCalls ==
  ASSUME NEW a, NEW b
  PROVE  <<a>> \o <<b>> = <<a, b>>
<1>1. <<a>> \in Seq({a, b}) /\ <<b>> \in Seq({a, b}) /\ <<a, b>> \in Seq({a, b})
  OBVIOUS
<1> DEFINE s == <<a>> \o <<b>>
           t == <<a, b>>
<1>2. s \in Seq({a, b}) /\ Len(s) = 2 /\ s[1] = a /\ s[2] = b
  BY <1>1
<1>3. t \in Seq({a, b}) /\ Len(t) = 2 /\ t[1] = a /\ t[2] = b
  BY <1>1
<1> HIDE DEF s, t
<1>4. \A i \in 1 .. 2 : s[i] = t[i]
  BY <1>2, <1>3
<1>5. s = [i \in 1 .. 2 |-> s[i]] /\ t = [i \in 1 .. 2 |-> t[i]]
  BY <1>2, <1>3
<1>6. s = t
  BY <1>4, <1>5
<1> QED BY <1>6 DEF s, t

(* A refused batch leads to a resync, and perhaps to a score.              *)
LEMMA DrainsAfterResync ==
  ASSUME NEW cl \in Page, cl.queue = <<>>, NEW cs \in Calls,
         Become(DrainQueue(cl), cs, <<Resync>> \o DrainCalls(cl))
  PROVE  \E p \in Free(cs) :
           \/ /\ MaySubmit(cl)
              /\ c' = [cl EXCEPT !.submitting = TRUE]
              /\ \E q \in Free(cs) :
                   /\ p # q
                   /\ calls' = Put(Put(cs, p, Resync), q, Call("submit", 0, <<>>))
           \/ c' = cl /\ calls' = Put(cs, p, Resync)
<1>1. ~MayPost(cl)
  BY DEF MayPost
<1> DEFINE b == Call("submit", 0, <<>>)
           next == DrainQueue(cl)
<1>2. Resync \in ApiCall /\ Resync.mine /\ b \in ApiCall
  BY BareCallType DEF Resync, StateKind
<1>3. CASE MaySubmit(cl)
<2>1. DrainCalls(cl) = <<b>>
  BY <1>1, <1>3 DEF DrainCalls
<2> HIDE DEF b
<2>2. next = [cl EXCEPT !.submitting = TRUE]
  BY <1>1, <1>3 DEF DrainQueue
<2>3. <<Resync>> \o <<b>> = <<Resync, b>>
  BY PairOfCalls
<2>4. Become(next, cs, <<Resync, b>>)
  BY <2>1, <2>3
<2> HIDE DEF next
<2>5. c' = next
  BY <1>2, <2>4, BecomeTwo
<2>6. \E p, q \in Free(cs) : p # q /\ calls' = Put(Put(cs, p, Resync), q, b)
  BY <1>2, <2>4, BecomeTwo
<2> QED BY <1>3, <2>2, <2>5, <2>6 DEF b
<1>4. CASE ~MaySubmit(cl)
<2>1. DrainCalls(cl) = <<>> /\ DrainQueue(cl) = cl
  BY <1>1, <1>4 DEF DrainCalls, DrainQueue
<2>2. <<Resync>> \o <<>> = <<Resync>>
  OBVIOUS
<2>3. Become(cl, cs, <<Resync>>)
  BY <2>1, <2>2
<2>4. c' = cl /\ \E p \in Free(cs) : calls' = Put(cs, p, Resync)
  BY <1>2, <2>3, BecomeOne
<2> QED BY <2>4
<1> QED BY <1>3, <1>4

(***************************************************************************)
(* The types of the page, and what its slots and its calls always agree    *)
(* on, whatever goes wrong.                                                *)
(***************************************************************************)

(* A handler that runs was called, by a call of its kind, and has not      *)
(* answered yet.                                                           *)
Agrees(pc, call) ==
  /\ pc # "idle" => call.phase = "sent"
  /\ pc = "append" => call.kind = "move"
  /\ pc \in {"pop", "refund"} => call.kind = "undo"
  /\ pc \in {"finish", "upsert"} => call.kind = "submit"

SlotsAgree == \A r \in Req : Agrees(req[r].pc, calls[r])

(* Where the page takes over a state without asking whether there is one,  *)
(* there is one.                                                           *)
Whole(call) ==
  /\ call.phase = "answered" /\ call.reply.status = "ok"
  /\ call.kind \in StartKind \cup {"undo"}
  => call.reply.game \in Game

RepliesWhole == \A r \in Req : Whole(calls[r])

(* While the page waits for a batch, a batch of its own is on its way.     *)
MoveIn(cs) == \E r \in Req : cs[r].mine /\ cs[r].kind = "move"

Awaited == c.inFlight => MoveIn(calls)

ClientInv == ClientTypeOK /\ SlotsAgree /\ RepliesWhole /\ Awaited

(* What a step of the page may do to the calls: one of them is sent in a   *)
(* free slot, taken from a slot that is not being served, or disowned.     *)
Derived(cs) ==
  /\ cs \in Calls
  /\ \A r \in Req :
       \/ /\ cs[r].kind = calls[r].kind
          /\ cs[r].phase = calls[r].phase
          /\ cs[r].reply = calls[r].reply
       \/ At(r, "idle") /\ cs[r].phase = "sent"

PageStep ==
  /\ UNCHANGED vars
  /\ c' \in Page
  /\ calm' \in BOOLEAN
  /\ trouble' \in 0 .. MaxTrouble
  /\ Derived(calls')
  /\ c'.inFlight => MoveIn(calls')

(* Every step of that kind keeps the invariant.                            *)
LEMMA PageStepInv ==
  ASSUME ClientInv, PageStep
  PROVE  ClientInv'
<1>1. ClientTypeOK'
  BY DEF PageStep, ClientTypeOK, Calls, Derived
<1>2. req' = req
  BY DEF PageStep, vars
<1>3. SlotsAgree'
  BY <1>2 DEF PageStep, Derived, ClientInv, SlotsAgree, Agrees, At
<1>4. RepliesWhole'
  BY DEF PageStep, Derived, ClientInv, RepliesWhole, Whole
<1>5. Awaited'
  BY DEF PageStep, Awaited, MoveIn
<1> QED BY <1>1, <1>3, <1>4, <1>5 DEF ClientInv

(* Sending a call, and taking one.                                         *)
LEMMA PutDerived ==
  ASSUME NEW cs, Derived(cs), NEW q \in Free(cs),
         NEW call \in ApiCall, call.phase = "sent"
  PROVE  Derived(Put(cs, q, call))
<1>1. q \in Req /\ At(q, "idle") /\ cs \in Calls
  BY DEF Free, Derived
<1>2. \A r \in Req : Put(cs, q, call)[r] = IF r = q THEN call ELSE cs[r]
  BY <1>1, PutType
<1>3. Put(cs, q, call) \in Calls
  BY <1>1, PutType
<1> QED BY <1>1, <1>2, <1>3 DEF Derived

LEMMA PutMoveIn ==
  ASSUME NEW cs \in Calls, NEW q \in Free(cs), NEW call \in ApiCall,
         MoveIn(cs) \/ (call.mine /\ call.kind = "move")
  PROVE  MoveIn(Put(cs, q, call))
<1>1. q \in Req /\ ~cs[q].mine
  BY NoCallType DEF Free
<1>2. \A r \in Req : Put(cs, q, call)[r] = IF r = q THEN call ELSE cs[r]
  BY <1>1, PutType
<1> QED BY <1>1, <1>2 DEF MoveIn

(* What the invariant says of the page and its calls.                      *)
LEMMA PageNow == ASSUME ClientInv PROVE Derived(calls) /\ c \in Page /\ calls \in Calls
BY DEF Derived, ClientInv, ClientTypeOK, Calls

(* A reply that is taken frees its slot, which nobody is serving.          *)
LEMMA WithoutStep ==
  ASSUME ClientInv, NEW r \in Req, calls[r].phase = "answered"
  PROVE  /\ Without(r) \in Calls
         /\ Without(r)[r] = NoCall
         /\ \A q \in Req \ {r} : Without(r)[q] = calls[q]
         /\ Derived(Without(r))
         /\ At(r, "idle")
         /\ calls[r].kind # "move" /\ MoveIn(calls) => MoveIn(Without(r))
<1>1. Without(r) = Put(calls, r, NoCall) /\ calls \in Calls
  BY PageNow DEF Without, Put
<1>2. /\ Without(r) \in Calls
      /\ Without(r)[r] = NoCall
      /\ \A q \in Req \ {r} : Without(r)[q] = calls[q]
  BY <1>1, NoCallType, PutType
<1>3. At(r, "idle")
  BY DEF ClientInv, SlotsAgree, Agrees, At
<1>4. Derived(Without(r))
  BY <1>2, <1>3, NoCallType DEF Derived
<1>5. calls[r].kind # "move" /\ MoveIn(calls) => MoveIn(Without(r))
  BY <1>2 DEF MoveIn
<1> QED BY <1>2, <1>3, <1>4, <1>5

(* The page's refs after each kind of update.                              *)
LEMMA SyncType ==
  ASSUME NEW cl \in Page, NEW g \in Game
  PROVE  SyncFromServer(cl, g) \in Page
<1>1. g.seed \in Seed /\ g.log \in Seq(Dir) /\ g.finished \in BOOLEAN
  BY DEF Game
<1>2. Over(g.seed, g.log) \in BOOLEAN
  BY DEF Over
<1>3. (cl.submitted \/ g.finished) \in BOOLEAN
  OBVIOUS
<1> QED BY <1>1, <1>2, <1>3 DEF SyncFromServer, Page

LEMMA ApplyType ==
  ASSUME NEW cl \in Page, NEW d \in Dir
  PROVE  /\ Apply(cl, d) \in Page
         /\ Apply(cl, d).inFlight = cl.inFlight
<1> DEFINE turn == [dir |-> d, len |-> Len(cl.log)]
           Turn == [dir : Dir, len : Nat]
           log == Append(cl.log, d)
           queue == Append(cl.queue, turn)
           over == Over(cl.seed, log)
<1>1. cl.log \in Seq(Dir) /\ cl.queue \in Seq(Turn)
  BY DEF Page
<1>2. turn \in Turn
  BY <1>1
<1>3. log \in Seq(Dir) /\ queue \in Seq(Turn)
<2> HIDE DEF turn, Turn
<2> QED BY <1>1, <1>2
<1>4. over \in BOOLEAN
  BY DEF Over
<1>5. Apply(cl, d) = [cl EXCEPT !.log = log, !.over = over, !.queue = queue]
  BY DEF Apply, Page
<1> HIDE DEF log, queue, over, turn
<1> QED BY <1>3, <1>4, <1>5 DEF Page

LEMMA FlagType ==
  ASSUME NEW cl \in Page, NEW b \in BOOLEAN
  PROVE  /\ [cl EXCEPT !.undoing = b] \in Page
         /\ [cl EXCEPT !.hydrated = b] \in Page
         /\ [cl EXCEPT !.submitting = b] \in Page
         /\ [cl EXCEPT !.inFlight = b] \in Page
         /\ [cl EXCEPT !.submitted = b] \in Page
         /\ [cl EXCEPT !.finished = b] \in Page
BY DEF Page

LEMMA QueueType ==
  ASSUME NEW cl \in Page
  PROVE  [cl EXCEPT !.queue = <<>>] \in Page
<1> DEFINE none == <<>>
           Turn == [dir : Dir, len : Nat]
<1>1. none \in Seq(Turn)
  OBVIOUS
<1> HIDE DEF none
<1>2. [cl EXCEPT !.queue = none] \in Page
  BY <1>1 DEF Page
<1> QED BY <1>2 DEF none

LEMMA BlankType == Blank \in Page /\ Blank.inFlight = FALSE
<1> DEFINE none == <<>>
           Turn == [dir : Dir, len : Nat]
<1>1. none \in Seq(Turn) /\ none \in Seq(Dir)
  OBVIOUS
<1> HIDE DEF none
<1>2. [hydrated |-> FALSE, seed |-> NoGame, log |-> none, over |-> FALSE, finished |-> FALSE,
       finishedShown |-> FALSE, submitting |-> FALSE, submitted |-> FALSE, undoing |-> FALSE,
       inFlight |-> FALSE, queue |-> none] \in Page
  BY <1>1 DEF Page
<1> QED BY <1>2 DEF Blank, none

(* One call sent, or none.                                                 *)
LEMMA OneSent ==
  ASSUME NEW cl \in Page, NEW cs, Derived(cs), cl.inFlight => MoveIn(cs),
         NEW a \in ApiCall, a.phase = "sent", Become(cl, cs, <<a>>)
  PROVE  c' \in Page /\ Derived(calls') /\ (c'.inFlight => MoveIn(calls'))
<1>1. cs \in Calls
  BY DEF Derived
<1>2. c' = cl /\ \E q \in Free(cs) : calls' = Put(cs, q, a)
  BY <1>1, BecomeOne
<1> QED BY <1>1, <1>2, PutDerived, PutMoveIn

LEMMA NoneSent ==
  ASSUME NEW cl \in Page, NEW cs, Derived(cs), cl.inFlight => MoveIn(cs),
         Become(cl, cs, <<>>)
  PROVE  c' \in Page /\ Derived(calls') /\ (c'.inFlight => MoveIn(calls'))
<1>1. cs \in Calls
  BY DEF Derived
<1>2. c' = cl /\ calls' = cs
  BY <1>1, BecomeNone
<1> QED BY <1>2

LEMMA PostedType ==
  ASSUME NEW cl \in Page
  PROVE  [cl EXCEPT !.queue = <<>>, !.inFlight = TRUE] \in Page
<1> DEFINE dl == [cl EXCEPT !.queue = <<>>]
<1>1. dl \in Page
  BY QueueType
<1>2. [cl EXCEPT !.queue = <<>>, !.inFlight = TRUE] = [dl EXCEPT !.inFlight = TRUE]
  BY DEF Page
<1> HIDE DEF dl
<1> QED BY <1>1, <1>2, FlagType

(* drainQueue keeps the types, and waits for the batch it sends.           *)
LEMMA DrainedStep ==
  ASSUME NEW cl \in Page, NEW cs, Derived(cs), cl.inFlight => MoveIn(cs),
         Drained(cl, cs)
  PROVE  c' \in Page /\ Derived(calls') /\ (c'.inFlight => MoveIn(calls'))
<1>1. cs \in Calls
  BY DEF Derived
<1>2. CASE MayPost(cl)
<2> DEFINE call == MoveCall(cl.queue)
<2>1. call \in ApiCall /\ call.mine /\ call.kind = "move" /\ call.phase = "sent"
  BY <1>2, MoveCallType DEF MayPost
<2>2. c' \in Page /\ \E q \in Free(cs) : calls' = Put(cs, q, call)
  BY <1>2, PostedType DEF Drained
<2> HIDE DEF call
<2> QED BY <1>1, <2>1, <2>2, PutDerived, PutMoveIn
<1>3. CASE ~MayPost(cl) /\ MaySubmit(cl)
<2> DEFINE call == Call("submit", 0, <<>>)
<2>1. call \in ApiCall /\ call.phase = "sent"
  BY BareCallType
<2>2. c' = [cl EXCEPT !.submitting = TRUE] /\ \E q \in Free(cs) : calls' = Put(cs, q, call)
  BY <1>3 DEF Drained
<2>3. c' \in Page
  BY <2>2, FlagType
<2>4. c'.inFlight = cl.inFlight
  BY <2>2 DEF Page
<2> HIDE DEF call
<2> QED BY <1>1, <2>1, <2>2, <2>3, <2>4, PutDerived, PutMoveIn
<1>4. CASE ~MayPost(cl) /\ ~MaySubmit(cl)
  BY <1>4 DEF Drained
<1> QED BY <1>2, <1>3, <1>4

-----------------------------------------------------------------------------
(***************************************************************************)
(* The steps of the page keep the types.                                   *)
(***************************************************************************)

(* The steps of the page, one by one: play, and what a disturbance adds.   *)
LEMMA PlayTypes ==
  ASSUME ClientInv, NEW d \in Dir, Play(d)
  PROVE  PageStep
<1> DEFINE cl == Apply(c, d)
<1>1. /\ UNCHANGED <<trouble, vars>>
      /\ calm' = (calm /\ Len(cl.queue) <= MaxBatch)
      /\ Become(DrainQueue(cl), calls, DrainCalls(cl))
  BY DEF Play
<1>2. cl \in Page /\ (cl.inFlight => MoveIn(calls))
  BY PageNow, ApplyType DEF ClientInv, Awaited
<1>3. calm' \in BOOLEAN /\ trouble' \in 0 .. MaxTrouble
  BY <1>1 DEF ClientInv, ClientTypeOK
<1> HIDE DEF cl
<1>4. Drained(cl, calls)
  BY <1>1, <1>2, PageNow, Drains
<1>5. c' \in Page /\ Derived(calls') /\ (c'.inFlight => MoveIn(calls'))
  BY <1>2, <1>4, PageNow, DrainedStep
<1> QED BY <1>1, <1>3, <1>5 DEF PageStep

LEMMA TroubleType ==
  ASSUME ClientInv, Trouble
  PROVE  calm' = FALSE /\ calm' \in BOOLEAN /\ trouble' \in 0 .. MaxTrouble
<1>1. trouble \in 0 .. MaxTrouble /\ trouble < MaxTrouble /\ trouble' = trouble + 1
  BY DEF Trouble, ClientInv, ClientTypeOK
<1>2. trouble' \in 0 .. MaxTrouble
  BY <1>1, ClientAssumption
<1>3. calm' = FALSE
  BY DEF Trouble
<1> QED BY <1>2, <1>3

LEMMA StartFreshTypes ==
  ASSUME ClientInv, StartFresh
  PROVE  PageStep
<1> DEFINE cl == [c EXCEPT !.queue = <<>>, !.inFlight = FALSE, !.submitted = FALSE,
                           !.submitting = FALSE, !.finished = FALSE, !.undoing = FALSE]
           dl == [c EXCEPT !.queue = <<>>]
           a == Call("fresh", 0, <<>>)
<1>1. Trouble /\ UNCHANGED vars /\ Become(cl, calls, <<a>>)
  BY DEF StartFresh
<1>2. cl \in Page /\ cl.inFlight = FALSE
<2>1. dl \in Page
  BY PageNow, QueueType
<2>2. cl = [dl EXCEPT !.inFlight = FALSE, !.submitted = FALSE,
                      !.submitting = FALSE, !.finished = FALSE, !.undoing = FALSE]
  BY PageNow DEF Page
<2> HIDE DEF dl
<2>3. cl \in Page
  BY <2>1, <2>2 DEF Page
<2>4. cl.inFlight = FALSE
  BY <2>1, <2>2 DEF Page
<2> QED BY <2>3, <2>4
<1>3. a \in ApiCall /\ a.phase = "sent"
  BY BareCallType DEF StartKind
<1> HIDE DEF cl, a
<1>4. c' \in Page /\ Derived(calls') /\ (c'.inFlight => MoveIn(calls'))
  BY <1>1, <1>2, <1>3, PageNow, OneSent
<1> QED BY <1>1, <1>4, TroubleType DEF PageStep

LEMMA TriggerUndoTypes ==
  ASSUME ClientInv, TriggerUndo
  PROVE  PageStep
<1> DEFINE cl == [c EXCEPT !.undoing = TRUE]
           a == Call("undo", 0, <<>>)
<1>1. Trouble /\ UNCHANGED vars /\ Become(cl, calls, <<a>>)
  BY DEF TriggerUndo
<1>2. cl \in Page
  BY PageNow, FlagType
<1>3. cl.inFlight => MoveIn(calls)
<2>1. cl.inFlight = c.inFlight
  BY PageNow DEF Page
<2> QED BY <2>1 DEF ClientInv, Awaited
<1>4. a \in ApiCall /\ a.phase = "sent"
  BY BareCallType
<1> HIDE DEF cl, a
<1>5. c' \in Page /\ Derived(calls') /\ (c'.inFlight => MoveIn(calls'))
  BY <1>1, <1>2, <1>3, <1>4, PageNow, OneSent
<1> QED BY <1>1, <1>5, TroubleType DEF PageStep

LEMMA ReloadTypes ==
  ASSUME ClientInv, Reload
  PROVE  PageStep
<1> DEFINE cs == [r \in Req |-> IF calls[r].phase = "answered" THEN NoCall
                                ELSE [calls[r] EXCEPT !.mine = FALSE]]
           a == Call("load", 0, <<>>)
<1>1. Trouble /\ UNCHANGED vars /\ Become(Blank, cs, <<a>>)
  BY DEF Reload
<1>2. Derived(cs)
<2>1. ASSUME NEW r \in Req
      PROVE  /\ cs[r] \in ApiCall
             /\ \/ /\ cs[r].kind = calls[r].kind
                   /\ cs[r].phase = calls[r].phase
                   /\ cs[r].reply = calls[r].reply
                \/ At(r, "idle") /\ cs[r].phase = "sent"
<3>1. CASE calls[r].phase = "answered"
  BY <3>1, NoCallType DEF ClientInv, SlotsAgree, Agrees, At
<3>2. CASE calls[r].phase # "answered"
<4>1. calls[r] \in ApiCall /\ cs[r] = [calls[r] EXCEPT !.mine = FALSE]
  BY <3>2, PageNow DEF Calls
<4> HIDE DEF cs
<4> QED BY <4>1 DEF ApiCall
<3> QED BY <3>1, <3>2
<2> QED BY <2>1 DEF Derived, Calls
<1>3. a \in ApiCall /\ a.phase = "sent"
  BY BareCallType DEF StateKind
<1> HIDE DEF cs, a
<1>4. c' \in Page /\ Derived(calls') /\ (c'.inFlight => MoveIn(calls'))
  BY <1>1, <1>2, <1>3, BlankType, OneSent
<1> QED BY <1>1, <1>4, TroubleType DEF PageStep

(* A reply that is not about a batch leaves the batch on its way.          *)
LEMMA TakenInFlight ==
  ASSUME ClientInv, NEW r \in Req, calls[r].phase = "answered", calls[r].kind # "move",
         NEW cl, cl.inFlight = c.inFlight
  PROVE  cl.inFlight => MoveIn(Without(r))
<1>1. c.inFlight => MoveIn(calls)
  BY DEF ClientInv, Awaited
<1> QED BY <1>1, WithoutStep

LEMMA TakeStateTypes ==
  ASSUME ClientInv, NEW r \in Req, calls[r].phase = "answered", calls[r].kind # "move",
         calls[r].reply.game \in Game,
         NEW cl \in Page, cl.inFlight = c.inFlight,
         TakeState(r, cl), UNCHANGED <<trouble, vars>>
  PROVE  PageStep
<1> DEFINE synced == SyncFromServer(cl, calls[r].reply.game)
<1>1. Become(synced, Without(r), <<>>) /\ calm' = InCalm(r, synced)
  BY DEF TakeState
<1>2. calm' \in BOOLEAN
  BY <1>1 DEF InCalm
<1>3. synced \in Page
  BY SyncType
<1>4. synced.inFlight = cl.inFlight
  BY DEF SyncFromServer, Page
<1> HIDE DEF synced
<1>5. synced.inFlight => MoveIn(Without(r))
  BY <1>4, TakenInFlight
<1>6. c' \in Page /\ Derived(calls') /\ (c'.inFlight => MoveIn(calls'))
  BY <1>1, <1>3, <1>5, WithoutStep, NoneSent
<1>7. trouble' \in 0 .. MaxTrouble
  BY DEF ClientInv, ClientTypeOK
<1> QED BY <1>2, <1>6, <1>7 DEF PageStep

LEMMA TakeReplyTypes ==
  ASSUME ClientInv, NEW r \in Req, calls[r].phase = "answered", calls[r].kind # "move",
         NEW cl \in Page, cl.inFlight = c.inFlight,
         \/ Become(cl, Without(r), <<>>)
         \/ \E kind \in {"open", "reopen"} : Become(cl, Without(r), <<Call(kind, 0, <<>>)>>),
         UNCHANGED <<calm, trouble, vars>>
  PROVE  PageStep
<1>1. cl.inFlight => MoveIn(Without(r))
  BY TakenInFlight
<1>2. c' \in Page /\ Derived(calls') /\ (c'.inFlight => MoveIn(calls'))
<2>1. CASE Become(cl, Without(r), <<>>)
  BY <1>1, <2>1, WithoutStep, NoneSent
<2>2. ASSUME NEW kind \in {"open", "reopen"}, Become(cl, Without(r), <<Call(kind, 0, <<>>)>>)
      PROVE  c' \in Page /\ Derived(calls') /\ (c'.inFlight => MoveIn(calls'))
<3> DEFINE a == Call(kind, 0, <<>>)
<3>1. a \in ApiCall /\ a.phase = "sent"
  BY BareCallType DEF StartKind
<3>2. Become(cl, Without(r), <<a>>)
  BY <2>2
<3> HIDE DEF a
<3> QED BY <1>1, <3>1, <3>2, WithoutStep, OneSent
<2> QED BY <2>1, <2>2
<1>3. trouble' \in 0 .. MaxTrouble /\ calm' \in BOOLEAN
  BY DEF ClientInv, ClientTypeOK
<1> QED BY <1>2, <1>3 DEF PageStep

(* The replies, one by one.                                                *)
LEMMA OnLoadTypes ==
  ASSUME ClientInv, NEW r \in Req, OnLoad(r)
  PROVE  PageStep
<1> DEFINE cl == [c EXCEPT !.hydrated = TRUE]
<1>1. cl \in Page
  BY PageNow, FlagType
<1>2. cl.inFlight = c.inFlight
  BY PageNow DEF Page
<1>3. /\ calls[r].phase = "answered" /\ calls[r].kind \in {"load", "open", "reopen"}
      /\ UNCHANGED <<trouble, vars>>
  BY DEF OnLoad, Replied
<1>4. calls[r].reply.game \in Game \cup {NoGame}
  BY PageNow DEF Calls, ApiCall
<1>5. c \in Page
  BY PageNow
<1> HIDE DEF cl
<1>6. CASE calls[r].reply.game # NoGame /\ TakeState(r, cl)
  BY <1>1, <1>2, <1>3, <1>4, <1>6, TakeStateTypes
<1>7. CASE Replied(r, {"open", "reopen"}, {"ok"}) /\ TakeState(r, cl)
<2>1. calls[r].reply.game \in Game
  BY <1>7 DEF ClientInv, RepliesWhole, Whole, StartKind, Replied
<2> QED BY <1>1, <1>2, <1>3, <1>7, <2>1, TakeStateTypes
<1>8. CASE /\ UNCHANGED calm
           /\ \/ Become(c, Without(r), <<>>)
              \/ \E kind \in {"open", "reopen"} : Become(c, Without(r), <<Call(kind, 0, <<>>)>>)
  BY <1>3, <1>5, <1>8, TakeReplyTypes
<1> QED BY <1>6, <1>7, <1>8 DEF OnLoad, cl

LEMMA OnFreshOrResyncTypes ==
  ASSUME ClientInv, NEW r \in Req, OnFreshOrResync(r)
  PROVE  PageStep
<1>1. /\ calls[r].phase = "answered" /\ calls[r].kind \in {"fresh", "resync"}
      /\ UNCHANGED <<trouble, vars>>
  BY DEF OnFreshOrResync, Replied
<1>2. calls[r].reply.game \in Game \cup {NoGame}
  BY PageNow DEF Calls, ApiCall
<1>3. CASE calls[r].reply.game # NoGame /\ TakeState(r, c)
  BY <1>1, <1>2, <1>3, PageNow, TakeStateTypes
<1>4. CASE UNCHANGED calm /\ Become(c, Without(r), <<>>)
  BY <1>1, <1>4, PageNow, TakeReplyTypes
<1> QED BY <1>3, <1>4 DEF OnFreshOrResync

LEMMA OnUndoTypes ==
  ASSUME ClientInv, NEW r \in Req, OnUndo(r)
  PROVE  PageStep
<1> DEFINE cl == [c EXCEPT !.undoing = FALSE]
           dl == [c EXCEPT !.queue = <<>>, !.undoing = FALSE]
           el == [c EXCEPT !.queue = <<>>]
<1>1. cl \in Page /\ el \in Page
  BY PageNow, FlagType, QueueType
<1>2. dl = [el EXCEPT !.undoing = FALSE] /\ el.inFlight = c.inFlight /\ cl.inFlight = c.inFlight
  BY PageNow DEF Page
<1> HIDE DEF cl, dl, el
<1>3. dl \in Page
  BY <1>1, <1>2, FlagType
<1>4. dl.inFlight = c.inFlight
  BY <1>1, <1>2 DEF Page
<1>5. calls[r].phase = "answered" /\ calls[r].kind = "undo" /\ UNCHANGED <<trouble, vars>>
  BY DEF OnUndo, Replied
<1>6. CASE Replied(r, {"undo"}, {"ok"}) /\ TakeState(r, dl)
<2>1. calls[r].reply.game \in Game
  BY <1>6 DEF ClientInv, RepliesWhole, Whole, Replied
<2> QED BY <1>3, <1>4, <1>5, <1>6, <2>1, TakeStateTypes
<1>7. CASE UNCHANGED calm /\ Become(cl, Without(r), <<>>)
  BY <1>1, <1>2, <1>5, <1>7, TakeReplyTypes
<1> QED BY <1>6, <1>7 DEF OnUndo, cl, dl

LEMMA OnSubmitTypes ==
  ASSUME ClientInv, NEW r \in Req, OnSubmit(r)
  PROVE  PageStep
<1> DEFINE b == c.submitted \/ calls[r].reply.status = "ok"
           el == [c EXCEPT !.submitting = FALSE]
           cl == [c EXCEPT !.submitting = FALSE,
                           !.submitted = @ \/ calls[r].reply.status = "ok"]
<1>1. el \in Page /\ b \in BOOLEAN
  BY PageNow, FlagType
<1>2. cl = [el EXCEPT !.submitted = b] /\ el.inFlight = c.inFlight
  BY PageNow DEF Page
<1>3. /\ calls[r].phase = "answered" /\ calls[r].kind = "submit"
      /\ UNCHANGED <<calm, trouble, vars>>
      /\ Become(cl, Without(r), <<>>)
  BY DEF OnSubmit, Replied
<1> HIDE DEF cl, el, b
<1>4. cl \in Page
  BY <1>1, <1>2, FlagType
<1>5. cl.inFlight = c.inFlight
  BY <1>1, <1>2 DEF Page
<1> QED BY <1>3, <1>4, <1>5, TakeReplyTypes

(* The refs once the reply to a batch has come.                            *)
LEMMA SettledType ==
  ASSUME NEW cl \in Page
  PROVE  /\ Settled(cl) \in Page
         /\ Settled(cl).inFlight = FALSE
         /\ [Settled(cl) EXCEPT !.queue = <<>>] \in Page
         /\ [Settled(cl) EXCEPT !.queue = <<>>].inFlight = FALSE
         /\ [Settled(cl) EXCEPT !.queue = <<>>].queue = <<>>
<1>1. Settled(cl) \in Page
  BY FlagType DEF Settled
<1>2. Settled(cl).inFlight = FALSE
  BY DEF Settled, Page
<1>3. [Settled(cl) EXCEPT !.queue = <<>>] \in Page
  BY <1>1, QueueType
<1>4. /\ [Settled(cl) EXCEPT !.queue = <<>>].inFlight = FALSE
      /\ [Settled(cl) EXCEPT !.queue = <<>>].queue = <<>>
  BY <1>1, <1>2 DEF Page
<1> QED BY <1>1, <1>2, <1>3, <1>4

(* After a batch: drainQueue, or a resync and then drainQueue.             *)
LEMMA OnMoveTypes ==
  ASSUME ClientInv, NEW r \in Req, OnMove(r)
  PROVE  PageStep
<1> DEFINE taken == Settled(c)
           emptied == [taken EXCEPT !.queue = <<>>]
<1>1. /\ taken \in Page /\ taken.inFlight = FALSE
      /\ emptied \in Page /\ emptied.inFlight = FALSE /\ emptied.queue = <<>>
  BY PageNow, SettledType
<1>2. calls[r].phase = "answered" /\ UNCHANGED <<calm, trouble, vars>>
  BY DEF OnMove, Replied
<1>3. \/ Become(DrainQueue(taken), Without(r), DrainCalls(taken))
      \/ Become(DrainQueue(emptied), Without(r), <<Resync>> \o DrainCalls(emptied))
  BY DEF OnMove, Resync
<1> HIDE DEF taken, emptied
<1>4. Without(r) \in Calls /\ Derived(Without(r))
  BY <1>2, WithoutStep
<1>5. c' \in Page /\ Derived(calls') /\ (c'.inFlight => MoveIn(calls'))
<2>1. CASE Become(DrainQueue(taken), Without(r), DrainCalls(taken))
<3>1. Drained(taken, Without(r))
  BY <1>1, <1>4, <2>1, Drains
<3> QED BY <1>1, <1>4, <3>1, DrainedStep
<2>2. CASE Become(DrainQueue(emptied), Without(r), <<Resync>> \o DrainCalls(emptied))
<3> DEFINE b == Call("submit", 0, <<>>)
<3>1. PICK p \in Free(Without(r)) :
        \/ /\ MaySubmit(emptied)
           /\ c' = [emptied EXCEPT !.submitting = TRUE]
           /\ \E q \in Free(Without(r)) :
                p # q /\ calls' = Put(Put(Without(r), p, Resync), q, b)
        \/ c' = emptied /\ calls' = Put(Without(r), p, Resync)
  BY <1>1, <1>4, <2>2, DrainsAfterResync
<3>2. Resync \in ApiCall /\ Resync.phase = "sent" /\ b \in ApiCall /\ b.phase = "sent"
  BY BareCallType DEF Resync, StateKind
<3>3. Derived(Put(Without(r), p, Resync)) /\ p \in Req
  BY <1>4, <3>1, <3>2, PutDerived DEF Free
<3>4. CASE c' = emptied /\ calls' = Put(Without(r), p, Resync)
  BY <1>1, <3>3, <3>4
<3>5. ASSUME c' = [emptied EXCEPT !.submitting = TRUE], NEW q \in Free(Without(r)),
             p # q, calls' = Put(Put(Without(r), p, Resync), q, b)
      PROVE  c' \in Page /\ Derived(calls') /\ (c'.inFlight => MoveIn(calls'))
<4>1. c' \in Page
  BY <1>1, <3>5, FlagType
<4>2. c'.inFlight = FALSE
  BY <1>1, <3>5 DEF Page
<4>3. q \in Free(Put(Without(r), p, Resync))
<5>1. q \in Req /\ Put(Without(r), p, Resync)[q] = Without(r)[q]
  BY <1>4, <3>2, <3>3, <3>5, PutType DEF Free
<5> QED BY <3>5, <5>1 DEF Free
<4> HIDE DEF b
<4>4. Derived(calls')
  BY <3>2, <3>3, <3>5, <4>3, PutDerived
<4> QED BY <4>1, <4>2, <4>4
<3> QED BY <3>1, <3>4, <3>5
<2> QED BY <1>3, <2>1, <2>2
<1>6. trouble' \in 0 .. MaxTrouble /\ calm' \in BOOLEAN
  BY <1>2 DEF ClientInv, ClientTypeOK
<1> QED BY <1>2, <1>5, <1>6 DEF PageStep

-----------------------------------------------------------------------------
(***************************************************************************)
(* The steps of the API keep the types.                                    *)
(***************************************************************************)

(* What a step of the server, or of the network, does to one slot: its     *)
(* call and the request that serves it agree again, and a batch the page   *)
(* waits for is not lost sight of.                                         *)
Aside == c' = c /\ calm' \in BOOLEAN /\ trouble' \in 0 .. MaxTrouble

LEMMA SlotStep ==
  ASSUME ClientInv, NEW r \in Req, Aside, calls' \in Calls,
         \A o \in Req \ {r} : req'[o].pc = req[o].pc /\ calls'[o] = calls[o],
         Agrees(req'[r].pc, calls'[r]), Whole(calls'[r]),
         calls[r].mine /\ calls[r].kind = "move" => calls'[r].mine /\ calls'[r].kind = "move"
  PROVE  ClientInv'
<1>1. ClientTypeOK'
  BY DEF Aside, ClientInv, ClientTypeOK, Calls
<1>2. SlotsAgree'
<2>1. ASSUME NEW o \in Req PROVE Agrees(req'[o].pc, calls'[o])
<3>1. CASE o = r
  BY <3>1
<3>2. CASE o # r
  BY <3>2 DEF ClientInv, SlotsAgree
<3> QED BY <3>1, <3>2
<2> QED BY <2>1 DEF SlotsAgree
<1>3. RepliesWhole'
<2>1. ASSUME NEW o \in Req PROVE Whole(calls'[o])
<3>1. CASE o = r
  BY <3>1
<3>2. CASE o # r
  BY <3>2 DEF ClientInv, RepliesWhole
<3> QED BY <3>1, <3>2
<2> QED BY <2>1 DEF RepliesWhole
<1>4. Awaited'
<2>1. c'.inFlight => MoveIn(calls)
  BY DEF Aside, ClientInv, Awaited
<2>2. ASSUME MoveIn(calls) PROVE MoveIn(calls')
<3>1. PICK o \in Req : calls[o].mine /\ calls[o].kind = "move"
  BY <2>2 DEF MoveIn
<3>2. calls'[o].mine /\ calls'[o].kind = "move"
  BY <3>1
<3> QED BY <3>2 DEF MoveIn
<2> QED BY <2>1, <2>2 DEF Awaited
<1> QED BY <1>1, <1>2, <1>3, <1>4 DEF ClientInv

Replies == [status : {"none", "ok", "refused", "failed"}, game : Game \cup {NoGame}, len : Nat]

(* A call is answered by a handler that has returned.                      *)
LEMMA AnswerStep ==
  ASSUME ClientInv, NEW r \in Req, Aside, calls[r].phase = "sent",
         NEW reply \in Replies, Answer(r, reply),
         reply.status = "ok" /\ calls[r].kind \in StartKind \cup {"undo"} => reply.game \in Game,
         req'[r].pc = "idle", \A o \in Req \ {r} : req'[o].pc = req[o].pc
  PROVE  ClientInv'
<1>1. calls \in Calls /\ calls[r] \in ApiCall
  BY PageNow DEF Calls
<1>2. CASE calls[r].mine
<2> DEFINE call == [calls[r] EXCEPT !.phase = "answered", !.reply = reply]
<2>1. /\ call \in ApiCall /\ call.phase = "answered" /\ call.reply = reply
      /\ call.kind = calls[r].kind /\ call.mine = calls[r].mine
  BY <1>1 DEF ApiCall, Replies
<2>2. calls' = Put(calls, r, call)
  BY <1>1, <1>2 DEF Answer, Put, Calls
<2> HIDE DEF call
<2>3. /\ calls' \in Calls /\ calls'[r] = call
      /\ \A o \in Req \ {r} : calls'[o] = calls[o]
  BY <1>1, <2>1, <2>2, PutType
<2>4. Agrees(req'[r].pc, calls'[r]) /\ Whole(calls'[r])
  BY <2>1, <2>3 DEF Agrees, Whole
<2> QED BY <2>1, <2>3, <2>4, SlotStep
<1>3. CASE ~calls[r].mine
<2>1. calls' = Put(calls, r, NoCall)
  BY <1>1, <1>3 DEF Answer, Put, Without
<2>2. /\ calls' \in Calls /\ calls'[r] = NoCall
      /\ \A o \in Req \ {r} : calls'[o] = calls[o]
  BY <1>1, <2>1, NoCallType, PutType
<2>3. Agrees(req'[r].pc, calls'[r]) /\ Whole(calls'[r])
  BY <2>2, NoCallType DEF Agrees, Whole
<2> QED BY <1>3, <2>2, <2>3, SlotStep
<1> QED BY <1>2, <1>3

(* A handler runs on without an answer.                                    *)
LEMMA BusyStep ==
  ASSUME ClientInv, NEW r \in Req, Aside, calls' = calls,
         Agrees(req'[r].pc, calls[r]), \A o \in Req \ {r} : req'[o].pc = req[o].pc
  PROVE  ClientInv'
<1>1. calls' \in Calls /\ Whole(calls'[r])
  BY PageNow DEF ClientInv, RepliesWhole
<1> QED BY <1>1, SlotStep

(* What becomes of the requests when one of them starts, goes on or ends.  *)
LEMMA RequestPc ==
  ASSUME TypeInv, NEW r \in Req, NEW pc \in PC, NEW g, NEW log,
         Begin(r, pc, g, log) \/ Continue(r, pc) \/ (Return(r) /\ pc = "idle")
  PROVE  req'[r].pc = pc /\ \A o \in Req \ {r} : req'[o] = req[o]
<1>1. req \in [Req -> ApiRequest]
  BY DEF TypeInv, TypeOK
<1>2. req[r] \in ApiRequest
  BY <1>1
<1> QED BY <1>1, <1>2 DEF Begin, Continue, Return, Idle, ApiRequest

(* What the invariant says of one slot.                                    *)
LEMMA SlotNow ==
  ASSUME TypeInv, ClientInv, NEW r \in Req
  PROVE  /\ calls[r].kind \in StateKind \cup StartKind => At(r, "idle")
         /\ Agrees(req[r].pc, calls[r])
         /\ calls[r] \in ApiCall
<1>1. req[r] \in ApiRequest /\ calls[r] \in ApiCall /\ Agrees(req[r].pc, calls[r])
  BY DEF TypeInv, TypeOK, ClientInv, ClientTypeOK, SlotsAgree
<1>2. calls[r].kind \in StateKind \cup StartKind => req[r].pc = "idle"
  BY <1>1 DEF Agrees, StateKind, StartKind, ApiRequest
<1> QED BY <1>1, <1>2 DEF At

(* The replies the handlers give.                                          *)
LEMMA ReplyTypes ==
  /\ Refused \in Replies /\ Failed \in Replies
  /\ Refused.status = "refused" /\ Failed.status = "failed"
  /\ \A g \in Game \cup {NoGame}, n \in Nat :
       Ok(g, n) \in Replies /\ Ok(g, n).game = g /\ Ok(g, n).len = n /\ Ok(g, n).status = "ok"
BY DEF Refused, Failed, NoReply, Ok, Replies

(* The handlers, one by one.                                               *)
LEMMA ServeStateTypes ==
  ASSUME TypeInv, ClientInv, NEW r \in Req, Aside, ServeState(r)
  PROVE  ClientInv'
<1>1. game \in Game \cup {NoGame}
  BY DEF TypeInv, TypeOK
<1>2. At(r, "idle") /\ calls[r].kind \in StateKind /\ calls[r].phase = "sent" /\ req' = req
  BY SlotNow DEF ServeState, Sent, vars
<1>3. Ok(game, 0) \in Replies
  BY <1>1, ReplyTypes
<1>4. calls[r].kind \notin StartKind \cup {"undo"}
  BY <1>2 DEF StateKind, StartKind
<1>5. Answer(r, Ok(game, 0))
  BY DEF ServeState
<1> QED BY <1>2, <1>3, <1>4, <1>5, AnswerStep DEF At

LEMMA ServeStartTypes ==
  ASSUME TypeInv, ClientInv, NEW r \in Req, Aside, ServeStart(r)
  PROVE  ClientInv'
<1>1. PICK seed \in Seed :
        Start(seed) /\ Answer(r, Ok([seed |-> seed, log |-> <<>>, finished |-> FALSE], 0))
  BY DEF ServeStart
<1> DEFINE g == [seed |-> seed, log |-> <<>>, finished |-> FALSE]
<1>2. g \in Game
  BY DEF Game
<1>3. Answer(r, Ok(g, 0))
  BY <1>1
<1>4. At(r, "idle") /\ calls[r].phase = "sent" /\ req' = req
  BY <1>1, SlotNow DEF ServeStart, Sent, Start
<1> HIDE DEF g
<1>5. Ok(g, 0) \in Replies /\ Ok(g, 0).game \in Game
  BY <1>2, ReplyTypes
<1> QED BY <1>3, <1>4, <1>5, AnswerStep DEF At

LEMMA ServeMoveTypes ==
  ASSUME TypeInv, ClientInv, NEW r \in Req, Aside, ServeMove(r)
  PROVE  ClientInv'
<1>1. calls[r].phase = "sent" /\ calls[r].kind = "move" /\ At(r, "idle")
  BY DEF ServeMove, Sent
<1>2. CASE MoveRead(r, calls[r].dirs) /\ UNCHANGED calls
<2>1. req'[r].pc = "append" /\ \A o \in Req \ {r} : req'[o] = req[o]
  BY <1>2, RequestPc DEF MoveRead, PC
<2>2. Agrees(req'[r].pc, calls[r])
  BY <1>1, <2>1 DEF Agrees
<2> QED BY <1>2, <2>1, <2>2, BusyStep
<1>3. CASE Answer(r, Refused) /\ UNCHANGED vars
<2>1. req' = req
  BY <1>3 DEF vars
<2> QED BY <1>1, <1>3, <2>1, ReplyTypes, AnswerStep DEF At
<1> QED BY <1>2, <1>3 DEF ServeMove

LEMMA ServeAppendTypes ==
  ASSUME TypeInv, ClientInv, NEW r \in Req, Aside, ServeAppend(r)
  PROVE  ClientInv'
<1> DEFINE reply == IF Appendable(r) THEN Ok(NoGame, Len(req[r].log)) ELSE Refused
<1>1. /\ calls[r].phase = "sent" /\ calls[r].kind = "move"
      /\ Answer(r, reply) /\ Return(r)
  BY DEF ServeAppend, Sent, MoveAppend
<1>2. Len(req[r].log) \in Nat
<2>1. req[r] \in ApiRequest
  BY DEF TypeInv, TypeOK
<2>2. req[r].log \in Seq(Dir)
  BY <2>1 DEF ApiRequest
<2> QED BY <2>2
<1>3. reply \in Replies
  BY <1>2, ReplyTypes
<1>4. req'[r].pc = "idle" /\ \A o \in Req \ {r} : req'[o] = req[o]
  BY <1>1, RequestPc DEF PC
<1> HIDE DEF reply
<1> QED BY <1>1, <1>3, <1>4, AnswerStep DEF StartKind

LEMMA ServeUndoTypes ==
  ASSUME TypeInv, ClientInv, NEW r \in Req, Aside, ServeUndo(r)
  PROVE  ClientInv'
<1>1. calls[r].phase = "sent" /\ calls[r].kind = "undo"
  BY DEF ServeUndo, Sent
<1>2. CASE UndoConsume(r) /\ UNCHANGED calls
<2>1. req'[r].pc = "pop" /\ \A o \in Req \ {r} : req'[o] = req[o]
  BY <1>2, RequestPc DEF UndoConsume, PC
<2>2. Agrees(req'[r].pc, calls[r])
  BY <1>1, <2>1 DEF Agrees
<2> QED BY <1>2, <2>1, <2>2, BusyStep
<1>3. CASE At(r, "idle") /\ Answer(r, Refused) /\ UNCHANGED vars
<2>1. req' = req
  BY <1>3 DEF vars
<2> QED BY <1>1, <1>3, <2>1, ReplyTypes, AnswerStep DEF At
<1>4. CASE UndoPop(r) /\ Poppable /\ Answer(r, Ok([game EXCEPT !.log = Front(@)], 0))
<2> DEFINE g == [game EXCEPT !.log = Front(@)]
<2>1. g \in Game
<3>1. game \in Game /\ game.log # <<>>
  BY <1>4 DEF Poppable, TypeInv, TypeOK
<3>2. Front(game.log) \in Seq(Dir)
  BY <3>1 DEF Front, Game
<3> QED BY <3>1, <3>2 DEF Game
<2>2. req'[r].pc = "idle" /\ \A o \in Req \ {r} : req'[o] = req[o]
  BY <1>4, RequestPc DEF UndoPop, PC
<2>3. Answer(r, Ok(g, 0))
  BY <1>4
<2> HIDE DEF g
<2>4. Ok(g, 0) \in Replies /\ Ok(g, 0).game \in Game
  BY <2>1, ReplyTypes
<2> QED BY <1>1, <2>2, <2>3, <2>4, AnswerStep
<1>5. CASE UndoPop(r) /\ ~Poppable /\ UNCHANGED calls
<2>1. req'[r].pc = "refund" /\ \A o \in Req \ {r} : req'[o] = req[o]
  BY <1>5, RequestPc DEF UndoPop, PC
<2>2. Agrees(req'[r].pc, calls[r])
  BY <1>1, <2>1 DEF Agrees
<2> QED BY <1>5, <2>1, <2>2, BusyStep
<1>6. CASE UndoRefund(r) /\ Answer(r, Refused)
<2>1. req'[r].pc = "idle" /\ \A o \in Req \ {r} : req'[o] = req[o]
  BY <1>6, RequestPc DEF UndoRefund, PC
<2> QED BY <1>1, <1>6, <2>1, ReplyTypes, AnswerStep
<1> QED BY <1>2, <1>3, <1>4, <1>5, <1>6 DEF ServeUndo

LEMMA ServeSubmitTypes ==
  ASSUME TypeInv, ClientInv, NEW r \in Req, Aside, ServeSubmit(r)
  PROVE  ClientInv'
<1>1. calls[r].phase = "sent" /\ calls[r].kind = "submit"
  BY DEF ServeSubmit, Sent
<1>2. CASE SubmitRead(r) /\ UNCHANGED calls
<2>1. req'[r].pc = "finish" /\ \A o \in Req \ {r} : req'[o] = req[o]
  BY <1>2, RequestPc DEF SubmitRead, PC
<2>2. Agrees(req'[r].pc, calls[r])
  BY <1>1, <2>1 DEF Agrees
<2> QED BY <1>2, <2>1, <2>2, BusyStep
<1>3. CASE At(r, "idle") /\ Answer(r, Refused) /\ UNCHANGED vars
<2>1. req' = req
  BY <1>3 DEF vars
<2> QED BY <1>1, <1>3, <2>1, ReplyTypes, AnswerStep DEF At
<1>4. CASE SubmitFinish(r) /\ UNCHANGED calls
<2>1. req'[r].pc = "upsert" /\ \A o \in Req \ {r} : req'[o] = req[o]
  BY <1>4, RequestPc DEF SubmitFinish, PC
<2>2. Agrees(req'[r].pc, calls[r])
  BY <1>1, <2>1 DEF Agrees
<2> QED BY <1>4, <2>1, <2>2, BusyStep
<1>5. CASE SubmitUpsert(r) /\ Answer(r, Ok(NoGame, 0))
<2>1. req'[r].pc = "idle" /\ \A o \in Req \ {r} : req'[o] = req[o]
  BY <1>5, RequestPc DEF SubmitUpsert, PC
<2>2. Ok(NoGame, 0) \in Replies
  BY ReplyTypes
<2> QED BY <1>1, <1>5, <2>1, <2>2, AnswerStep DEF StartKind
<1> QED BY <1>2, <1>3, <1>4, <1>5 DEF ServeSubmit

(* Every step of a handler keeps the invariant.                            *)
LEMMA ServeTypes ==
  ASSUME TypeInv, ClientInv, NEW r \in Req, Serve(r)
  PROVE  ClientInv'
<1>1. Aside
  BY DEF Serve, Aside, ClientInv, ClientTypeOK
<1> QED
  BY <1>1, ServeStateTypes, ServeStartTypes, ServeMoveTypes, ServeAppendTypes, ServeUndoTypes,
     ServeSubmitTypes DEF Serve

-----------------------------------------------------------------------------
(***************************************************************************)
(* What goes wrong keeps the types.                                        *)
(***************************************************************************)

(* Nothing happens to the slots.                                           *)
LEMMA SameSlots ==
  ASSUME ClientInv, Aside, req' = req, calls' = calls
  PROVE  ClientInv'
BY DEF Aside, ClientInv, ClientTypeOK, SlotsAgree, RepliesWhole, Awaited, MoveIn

(* What goes wrong, one by one.                                            *)
LEMMA ServerFailsTypes ==
  ASSUME TypeInv, ClientInv, NEW r \in Req, Aside, ServerFails(r)
  PROVE  ClientInv'
<1>1. calls[r].phase = "sent" /\ Answer(r, Refused)
  BY DEF ServerFails
<1>2. req'[r].pc = "idle" /\ \A o \in Req \ {r} : req'[o].pc = req[o].pc
<2>1. CASE RequestDies(r)
  BY <2>1, RequestPc DEF RequestDies, PC
<2>2. CASE At(r, "idle") /\ UNCHANGED vars
  BY <2>2 DEF At, vars
<2> QED BY <2>1, <2>2 DEF ServerFails
<1> QED BY <1>1, <1>2, ReplyTypes, AnswerStep

LEMMA DisconnectTypes ==
  ASSUME TypeInv, ClientInv, NEW r \in Req, Aside, Disconnect(r)
  PROVE  ClientInv'
<1> DEFINE failed == [calls[r] EXCEPT !.phase = "answered", !.reply = Failed]
<1>1. calls[r].mine /\ calls \in Calls /\ calls[r] \in ApiCall /\ req' = req
  BY PageNow DEF Disconnect, vars, Calls
<1>2. /\ failed \in ApiCall /\ failed.phase = "answered" /\ failed.reply = Failed
      /\ failed.kind = calls[r].kind /\ failed.mine
  BY <1>1, ReplyTypes DEF ApiCall, Replies
<1>3. Whole(failed) /\ Agrees("idle", failed)
  BY <1>2, ReplyTypes DEF Whole, Agrees
<1>4. CASE /\ calls[r].phase = "answered" \/ At(r, "idle")
           /\ calls' = [calls EXCEPT ![r] = failed]
<2>1. req[r].pc = "idle"
  BY <1>4, SlotNow DEF At, Agrees
<2>2. calls' = Put(calls, r, failed)
  BY <1>4 DEF Put
<2> HIDE DEF failed
<2>3. /\ calls' \in Calls /\ calls'[r] = failed
      /\ \A o \in Req \ {r} : calls'[o] = calls[o]
  BY <1>1, <1>2, <2>2, PutType
<2> QED BY <1>1, <1>2, <1>3, <2>1, <2>3, SlotStep
<1>5. ASSUME calls[r].phase = "sent", NEW q \in Free(calls),
             calls' = [calls EXCEPT ![r].mine = FALSE, ![q] = failed]
      PROVE  ClientInv'
<2> DEFINE lost == [calls[r] EXCEPT !.mine = FALSE]
<2>1. lost \in ApiCall /\ lost.phase = "sent" /\ lost.kind = calls[r].kind
  BY <1>1, <1>5 DEF ApiCall
<2>2. q \in Req /\ q # r /\ req[q].pc = "idle"
  BY <1>1, <1>5, NoCallType DEF Free, At
<2>3. calls' = Put(Put(calls, r, lost), q, failed)
  BY <1>1, <1>5, <2>2 DEF Put, Calls
<2> HIDE DEF lost, failed
<2> DEFINE cs == Put(calls, r, lost)
<2>4. cs \in Calls /\ cs[r] = lost /\ \A o \in Req \ {r} : cs[o] = calls[o]
  BY <1>1, <2>1, PutType
<2> HIDE DEF cs
<2>5. calls' = Put(cs, q, failed)
  BY <2>3 DEF cs
<2>6. /\ calls' \in Calls /\ calls'[q] = failed /\ calls'[r] = lost
      /\ \A o \in Req \ {r, q} : calls'[o] = calls[o]
  BY <1>2, <2>2, <2>4, <2>5, PutType
<2>7. ClientTypeOK'
  BY <2>6 DEF Aside, ClientInv, ClientTypeOK, Calls
<2>8. ASSUME NEW o \in Req PROVE Agrees(req'[o].pc, calls'[o]) /\ Whole(calls'[o])
<3>1. CASE o = r
  BY <1>1, <2>1, <2>6, <3>1, SlotNow DEF Agrees, Whole
<3>2. CASE o = q
  BY <1>1, <1>3, <2>2, <2>6, <3>2
<3>3. CASE o \notin {r, q}
  BY <1>1, <2>6, <3>3 DEF ClientInv, SlotsAgree, RepliesWhole
<3> QED BY <3>1, <3>2, <3>3
<2>9. Awaited'
<3>1. c'.inFlight => MoveIn(calls)
  BY DEF Aside, ClientInv, Awaited
<3>2. ASSUME MoveIn(calls) PROVE MoveIn(calls')
<4>1. PICK o \in Req : calls[o].mine /\ calls[o].kind = "move"
  BY <3>2 DEF MoveIn
<4>2. CASE o = r
  BY <1>2, <2>2, <2>6, <4>1, <4>2 DEF MoveIn
<4>3. CASE o # r
<5>1. o # q
  BY <1>5, <4>1, NoCallType DEF Free
<5> QED BY <2>6, <4>1, <4>3, <5>1 DEF MoveIn
<4> QED BY <4>2, <4>3
<3> QED BY <3>1, <3>2 DEF Awaited
<2> QED BY <2>7, <2>8, <2>9 DEF ClientInv, SlotsAgree, RepliesWhole
<1> QED BY <1>4, <1>5 DEF Disconnect

LEMMA VanishTypes ==
  ASSUME TypeInv, ClientInv, NEW r \in Req, Aside, Vanish(r)
  PROVE  ClientInv'
<1>1. calls \in Calls /\ req' = req /\ req[r].pc = "idle" /\ ~calls[r].mine
  BY PageNow DEF Vanish, vars, At
<1>2. calls' = Put(calls, r, NoCall)
  BY DEF Vanish, Put, Without
<1>3. /\ calls' \in Calls /\ calls'[r] = NoCall
      /\ \A o \in Req \ {r} : calls'[o] = calls[o]
  BY <1>1, <1>2, NoCallType, PutType
<1>4. Agrees(req'[r].pc, calls'[r]) /\ Whole(calls'[r])
  BY <1>1, <1>3, NoCallType DEF Agrees, Whole
<1> QED BY <1>1, <1>3, <1>4, SlotStep

LEMMA OtherDeviceTypes ==
  ASSUME TypeInv, ClientInv, Aside, OtherDevice
  PROVE  ClientInv'
<1> DEFINE len == IF game = NoGame THEN 0 ELSE Len(game.log)
<1>1. len \in Nat
  BY DEF TypeInv, TypeOK, Game
<1>2. PICK call \in {Call(kind, 0, <<>>) : kind \in {"fresh", "undo", "submit"}}
                      \cup {Call("move", len, dirs) : dirs \in Batch} :
        calls' = SendOne(calls, [call EXCEPT !.mine = FALSE])
  BY DEF OtherDevice
<1> HIDE DEF len
<1>3. call \in ApiCall /\ call.phase = "sent"
<2>1. ASSUME NEW kind \in {"fresh", "undo", "submit"}, call = Call(kind, 0, <<>>)
      PROVE  call \in ApiCall /\ call.phase = "sent"
  BY <2>1, BareCallType DEF StartKind
<2>2. ASSUME NEW dirs \in Batch, call = Call("move", len, dirs)
      PROVE  call \in ApiCall /\ call.phase = "sent"
<3>1. dirs \in Seq(Dir)
  BY DEF Batch
<3> QED BY <1>1, <2>2, <3>1, CallType
<2> QED BY <1>2, <2>1, <2>2
<1> DEFINE other == [call EXCEPT !.mine = FALSE]
<1>4. other \in ApiCall /\ other.phase = "sent"
  BY <1>3 DEF ApiCall
<1>5. calls \in Calls /\ Free(calls) # {} /\ req' = req /\ calls' = SendOne(calls, other)
  BY <1>2, PageNow DEF OtherDevice, vars
<1> HIDE DEF other
<1>6. PICK q \in Free(calls) : calls' = Put(calls, q, other)
  BY <1>4, <1>5, SendOneFree
<1>7. q \in Req /\ req[q].pc = "idle" /\ ~calls[q].mine
  BY NoCallType DEF Free, At
<1>8. /\ calls' \in Calls /\ calls'[q] = other
      /\ \A o \in Req \ {q} : calls'[o] = calls[o]
  BY <1>4, <1>5, <1>6, <1>7, PutType
<1>9. Agrees(req'[q].pc, calls'[q]) /\ Whole(calls'[q])
  BY <1>4, <1>5, <1>7, <1>8 DEF Agrees, Whole
<1> QED BY <1>5, <1>7, <1>8, <1>9, SlotStep

(* Every disturbance keeps the invariant.                                  *)
LEMMA DisturbTypes ==
  ASSUME TypeInv, ClientInv, Disturb
  PROVE  ClientInv'
<1>1. Aside
  BY TroubleType DEF Disturb, Aside
<1>2. CASE Expire
<2>1. req' = req /\ calls' = calls
  BY <1>2 DEF Expire, LoseGame
<2> QED BY <1>1, <2>1, SameSlots
<1> QED
  BY <1>1, <1>2, ServerFailsTypes, DisconnectTypes, VanishTypes, OtherDeviceTypes DEF Disturb

(* The page has just been opened.                                          *)
LEMMA ClientInitTypes == ClientInit => TypeInv /\ ClientInv
<1> SUFFICES ASSUME ClientInit PROVE TypeInv /\ ClientInv
  OBVIOUS
<1>1. Init /\ c = Blank /\ calm = FALSE /\ trouble = 0
  BY DEF ClientInit
<1> DEFINE cs == [r \in Req |-> NoCall]
           a == Call("load", 0, <<>>)
<1>2. cs \in Calls /\ a \in ApiCall /\ a.phase = "sent"
  BY NoCallType, BareCallType DEF Calls, StateKind
<1>3. calls = SendOne(cs, a)
  BY DEF ClientInit
<1>4. calls \in Calls /\ \A r \in Req : calls[r] \in {NoCall, a}
<2> HIDE DEF a
<2>1. calls \in Calls
  BY <1>2, <1>3, SendOneType
<2>2. \A r \in Req : calls[r] \in {NoCall, a}
  BY <1>3 DEF SendOne
<2> QED BY <2>1, <2>2
<1>5. req = [r \in Req |-> Idle]
  BY <1>1 DEF Init
<1>6. ClientTypeOK
<2>1. 0 \in 0 .. MaxTrouble
  BY ClientAssumption
<2> HIDE DEF cs, a
<2> QED BY <1>1, <1>4, <2>1, BlankType DEF ClientTypeOK, Calls
<1>7. SlotsAgree /\ RepliesWhole
<2> HIDE DEF a
<2>1. \A r \in Req : calls[r].phase = "sent" /\ req[r].pc = "idle"
  BY <1>2, <1>4, <1>5, NoCallType, IdleIsRequest
<2> QED BY <2>1 DEF SlotsAgree, Agrees, RepliesWhole, Whole
<1>8. Awaited
  BY <1>1, BlankType DEF Awaited
<1> QED BY <1>1, <1>6, <1>7, <1>8, TypeInit DEF ClientInv

(* And every step of page, API and network does.                           *)
LEMMA ClientNextTypes ==
  ASSUME TypeInv, ClientInv, [ClientNext]_allVars
  PROVE  ClientInv'
<1>1. CASE UNCHANGED allVars
<2>1. Aside /\ req' = req /\ calls' = calls
  BY <1>1 DEF allVars, vars, pageVars, Aside, ClientInv, ClientTypeOK
<2> QED BY <2>1, SameSlots
<1>2. ASSUME NEW d \in Dir, Play(d) PROVE ClientInv'
  BY <1>2, PlayTypes, PageStepInv
<1>3. CASE StartFresh \/ TriggerUndo \/ Reload
  BY <1>3, StartFreshTypes, TriggerUndoTypes, ReloadTypes, PageStepInv
<1>4. ASSUME NEW r \in Req, On(r) PROVE ClientInv'
  BY <1>4, OnLoadTypes, OnFreshOrResyncTypes, OnMoveTypes, OnUndoTypes, OnSubmitTypes,
     PageStepInv DEF On
<1>5. ASSUME NEW r \in Req, Serve(r) PROVE ClientInv'
  BY <1>5, ServeTypes
<1>6. CASE Disturb
  BY <1>6, DisturbTypes
<1> QED BY <1>1, <1>2, <1>3, <1>4, <1>5, <1>6 DEF ClientNext

(* The inductive invariant of the types.                                   *)
ClientInvs == TypeInv /\ ClientInv

(* Every ref of the page and every call holds what the code can put there: *)
(* whatever is lost, refused or doubled, no reply leaves the page with     *)
(* half a state (App.tsx: syncFromServer, loadGame, triggerUndo), and it   *)
(* never waits for a batch that it did not send.                           *)
THEOREM ClientTypeCorrect ==
  ASSUME ScoresAreNumbers
  PROVE  ClientSpec => []ClientTypeOK
<1>1. ClientInit => ClientInvs
  BY ClientInitTypes DEF ClientInvs
<1>2. ClientInvs /\ [ClientNext]_allVars => ClientInvs'
  BY ClientNextTypes, ClientRefines, TypeNext DEF ClientInvs
<1>3. ClientInvs => ClientTypeOK
  BY DEF ClientInvs, ClientInv
<1> QED BY <1>1, <1>2, <1>3, PTL DEF ClientSpec
================================================================================
