------------------------------ MODULE InStepProof ------------------------------
(***************************************************************************)
(* The optimistic protocol of App.tsx: as long as nothing goes wrong, what *)
(* the page shows is what the server has, the batch on its way and the     *)
(* queue, for every game, batch size and number of calls in flight, and    *)
(* again as soon as a state has been taken over in peace.                  *)
(***************************************************************************)
EXTENDS ClientProof

(* "No such key" is not a state of the game.                               *)
NoGameIsNoState == NoGame \notin Game

(* The batch in slot r, of which the server has yet to append the moves s. *)
OnItsWay(r, call, s) ==
  \/ /\ call.phase = "sent" /\ call.dirs = s /\ s \in Batch /\ call.len = Len(game.log)
     /\ At(r, "append") => req[r].game = game /\ req[r].log = game.log \o s
  \/ call.phase = "answered" /\ AsExpected(call) /\ s = <<>>

(* At most one batch of the page is on its way, and the page knows.        *)
OneBatch(cl, cs, s) ==
  \/ ~cl.inFlight /\ s = <<>> /\ \A r \in Req : cs[r].kind # "move"
  \/ /\ cl.inFlight
     /\ \E r \in Req : /\ cs[r].kind = "move"
                       /\ \A q \in Req \ {r} : cs[q].kind # "move"
                       /\ OnItsWay(r, cs[r], s)

(* Nobody else's call is on its way, and at most one score.                *)
OwnCalls(cl, cs) ==
  /\ \A r \in Req : cs[r] = NoCall \/ (cs[r].mine /\ cs[r].kind \in {"move", "submit"})
  /\ \A r, q \in Req : cs[r].kind = "submit" /\ cs[q].kind = "submit" => r = q
  /\ \A r \in Req : cs[r].kind = "submit" => cl.submitting

(* The page shows what the server has, the batch and the queue; every move *)
(* in the queue says how long the log is before it, and every move the     *)
(* server does not have yet moved a tile when it was made.                 *)
SamePosition(cl, s) ==
  /\ cl.seed = game.seed
  /\ cl.over = Over(cl.seed, cl.log)
  /\ cl.log = game.log \o s \o Turns(cl.queue)
  /\ Len(cl.queue) <= MaxBatch
  /\ \A i \in 1 .. Len(cl.queue) : cl.queue[i].len = Len(game.log) + Len(s) + i - 1
  /\ Plays(cl.seed, cl.log, Len(game.log))

(* The score goes out, and the game is marked, when all moves are in.      *)
Ended(cl, cs) ==
  game.finished \/ (\E r \in Req : cs[r].kind = "submit")
    => cl.over /\ ~cl.inFlight /\ cl.queue = <<>>

(* What holds in peace, of the refs cl, the calls cs and the moves s of a  *)
(* batch that the server has not appended yet.                             *)
InPeace(cl, cs, s) ==
  /\ game \in Game /\ game # NoGame
  /\ SamePosition(cl, s) /\ OwnCalls(cl, cs) /\ OneBatch(cl, cs, s) /\ Ended(cl, cs)

Peace == calm => \E s \in Seq(Dir) : InPeace(c, calls, s)

-----------------------------------------------------------------------------
(***************************************************************************)
(* The queue, and logs put together.                                       *)
(***************************************************************************)

(* The moves of a page's queue.                                            *)
LEMMA TurnsType ==
  ASSUME NEW cl \in Page
  PROVE  /\ cl.queue \in Seq([dir : Dir, len : Nat])
         /\ Turns(cl.queue) \in Seq(Dir)
         /\ Len(Turns(cl.queue)) = Len(cl.queue)
         /\ cl.queue = <<>> => Turns(cl.queue) = <<>>
<1> DEFINE queue == cl.queue
           Turn == [dir : Dir, len : Nat]
<1>1. queue \in Seq(Turn)
  BY DEF Page
<1>2. \A i \in DOMAIN queue : queue[i].dir \in Dir
<2>1. \A i \in DOMAIN queue : queue[i] \in Turn
<3> HIDE DEF queue, Turn
<3> QED BY <1>1
<2> QED BY <2>1 DEF Turn
<1> HIDE DEF queue, Turn
<1>3. Len(queue) \in Nat /\ DOMAIN queue = 1 .. Len(queue)
  BY <1>1
<1>4. Turns(queue) \in [1 .. Len(queue) -> Dir]
  BY <1>2, <1>3 DEF Turns
<1>5. Turns(queue) \in Seq(Dir) /\ Len(Turns(queue)) = Len(queue)
  BY <1>3, <1>4
<1>6. ASSUME queue = <<>> PROVE Turns(queue) = <<>>
<2>1. Len(Turns(queue)) = 0
  BY <1>5, <1>6
<2> QED BY <1>5, <2>1
<1> QED BY <1>1, <1>5, <1>6 DEF queue, Turn

(* One more move in the queue.                                             *)
LEMMA TurnsAppend ==
  ASSUME NEW queue \in Seq([dir : Dir, len : Nat]), NEW turn \in [dir : Dir, len : Nat],
         Turns(queue) \in Seq(Dir), Len(Turns(queue)) = Len(queue)
  PROVE  Turns(Append(queue, turn)) = Append(Turns(queue), turn.dir)
<1> DEFINE Turn == [dir : Dir, len : Nat]
           longer == Append(queue, turn)
           turns == Append(Turns(queue), turn.dir)
<1>1. turn.dir \in Dir
  OBVIOUS
<1> HIDE DEF Turn
<1>2. /\ longer \in Seq(Turn) /\ DOMAIN longer = 1 .. Len(queue) + 1 /\ Len(queue) \in Nat
      /\ \A i \in 1 .. Len(queue) : longer[i] = queue[i]
      /\ longer[Len(queue) + 1] = turn
  BY DEF Turn
<1>3. turns \in Seq(Dir) /\ Len(turns) = Len(queue) + 1 /\ DOMAIN turns = 1 .. Len(queue) + 1
  BY <1>1
<1>4. \A i \in 1 .. Len(queue) : turns[i] = queue[i].dir
<2>1. DOMAIN queue = 1 .. Len(queue)
  OBVIOUS
<2> QED BY <2>1 DEF Turns
<1>5. turns[Len(queue) + 1] = turn.dir
  BY <1>1
<1>6. \A i \in 1 .. Len(queue) + 1 : turns[i] = longer[i].dir
<2> HIDE DEF turns, longer
<2> QED BY <1>2, <1>4, <1>5
<1>7. turns = [i \in 1 .. Len(queue) + 1 |-> turns[i]]
<2>1. turns = [i \in 1 .. Len(turns) |-> turns[i]]
<3> HIDE DEF turns
<3> QED BY <1>3
<2> QED BY <1>3, <2>1
<1>8. Turns(longer) = [i \in 1 .. Len(queue) + 1 |-> longer[i].dir]
<2> HIDE DEF longer
<2> QED BY <1>2 DEF Turns
<1> HIDE DEF turns, longer
<1>9. turns = Turns(longer)
  BY <1>6, <1>7, <1>8
<1> QED BY <1>9 DEF turns, longer

(* One more move at the end of a log in two or three parts.                *)
LEMMA JoinedTwo ==
  ASSUME NEW a \in Seq(Dir), NEW t \in Seq(Dir), NEW d \in Dir
  PROVE  /\ Append(a \o t, d) = a \o Append(t, d)
         /\ Len(a \o t) = Len(a) + Len(t)
         /\ a \o t \in Seq(Dir)
OBVIOUS

LEMMA Joined ==
  ASSUME NEW a \in Seq(Dir), NEW b \in Seq(Dir), NEW t \in Seq(Dir), NEW d \in Dir
  PROVE  /\ Append(a \o b \o t, d) = a \o b \o Append(t, d)
         /\ Len(a \o b \o t) = Len(a) + Len(b) + Len(t)
<1> DEFINE ab == a \o b
<1>1. ab \in Seq(Dir) /\ Len(ab) = Len(a) + Len(b)
  BY JoinedTwo
<1> HIDE DEF ab
<1>2. Append(ab \o t, d) = ab \o Append(t, d) /\ Len(ab \o t) = Len(ab) + Len(t)
  BY <1>1, JoinedTwo
<1> QED BY <1>1, <1>2 DEF ab

(* A move that is shown.                                                   *)
LEMMA ApplyPeace ==
  ASSUME NEW cl \in Page, NEW cs, NEW s \in Seq(Dir), InPeace(cl, cs, s), ~cl.over,
         NEW d \in Dir, Moves(cl.seed, Played(cl.seed, cl.log), d),
         Len(Apply(cl, d).queue) <= MaxBatch
  PROVE  InPeace(Apply(cl, d), cs, s)
<1> DEFINE turn == [dir |-> d, len |-> Len(cl.log)]
           Turn == [dir : Dir, len : Nat]
           dl == Apply(cl, d)
           queue == cl.queue
           log == cl.log
<1>1. /\ log \in Seq(Dir) /\ queue \in Seq(Turn) /\ game.log \in Seq(Dir)
      /\ Turns(queue) \in Seq(Dir) /\ Len(Turns(queue)) = Len(queue)
  BY TurnsType DEF Page, InPeace, Game
<1>2. turn \in Turn
  BY <1>1
<1>3. /\ dl.log = Append(log, d) /\ dl.over = Over(cl.seed, Append(log, d))
      /\ dl.queue = Append(queue, turn) /\ dl.seed = cl.seed
      /\ dl.inFlight = cl.inFlight /\ dl.submitting = cl.submitting
  BY DEF Apply, Page
<1>4. log = game.log \o s \o Turns(queue)
  BY DEF InPeace, SamePosition
<1>5. Turns(Append(queue, turn)) = Append(Turns(queue), d)
  BY <1>1, <1>2, TurnsAppend
<1>6. Append(log, d) = game.log \o s \o Append(Turns(queue), d)
<2> DEFINE turns == Turns(queue)
           first == game.log
<2>1. log = first \o s \o turns /\ first \in Seq(Dir) /\ turns \in Seq(Dir)
  BY <1>1, <1>4
<2> HIDE DEF turns, first, log
<2>2. Append(log, d) = first \o s \o Append(turns, d)
  BY <2>1, Joined
<2> QED BY <2>2 DEF turns, first
<1>7. Plays(cl.seed, Append(log, d), Len(game.log))
<2>1. Len(game.log) \in Nat /\ Plays(cl.seed, log, Len(game.log))
  BY <1>1 DEF InPeace, SamePosition
<2> QED BY <1>1, <2>1, PlaysMore
<1>8. \A i \in 1 .. Len(dl.queue) : dl.queue[i].len = Len(game.log) + Len(s) + i - 1
<2>1. Len(log) = Len(game.log) + Len(s) + Len(queue)
<3> DEFINE turns == Turns(queue)
           first == game.log
<3>1. log = first \o s \o turns /\ first \in Seq(Dir) /\ turns \in Seq(Dir)
  BY <1>1, <1>4
<3> HIDE DEF turns, first, log
<3>2. Len(log) = Len(first) + Len(s) + Len(turns)
  BY <3>1, Joined
<3> QED BY <1>1, <3>2 DEF turns, first
<2>2. \A i \in 1 .. Len(queue) : queue[i].len = Len(game.log) + Len(s) + i - 1
  BY DEF InPeace, SamePosition
<2>3. turn.len = Len(log)
  OBVIOUS
<2>4. /\ Len(Append(queue, turn)) = Len(queue) + 1 /\ Len(queue) \in Nat
      /\ \A i \in 1 .. Len(queue) : Append(queue, turn)[i] = queue[i]
      /\ Append(queue, turn)[Len(queue) + 1] = turn
<3> HIDE DEF queue, turn, Turn
<3> QED BY <1>1, <1>2
<2>5. Len(game.log) \in Nat /\ Len(s) \in Nat
  BY <1>1
<2> HIDE DEF queue, turn, log, dl
<2>6. SUFFICES ASSUME NEW i \in 1 .. Len(queue) + 1
               PROVE  Append(queue, turn)[i].len = Len(game.log) + Len(s) + i - 1
  BY <1>3, <2>4
<2>7. CASE i = Len(queue) + 1
  BY <2>1, <2>3, <2>4, <2>5, <2>7
<2>8. CASE i # Len(queue) + 1
<3>1. i \in 1 .. Len(queue)
  BY <2>4, <2>8
<3> QED BY <2>2, <2>4, <3>1
<2> QED BY <2>7, <2>8
<1>9. SamePosition(dl, s)
<2>1. dl.seed = game.seed /\ Len(dl.queue) <= MaxBatch
  BY <1>3 DEF InPeace, SamePosition
<2> HIDE DEF queue, turn, log, dl
<2> QED BY <1>3, <1>5, <1>6, <1>7, <1>8, <2>1 DEF SamePosition
<1>10. OwnCalls(dl, cs) /\ OneBatch(dl, cs, s) /\ Ended(dl, cs)
<2> HIDE DEF dl
<2> QED BY <1>3 DEF InPeace, OwnCalls, OneBatch, Ended
<1> QED BY <1>9, <1>10 DEF InPeace

(* The queue is sent, or the score.                                        *)
LEMMA DrainPeace ==
  ASSUME NEW cl \in Page, NEW cs \in Calls, NEW s \in Seq(Dir), InPeace(cl, cs, s),
         Drained(cl, cs)
  PROVE  \E t \in Seq(Dir) : InPeace(c', calls', t)
<1>1. CASE MayPost(cl)
<2> DEFINE queue == cl.queue
           call == MoveCall(queue)
           t == Turns(queue)
           dl == [cl EXCEPT !.queue = <<>>, !.inFlight = TRUE]
           none == <<>>
<2>1. PICK q \in Free(cs) : c' = dl /\ calls' = Put(cs, q, call)
  BY <1>1 DEF Drained
<2>2. ~cl.inFlight /\ queue # none /\ s = none
  BY <1>1 DEF MayPost, InPeace, OneBatch
<2>3. /\ call = Call("move", queue[1].len, t) /\ call \in ApiCall /\ call.mine
      /\ call.kind = "move" /\ call.phase = "sent" /\ queue[1].len \in Nat
  BY <2>2, MoveCallType
<2>4. call.len = queue[1].len /\ call.dirs = t
  BY <2>3 DEF Call
<2>5. /\ t \in Seq(Dir) /\ Len(t) = Len(queue) /\ game.log \in Seq(Dir)
      /\ Turns(none) = none /\ queue \in Seq([dir : Dir, len : Nat])
<3>1. Turns(none) = none
  BY DEF Turns
<3> HIDE DEF none
<3> QED BY <3>1, TurnsType DEF InPeace, Game
<2>6. /\ dl.seed = cl.seed /\ dl.over = cl.over /\ dl.log = cl.log
      /\ dl.queue = none /\ dl.inFlight = TRUE /\ dl.submitting = cl.submitting
  BY DEF Page
<2>7. Len(queue) \in 1 .. MaxBatch
<3>1. Len(queue) <= MaxBatch /\ Len(queue) \in Nat
  BY <2>5 DEF InPeace, SamePosition
<3>2. Len(queue) # 0
<4> HIDE DEF queue
<4> QED BY <2>2, <2>5 DEF none
<3> QED BY <3>1, <3>2, GamesAssumption
<2>8. t \in Batch
<3>1. t \in [1 .. Len(queue) -> Dir]
<4> HIDE DEF t, queue
<4> QED BY <2>5
<3> QED BY <2>7, <3>1 DEF Batch
<2>9. call.len = Len(game.log)
<3>1. queue[1].len = Len(game.log) + Len(s) + 1 - 1
  BY <2>7 DEF InPeace, SamePosition
<3>2. Len(s) = 0 /\ Len(game.log) \in Nat
  BY <2>2, <2>5
<3> HIDE DEF queue, call
<3> QED BY <2>4, <3>1, <3>2
<2>10. q \in Req /\ At(q, "idle") /\ cs[q] = NoCall
  BY DEF Free
<2>11. \A r \in Req : cs[r].kind # "move"
  BY <2>2 DEF InPeace, OneBatch
<2>12. ~game.finished /\ \A r \in Req : cs[r].kind # "submit"
  BY <2>2 DEF InPeace, Ended
<2>13. SamePosition(dl, t)
<3>1. cl.log = game.log \o none \o t
  BY <2>2 DEF InPeace, SamePosition
<3>2. game.log \o none \o t = game.log \o t \o none
  BY <2>5
<3>3. Len(none) = 0 /\ MaxBatch \in Nat
  BY GamesAssumption
<3>4. cl.seed = game.seed /\ cl.over = Over(cl.seed, cl.log) /\ Plays(cl.seed, cl.log, Len(game.log))
  BY DEF InPeace, SamePosition
<3> HIDE DEF t, dl, none
<3>5. Len(dl.queue) <= MaxBatch /\ 1 .. Len(dl.queue) = {}
  BY <2>6, <3>3
<3> QED BY <2>5, <2>6, <3>1, <3>2, <3>4, <3>5 DEF SamePosition
<2> HIDE DEF call, dl, t, queue, none
<2>14. calls'[q] = call /\ \A r \in Req \ {q} : calls'[r] = cs[r]
  BY <2>1, <2>3, <2>10, PutType
<2>15. OwnCalls(dl, calls')
<3>1. \A r \in Req : cs[r] = NoCall \/ (cs[r].mine /\ cs[r].kind \in {"move", "submit"})
  BY DEF InPeace, OwnCalls
<3> QED BY <2>3, <2>12, <2>14, <3>1 DEF OwnCalls
<2>16. OneBatch(dl, calls', t)
<3>1. OnItsWay(q, call, t)
  BY <2>3, <2>4, <2>8, <2>9, <2>10 DEF OnItsWay, At
<3> QED BY <2>3, <2>6, <2>10, <2>11, <2>14, <3>1 DEF OneBatch
<2>17. Ended(dl, calls')
  BY <2>3, <2>12, <2>14 DEF Ended
<2>18. InPeace(dl, calls', t)
  BY <2>13, <2>15, <2>16, <2>17 DEF InPeace
<2> QED BY <2>1, <2>5, <2>18
<1>2. CASE ~MayPost(cl) /\ MaySubmit(cl)
<2> DEFINE call == Call("submit", 0, <<>>)
           dl == [cl EXCEPT !.submitting = TRUE]
<2>1. PICK q \in Free(cs) : c' = dl /\ calls' = Put(cs, q, call)
  BY <1>2 DEF Drained
<2>2. call \in ApiCall /\ call.mine /\ call.kind = "submit"
  BY BareCallType
<2>3. /\ dl.seed = cl.seed /\ dl.over = cl.over /\ dl.log = cl.log
      /\ dl.queue = cl.queue /\ dl.inFlight = cl.inFlight /\ dl.submitting
  BY DEF Page
<2> HIDE DEF call, dl
<2>4. q \in Req /\ cs[q] = NoCall
  BY DEF Free
<2>5. calls'[q] = call /\ \A r \in Req \ {q} : calls'[r] = cs[r]
  BY <2>1, <2>2, <2>4, PutType
<2>6. cl.over /\ ~cl.inFlight /\ cl.queue = <<>> /\ ~cl.submitting
  BY <1>2 DEF MaySubmit
<2>7. OwnCalls(dl, calls')
  BY <2>2, <2>3, <2>5, <2>6 DEF InPeace, OwnCalls
<2>8. OneBatch(dl, calls', s)
  BY <2>2, <2>3, <2>5, <2>6 DEF InPeace, OneBatch
<2>9. SamePosition(dl, s) /\ Ended(dl, calls')
  BY <2>3, <2>6 DEF InPeace, SamePosition, Ended
<2>10. InPeace(dl, calls', s)
  BY <2>7, <2>8, <2>9 DEF InPeace
<2> QED BY <2>1, <2>10
<1>3. CASE ~MayPost(cl) /\ ~MaySubmit(cl)
  BY <1>3 DEF Drained
<1> QED BY <1>1, <1>2, <1>3

-----------------------------------------------------------------------------
(***************************************************************************)
(* The steps of the page keep the peace.                                   *)
(***************************************************************************)

(* The page and its calls are in peace after a step that leaves the API    *)
(* alone.                                                                  *)
LEMMA PeaceSame ==
  ASSUME game' = game, req' = req, calls' \in Calls, NEW s \in Seq(Dir), InPeace(c', calls', s)
  PROVE  Peace'
<1>1. SamePosition(c, s)'
  BY DEF InPeace, SamePosition
<1>2. OneBatch(c, calls, s)'
  BY DEF InPeace, OneBatch, OnItsWay, At
<1>3. OwnCalls(c, calls)' /\ Ended(c, calls)'
  BY DEF InPeace, OwnCalls, Ended
<1>4. InPeace(c, calls, s)'
  BY <1>1, <1>2, <1>3 DEF InPeace
<1> QED BY <1>4 DEF Peace

(* Nothing is claimed once something has gone wrong.                       *)
LEMMA NotCalm ==
  ASSUME ~calm'
  PROVE  Peace'
BY DEF Peace

(* apply: the move is shown, and sent at once if no batch is on its way.   *)
LEMMA PlayPeace ==
  ASSUME ClientInv, Peace, NEW d \in Dir, Play(d)
  PROVE  Peace'
<1> DEFINE cl == Apply(c, d)
<1>1. /\ ~c.over /\ Moves(c.seed, Played(c.seed, c.log), d)
      /\ Become(DrainQueue(cl), calls, DrainCalls(cl))
      /\ calm' = (calm /\ Len(cl.queue) <= MaxBatch)
      /\ game' = game /\ req' = req
  BY DEF Play, vars
<1>2. cl \in Page /\ c \in Page /\ calls \in Calls
  BY PageNow, ApplyType
<1> HIDE DEF cl
<1>3. Drained(cl, calls) /\ calls' \in Calls
<2>1. PageStep
  BY PlayTypes
<2> QED BY <1>1, <1>2, <2>1, Drains DEF PageStep, Derived
<1>4. CASE calm'
<2>1. calm /\ Len(cl.queue) <= MaxBatch
  BY <1>1, <1>4
<2>2. PICK s \in Seq(Dir) : InPeace(c, calls, s)
  BY <2>1 DEF Peace
<2>3. InPeace(cl, calls, s)
  BY <1>1, <1>2, <2>1, <2>2, ApplyPeace DEF cl
<2>4. PICK t \in Seq(Dir) : InPeace(c', calls', t)
  BY <1>2, <1>3, <2>3, DrainPeace
<2> QED BY <1>1, <1>3, <2>4, PeaceSame
<1> QED BY <1>4, NotCalm

(* The call of a batch in peace, and of a score.                           *)
LEMMA BatchIn ==
  ASSUME NEW s, InPeace(c, calls, s), NEW r \in Req, calls[r].kind = "move"
  PROVE  /\ c.inFlight /\ OnItsWay(r, calls[r], s)
         /\ \A q \in Req \ {r} : calls[q].kind # "move"
         /\ calls[r].mine /\ ~game.finished
         /\ \A q \in Req : calls[q].kind # "submit"
<1>1. c.inFlight /\ OnItsWay(r, calls[r], s) /\ \A q \in Req \ {r} : calls[q].kind # "move"
  BY DEF InPeace, OneBatch
<1>2. calls[r].mine
  BY NoCallType DEF InPeace, OwnCalls
<1>3. ~game.finished /\ \A q \in Req : calls[q].kind # "submit"
  BY <1>1 DEF InPeace, Ended
<1> QED BY <1>1, <1>2, <1>3

(* In peace no call is about a state.                                      *)
LEMMA KindsIn ==
  ASSUME NEW s, InPeace(c, calls, s), NEW r \in Req
  PROVE  calls[r].kind \in {"none", "move", "submit"}
BY NoCallType DEF InPeace, OwnCalls

(* A score on its way is the only call.                                    *)
LEMMA SubmitIn ==
  ASSUME NEW s, InPeace(c, calls, s), NEW r \in Req, calls[r].kind = "submit"
  PROVE  /\ c.over /\ ~c.inFlight /\ c.queue = <<>> /\ c.submitting /\ s = <<>>
         /\ calls[r].mine
         /\ \A q \in Req : calls[q].kind # "move"
         /\ \A q \in Req \ {r} : calls[q] = NoCall
<1>1. c.over /\ ~c.inFlight /\ c.queue = <<>>
  BY DEF InPeace, Ended
<1>2. s = <<>> /\ \A q \in Req : calls[q].kind # "move"
  BY <1>1 DEF InPeace, OneBatch
<1>3. c.submitting /\ \A q \in Req \ {r} : calls[q].kind # "submit"
  BY DEF InPeace, OwnCalls
<1>4. calls[r].mine /\ \A q \in Req \ {r} : calls[q] = NoCall
  BY <1>2, <1>3, NoCallType DEF InPeace, OwnCalls
<1> QED BY <1>1, <1>2, <1>3, <1>4

(* postMove: the reply is the expected one, and the queue is drained.      *)
LEMMA OnMovePeace ==
  ASSUME ClientInv, Peace, NEW r \in Req, OnMove(r)
  PROVE  Peace'
<1> DEFINE taken == Settled(c)
           none == <<>>
<1>1. /\ calls[r].phase = "answered" /\ calls[r].kind = "move"
      /\ calm' = calm /\ game' = game /\ req' = req
  BY DEF OnMove, Replied, vars
<1>2. taken \in Page /\ calls' \in Calls /\ Without(r) \in Calls
<2>1. PageStep
  BY OnMoveTypes
<2> QED BY <1>1, <2>1, PageNow, SettledType, WithoutStep DEF PageStep, Derived
<1>3. CASE calm
<2>1. PICK s \in Seq(Dir) : InPeace(c, calls, s)
  BY <1>3 DEF Peace
<2>2. /\ c.inFlight /\ OnItsWay(r, calls[r], s)
      /\ \A q \in Req \ {r} : calls[q].kind # "move"
      /\ ~game.finished
      /\ \A q \in Req : calls[q].kind # "submit"
  BY <1>1, <2>1, BatchIn
<2>3. AsExpected(calls[r]) /\ s = none
  BY <1>1, <2>2 DEF OnItsWay
<2>4. Become(DrainQueue(taken), Without(r), DrainCalls(taken))
  BY <2>3 DEF OnMove
<2>5. /\ taken.seed = c.seed /\ taken.over = c.over /\ taken.log = c.log
      /\ taken.queue = c.queue /\ ~taken.inFlight /\ taken.submitting = c.submitting
  BY PageNow DEF Settled, Page
<2>6. Without(r)[r] = NoCall /\ \A q \in Req \ {r} : Without(r)[q] = calls[q]
  BY <1>1, WithoutStep
<2> HIDE DEF taken, none
<2>7. SamePosition(taken, s)
  BY <2>1, <2>5 DEF InPeace, SamePosition
<2>8. OwnCalls(taken, Without(r))
  BY <2>1, <2>2, <2>6, NoCallType DEF InPeace, OwnCalls
<2>9. OneBatch(taken, Without(r), s)
<3>1. \A q \in Req : Without(r)[q].kind # "move"
  BY <2>2, <2>6, NoCallType
<3> QED BY <2>3, <2>5, <3>1 DEF OneBatch, none
<2>10. Ended(taken, Without(r))
  BY <2>2, <2>6, NoCallType DEF Ended
<2>11. InPeace(taken, Without(r), s)
  BY <2>1, <2>7, <2>8, <2>9, <2>10 DEF InPeace
<2>12. Drained(taken, Without(r))
  BY <1>2, <2>4, Drains
<2>13. PICK t \in Seq(Dir) : InPeace(c', calls', t)
  BY <1>2, <2>11, <2>12, DrainPeace
<2> QED BY <1>1, <1>2, <2>13, PeaceSame
<1> QED BY <1>1, <1>3, NotCalm

(* trySubmit has its reply.                                                *)
LEMMA OnSubmitPeace ==
  ASSUME ClientInv, Peace, NEW r \in Req, OnSubmit(r)
  PROVE  Peace'
<1> DEFINE cl == [c EXCEPT !.submitting = FALSE,
                           !.submitted = @ \/ calls[r].reply.status = "ok"]
<1>1. /\ calls[r].phase = "answered" /\ calls[r].kind = "submit"
      /\ calm' = calm /\ game' = game /\ req' = req
      /\ Become(cl, Without(r), <<>>)
  BY DEF OnSubmit, Replied, vars
<1>2. /\ Without(r) \in Calls /\ Without(r)[r] = NoCall
      /\ \A q \in Req \ {r} : Without(r)[q] = calls[q]
  BY <1>1, WithoutStep
<1>3. /\ cl.seed = c.seed /\ cl.over = c.over /\ cl.log = c.log
      /\ cl.queue = c.queue /\ cl.inFlight = c.inFlight
  BY PageNow DEF Page
<1> HIDE DEF cl
<1>4. c' = cl /\ calls' = Without(r)
  BY <1>1, <1>2, BecomeNone
<1>5. CASE calm
<2>1. PICK s \in Seq(Dir) : InPeace(c, calls, s)
  BY <1>5 DEF Peace
<2>2. /\ c.over /\ ~c.inFlight /\ c.queue = <<>>
      /\ \A q \in Req \ {r} : calls[q] = NoCall
  BY <1>1, <2>1, SubmitIn
<2>3. \A q \in Req : calls'[q] = NoCall
  BY <1>2, <1>4, <2>2
<2>4. SamePosition(cl, s)
  BY <1>3, <2>1 DEF InPeace, SamePosition
<2>5. OwnCalls(cl, calls') /\ Ended(cl, calls')
  BY <1>3, <2>2, <2>3, NoCallType DEF OwnCalls, Ended
<2>6. OneBatch(cl, calls', s)
  BY <1>3, <2>1, <2>2, <2>3, NoCallType DEF InPeace, OneBatch
<2>7. InPeace(cl, calls', s)
  BY <2>1, <2>4, <2>5, <2>6 DEF InPeace
<2> QED BY <1>1, <1>2, <1>4, <2>7, PeaceSame
<1> QED BY <1>1, <1>5, NotCalm

(* A state taken over while nothing else is going on.                      *)
LEMMA TakeStatePeace ==
  ASSUME NoGameIsNoState, ClientInv, NEW r \in Req, calls[r].phase = "answered",
         calls[r].kind # "move", calls[r].reply.game \in Game,
         NEW cl \in Page, cl.inFlight = c.inFlight, TakeState(r, cl), UNCHANGED vars
  PROVE  Peace'
<1> DEFINE g == calls[r].reply.game
           synced == SyncFromServer(cl, g)
           none == <<>>
<1>1. /\ Become(synced, Without(r), <<>>) /\ calm' = InCalm(r, synced)
      /\ game' = game /\ req' = req
  BY DEF TakeState, vars
<1>2. /\ Without(r) \in Calls /\ Without(r)[r] = NoCall
      /\ \A q \in Req \ {r} : Without(r)[q] = calls[q]
  BY WithoutStep
<1>3. /\ synced.seed = g.seed /\ synced.log = g.log /\ synced.over = Over(g.seed, g.log)
      /\ synced.submitted = (cl.submitted \/ g.finished)
      /\ synced.inFlight = c.inFlight
  BY DEF SyncFromServer, Page
<1> HIDE DEF synced
<1>4. c' = synced /\ calls' = Without(r)
  BY <1>1, <1>2, BecomeNone
<1>5. CASE calm'
<2>1. /\ g = game /\ synced.queue = none /\ ~synced.submitted
      /\ \A q \in Req \ {r} : calls[q] = NoCall
  BY <1>1, <1>5 DEF InCalm
<2>2. game \in Game /\ game # NoGame /\ game.log \in Seq(Dir) /\ ~game.finished
  BY <1>3, <2>1 DEF NoGameIsNoState, Game
<2>3. ~c.inFlight
  BY <2>1, NoCallType DEF ClientInv, Awaited, MoveIn
<2>4. \A q \in Req : calls'[q] = NoCall
  BY <1>2, <1>4, <2>1
<2> HIDE DEF g
<2>5. SamePosition(synced, none)
<3>1. Turns(none) = none /\ none \in Seq(Dir) /\ Len(none) = 0 /\ 1 .. 0 = {}
  BY DEF Turns
<3>2. game.log \o none \o none = game.log
  BY <2>2
<3>3. Plays(game.seed, game.log, Len(game.log))
<4>1. Len(game.log) + 1 .. Len(game.log) = {}
  BY <2>2
<4> QED BY <4>1 DEF Plays
<3>4. 0 <= MaxBatch
  BY GamesAssumption
<3> HIDE DEF none
<3> QED BY <1>3, <2>1, <3>1, <3>2, <3>3, <3>4 DEF SamePosition
<2>6. OwnCalls(synced, calls') /\ Ended(synced, calls')
  BY <2>2, <2>4, NoCallType DEF OwnCalls, Ended
<2>7. OneBatch(synced, calls', none)
  BY <1>3, <2>3, <2>4, NoCallType DEF OneBatch
<2>8. InPeace(synced, calls', none) /\ none \in Seq(Dir)
  BY <2>2, <2>5, <2>6, <2>7 DEF InPeace
<2> HIDE DEF none
<2> QED BY <1>1, <1>2, <1>4, <2>8, PeaceSame
<1> QED BY <1>5, NotCalm

(* In peace there is no such reply.                                        *)
LEMMA NoOtherReply ==
  ASSUME Peace, NEW r \in Req, calls[r].kind \notin {"none", "move", "submit"}, UNCHANGED calm
  PROVE  Peace'
BY KindsIn DEF Peace

(* The replies that bring a state.                                         *)
LEMMA OnLoadPeace ==
  ASSUME NoGameIsNoState, ClientInv, Peace, NEW r \in Req, OnLoad(r)
  PROVE  Peace'
<1> DEFINE cl == [c EXCEPT !.hydrated = TRUE]
<1>1. cl \in Page
  BY PageNow, FlagType
<1>2. cl.inFlight = c.inFlight
  BY PageNow DEF Page
<1>3. /\ calls[r].phase = "answered" /\ calls[r].kind \in {"load", "open", "reopen"}
      /\ UNCHANGED vars
  BY DEF OnLoad, Replied
<1>4. calls[r].reply.game \in Game \cup {NoGame}
  BY PageNow DEF Calls, ApiCall
<1> HIDE DEF cl
<1>5. CASE calls[r].reply.game # NoGame /\ TakeState(r, cl)
  BY <1>1, <1>2, <1>3, <1>4, <1>5, TakeStatePeace
<1>6. CASE Replied(r, {"open", "reopen"}, {"ok"}) /\ TakeState(r, cl)
<2>1. calls[r].reply.game \in Game
  BY <1>6 DEF ClientInv, RepliesWhole, Whole, StartKind, Replied
<2> QED BY <1>1, <1>2, <1>3, <1>6, <2>1, TakeStatePeace
<1>7. CASE UNCHANGED calm
  BY <1>3, <1>7, NoOtherReply
<1> QED BY <1>5, <1>6, <1>7 DEF OnLoad, cl

LEMMA OnFreshOrResyncPeace ==
  ASSUME NoGameIsNoState, ClientInv, Peace, NEW r \in Req, OnFreshOrResync(r)
  PROVE  Peace'
<1>1. /\ calls[r].phase = "answered" /\ calls[r].kind \in {"fresh", "resync"}
      /\ UNCHANGED vars
  BY DEF OnFreshOrResync, Replied
<1>2. calls[r].reply.game \in Game \cup {NoGame}
  BY PageNow DEF Calls, ApiCall
<1>3. CASE calls[r].reply.game # NoGame /\ TakeState(r, c)
  BY <1>1, <1>2, <1>3, PageNow, TakeStatePeace
<1>4. CASE UNCHANGED calm
  BY <1>1, <1>4, NoOtherReply
<1> QED BY <1>3, <1>4 DEF OnFreshOrResync

LEMMA OnUndoPeace ==
  ASSUME NoGameIsNoState, ClientInv, Peace, NEW r \in Req, OnUndo(r)
  PROVE  Peace'
<1> DEFINE dl == [c EXCEPT !.queue = <<>>, !.undoing = FALSE]
           el == [c EXCEPT !.queue = <<>>]
<1>1. el \in Page
  BY PageNow, QueueType
<1>2. dl = [el EXCEPT !.undoing = FALSE] /\ el.inFlight = c.inFlight
  BY PageNow DEF Page
<1> HIDE DEF dl, el
<1>3. dl \in Page
  BY <1>1, <1>2, FlagType
<1>4. dl.inFlight = c.inFlight
  BY <1>1, <1>2 DEF Page
<1>5. calls[r].phase = "answered" /\ calls[r].kind = "undo" /\ UNCHANGED vars
  BY DEF OnUndo, Replied
<1>6. CASE Replied(r, {"undo"}, {"ok"}) /\ TakeState(r, dl)
<2>1. calls[r].reply.game \in Game
  BY <1>6 DEF ClientInv, RepliesWhole, Whole, Replied
<2> QED BY <1>3, <1>4, <1>5, <1>6, <2>1, TakeStatePeace
<1>7. CASE UNCHANGED calm
  BY <1>5, <1>7, NoOtherReply
<1> QED BY <1>6, <1>7 DEF OnUndo, dl

-----------------------------------------------------------------------------
(***************************************************************************)
(* The steps of the API keep the peace.                                    *)
(***************************************************************************)

(* A batch on its way in peace is accepted, and accepted whole.            *)
LEMMA BatchAcceptable ==
  ASSUME ClientInv, NEW s \in Seq(Dir), InPeace(c, calls, s),
         NEW r \in Req, calls[r].kind = "move", calls[r].phase = "sent"
  PROVE  /\ calls[r].dirs = s
         /\ Acceptable(calls[r])
         /\ Accept(game.seed, game.log, s) = game.log \o s
<1> DEFINE log == game.log
           turns == Turns(c.queue)
           none == <<>>
<1>1. /\ calls[r].dirs = s /\ s \in Batch /\ calls[r].len = Len(log)
      /\ ~game.finished
  BY BatchIn DEF OnItsWay
<1>2. log \in Seq(Dir) /\ turns \in Seq(Dir) /\ game # NoGame
  BY PageNow, TurnsType DEF InPeace, Game
<1>3. s # none
<2>1. PICK n \in 1 .. MaxBatch : s \in [1 .. n -> Dir]
  BY <1>1 DEF Batch
<2>2. Len(s) = n /\ n \in Nat /\ n # 0
  BY <2>1, GamesAssumption
<2> QED BY <2>2
<1>4. Plays(game.seed, (log \o s) \o turns, Len(log))
  BY DEF InPeace, SamePosition
<1> HIDE DEF log, turns
<1>5. log \o s \in Seq(Dir) /\ Len(log) \in Nat /\ log \o s # log
<2>1. log \o s \in Seq(Dir) /\ Len(log) \in Nat /\ Len(log \o s) = Len(log) + Len(s)
  BY <1>2, JoinedTwo
<2>2. Len(s) \in Nat /\ Len(s) # 0
  BY <1>3
<2> QED BY <2>1, <2>2
<1>6. Plays(game.seed, log \o s, Len(log))
  BY <1>2, <1>4, <1>5, PlaysPart
<1>7. ~Over(game.seed, log)
<2> HIDE DEF none
<2> QED BY <1>2, <1>3, <1>6, PlaysOn DEF none
<1>8. Accept(game.seed, log, s) = log \o s
  BY <1>2, <1>6, AcceptsAll
<1>9. Acceptable(calls[r])
  BY <1>1, <1>2, <1>5, <1>7, <1>8 DEF Acceptable, log
<1> QED BY <1>1, <1>8, <1>9 DEF log

(* /api/games/move accepts the batch.                                      *)
LEMMA ServeMovePeace ==
  ASSUME TypeInv, ClientInv, Peace, NEW r \in Req, ServeMove(r), UNCHANGED <<c, calm>>
  PROVE  Peace'
<1>1. calls[r].phase = "sent" /\ calls[r].kind = "move" /\ At(r, "idle")
  BY DEF ServeMove, Sent
<1>2. CASE calm
<2>1. PICK s \in Seq(Dir) : InPeace(c, calls, s)
  BY <1>2 DEF Peace
<2>2. /\ calls[r].dirs = s /\ Acceptable(calls[r])
      /\ Accept(game.seed, game.log, s) = game.log \o s
  BY <1>1, <2>1, BatchAcceptable
<2>3. /\ Begin(r, "append", game, game.log \o s)
      /\ calls' = calls /\ game' = game
  BY <2>2 DEF ServeMove, MoveRead
<2>4. req'[r].game = game /\ req'[r].log = game.log \o s
<3>1. req \in [Req -> ApiRequest]
  BY DEF TypeInv, TypeOK
<3> QED BY <2>3, <3>1 DEF Begin
<2>5. /\ c.inFlight /\ OnItsWay(r, calls[r], s)
      /\ \A q \in Req \ {r} : calls[q].kind # "move"
  BY <1>1, <2>1, BatchIn
<2>6. OnItsWay(r, calls[r], s)'
  BY <1>1, <2>3, <2>4, <2>5 DEF OnItsWay
<2>7. OneBatch(c, calls, s)'
  BY <1>1, <2>3, <2>5, <2>6 DEF OneBatch
<2>8. SamePosition(c, s)' /\ OwnCalls(c, calls)' /\ Ended(c, calls)'
  BY <2>1, <2>3 DEF InPeace, SamePosition, OwnCalls, Ended
<2>9. InPeace(c, calls, s)'
  BY <2>1, <2>3, <2>7, <2>8 DEF InPeace
<2> QED BY <2>9 DEF Peace
<1> QED BY <1>2, NotCalm

(* A call of the page is answered.                                         *)
LEMMA Answered ==
  ASSUME ClientInv, NEW r \in Req, calls[r].mine, NEW reply, Answer(r, reply)
  PROVE  /\ calls'[r].mine /\ calls'[r].phase = "answered" /\ calls'[r].reply = reply
         /\ calls'[r].kind = calls[r].kind /\ calls'[r].len = calls[r].len
         /\ calls'[r].dirs = calls[r].dirs
         /\ \A q \in Req \ {r} : calls'[q] = calls[q]
<1>1. calls \in Calls /\ calls[r] \in ApiCall
  BY PageNow DEF Calls
<1> DEFINE call == [calls[r] EXCEPT !.phase = "answered", !.reply = reply]
<1>2. /\ call.mine /\ call.phase = "answered" /\ call.reply = reply
      /\ call.kind = calls[r].kind /\ call.len = calls[r].len /\ call.dirs = calls[r].dirs
  BY <1>1 DEF ApiCall
<1>3. calls' = [calls EXCEPT ![r] = call]
  BY <1>1 DEF Answer, Calls
<1> HIDE DEF call
<1>4. calls'[r] = call /\ \A q \in Req \ {r} : calls'[q] = calls[q]
  BY <1>1, <1>3 DEF Calls
<1> QED BY <1>2, <1>4

(* /api/games/move appends what it has accepted: the log it read is still  *)
(* the stored one.                                                         *)
LEMMA ServeAppendPeace ==
  ASSUME NoGameIsNoState, TypeInv, ClientInv, Peace, NEW r \in Req, ServeAppend(r), UNCHANGED <<c, calm>>
  PROVE  Peace'
<1> DEFINE none == <<>>
<1>1. /\ calls[r].phase = "sent" /\ calls[r].kind = "move" /\ At(r, "append")
      /\ MoveAppend(r)
      /\ Answer(r, IF Appendable(r) THEN Ok(NoGame, Len(req[r].log)) ELSE Refused)
  BY DEF ServeAppend, Sent, MoveAppend
<1>2. CASE calm
<2>1. PICK s \in Seq(Dir) : InPeace(c, calls, s)
  BY <1>2 DEF Peace
<2> DEFINE log == game.log
           longer == log \o s
           turns == Turns(c.queue)
<2>2. /\ c.inFlight /\ calls[r].mine /\ ~game.finished
      /\ \A q \in Req \ {r} : calls[q].kind # "move"
      /\ \A q \in Req : calls[q].kind # "submit"
      /\ calls[r].dirs = s /\ calls[r].len = Len(log)
      /\ req[r].game = game /\ req[r].log = longer
  BY <1>1, <2>1, BatchIn DEF OnItsWay
<2>3. game \in Game /\ game # NoGame /\ log \in Seq(Dir)
  BY <2>1 DEF InPeace, Game
<2>4. Appendable(r)
  BY <2>2, <2>3 DEF Appendable
<2>5. longer \in Seq(Dir) /\ Len(longer) = Len(log) + Len(s) /\ Len(log) \in Nat /\ Len(s) \in Nat
  BY <2>3, JoinedTwo
<2>6. turns \in Seq(Dir)
  BY PageNow, TurnsType
<2>7. /\ game' \in Game /\ game'.log = longer /\ game'.seed = game.seed /\ ~game'.finished
<3>1. game' = [game EXCEPT !.log = longer]
  BY <1>1, <2>2, <2>4 DEF MoveAppend
<3> HIDE DEF longer
<3> QED BY <2>2, <2>3, <2>5, <3>1 DEF Game
<2>8. game' # NoGame
  BY <2>7 DEF NoGameIsNoState
<2>9. /\ calls'[r].mine /\ calls'[r].phase = "answered"
      /\ calls'[r].reply = Ok(NoGame, Len(longer))
      /\ calls'[r].kind = "move" /\ calls'[r].len = Len(log) /\ calls'[r].dirs = s
      /\ \A q \in Req \ {r} : calls'[q] = calls[q]
  BY <1>1, <2>2, <2>4, Answered
<2>10. AsExpected(calls'[r])
<3>1. Ok(NoGame, Len(longer)).status = "ok" /\ Ok(NoGame, Len(longer)).len = Len(longer)
  BY DEF Ok
<3> HIDE DEF longer, log
<3> QED BY <2>5, <2>9, <3>1 DEF AsExpected
<2> HIDE DEF none, longer, log, turns
<2>11. OneBatch(c, calls, none)'
<3>1. OnItsWay(r, calls[r], none)'
  BY <2>9, <2>10 DEF OnItsWay, none
<3> QED BY <2>2, <2>9, <3>1 DEF OneBatch
<2>12. OwnCalls(c, calls)' /\ Ended(c, calls)'
<3>1. \A q \in Req : calls[q] = NoCall \/ (calls[q].mine /\ calls[q].kind \in {"move", "submit"})
  BY <2>1 DEF InPeace, OwnCalls
<3>2. \A q \in Req : calls'[q].kind # "submit"
  BY <2>2, <2>9
<3> QED BY <2>7, <2>9, <3>1, <3>2 DEF OwnCalls, Ended
<2>13. SamePosition(c, none)'
<3>1. /\ c.seed = game.seed /\ c.over = Over(c.seed, c.log) /\ c.log = longer \o turns
      /\ Len(c.queue) <= MaxBatch
      /\ Plays(c.seed, c.log, Len(log))
      /\ \A i \in 1 .. Len(c.queue) : c.queue[i].len = Len(log) + Len(s) + i - 1
  BY <2>1 DEF InPeace, SamePosition, longer, log, turns
<3>2. longer \o turns = longer \o none \o turns
  BY <2>5, <2>6 DEF none
<3>3. Plays(c.seed, c.log, Len(longer))
<4>1. Len(longer) \in Nat /\ Len(log) <= Len(longer)
  BY <2>5
<4> QED BY <2>5, <2>6, <3>1, <4>1, PlaysPart
<3>4. \A i \in 1 .. Len(c.queue) : c.queue[i].len = Len(longer) + Len(none) + i - 1
<4>1. Len(none) = 0
  BY DEF none
<4> QED BY <2>5, <3>1, <4>1
<3> QED BY <2>7, <3>1, <3>2, <3>3, <3>4 DEF SamePosition, turns
<2>14. InPeace(c, calls, none)' /\ none \in Seq(Dir)
<3>1. none \in Seq(Dir)
  BY DEF none
<3> QED BY <2>7, <2>8, <2>11, <2>12, <2>13, <3>1 DEF InPeace
<2> QED BY <2>14 DEF Peace
<1> QED BY <1>2, NotCalm

(* /api/scores/submit works on a game to which nothing is added any more.  *)
LEMMA ServeSubmitPeace ==
  ASSUME NoGameIsNoState, TypeInv, ClientInv, Peace, NEW r \in Req, ServeSubmit(r),
         UNCHANGED <<c, calm>>
  PROVE  Peace'
<1>1. calls[r].phase = "sent" /\ calls[r].kind = "submit"
  BY DEF ServeSubmit, Sent
<1>2. CASE calm
<2>1. PICK s \in Seq(Dir) : InPeace(c, calls, s)
  BY <1>2 DEF Peace
<2>2. /\ c.over /\ ~c.inFlight /\ c.queue = <<>> /\ c.submitting /\ s = <<>>
      /\ calls[r].mine
      /\ \A q \in Req : calls[q].kind # "move"
      /\ \A q \in Req \ {r} : calls[q] = NoCall
  BY <1>1, <2>1, SubmitIn
<2>3. /\ game' \in Game /\ game' # NoGame /\ game'.log = game.log /\ game'.seed = game.seed
<3>1. game' = game \/ game' = [game EXCEPT !.finished = TRUE]
  BY DEF ServeSubmit, SubmitRead, SubmitFinish, SubmitUpsert, vars
<3>2. game \in Game
  BY <2>1 DEF InPeace
<3>3. /\ [game EXCEPT !.finished = TRUE] \in Game
      /\ [game EXCEPT !.finished = TRUE].log = game.log
      /\ [game EXCEPT !.finished = TRUE].seed = game.seed
  BY <3>2 DEF Game
<3> QED BY <3>1, <3>2, <3>3 DEF NoGameIsNoState
<2>4. /\ calls'[r].mine /\ calls'[r].kind = "submit"
      /\ \A q \in Req \ {r} : calls'[q] = NoCall
<3>1. CASE UNCHANGED calls
  BY <1>1, <2>2, <3>1
<3>2. ASSUME NEW reply, Answer(r, reply)
      PROVE  calls'[r].mine /\ calls'[r].kind = "submit" /\ \A q \in Req \ {r} : calls'[q] = NoCall
  BY <1>1, <2>2, <3>2, Answered
<3> QED BY <3>1, <3>2 DEF ServeSubmit
<2>5. SamePosition(c, s)'
  BY <2>1, <2>3 DEF InPeace, SamePosition
<2>6. OwnCalls(c, calls)' /\ Ended(c, calls)'
  BY <2>2, <2>4, NoCallType DEF OwnCalls, Ended
<2>7. OneBatch(c, calls, s)'
  BY <2>2, <2>4, NoCallType DEF OneBatch
<2>8. InPeace(c, calls, s)'
  BY <2>3, <2>5, <2>6, <2>7 DEF InPeace
<2> QED BY <2>8 DEF Peace
<1> QED BY <1>2, NotCalm

(* No other handler is at work in peace.                                   *)
LEMMA ServePeace ==
  ASSUME NoGameIsNoState, TypeInv, ClientInv, Peace, NEW r \in Req, Serve(r)
  PROVE  Peace'
<1>1. UNCHANGED <<c, calm>>
  BY DEF Serve
<1>2. CASE ServeState(r) \/ ServeStart(r) \/ ServeUndo(r)
<2>1. calls[r].kind \in StateKind \cup StartKind \cup {"undo"}
  BY <1>2 DEF ServeState, ServeStart, ServeUndo, Sent
<2> QED BY <1>1, <2>1, NoOtherReply DEF StateKind, StartKind
<1> QED BY <1>1, <1>2, ServeMovePeace, ServeAppendPeace, ServeSubmitPeace DEF Serve

(* A page that has just been opened claims nothing.                        *)
LEMMA PeaceInit == ClientInit => Peace
BY DEF ClientInit, Peace

(* Every step keeps the peace, or breaks it openly.                        *)
LEMMA PeaceNext ==
  ASSUME NoGameIsNoState, TypeInv, ClientInv, Peace, [ClientNext]_allVars
  PROVE  Peace'
<1>1. CASE UNCHANGED allVars
<2>1. game' = game /\ req' = req /\ c' = c /\ calls' = calls /\ calm' = calm
  BY <1>1 DEF allVars, vars, pageVars
<2>2. CASE calm
<3>1. PICK s \in Seq(Dir) : InPeace(c, calls, s)
  BY <2>2 DEF Peace
<3>2. InPeace(c', calls', s)
  BY <2>1, <3>1
<3> QED BY <2>1, <3>2, PageNow, PeaceSame
<2> QED BY <2>1, <2>2, NotCalm
<1>2. ASSUME NEW d \in Dir, Play(d) PROVE Peace'
  BY <1>2, PlayPeace
<1>3. CASE StartFresh \/ TriggerUndo \/ Reload \/ Disturb
<2>1. Trouble
  BY <1>3 DEF StartFresh, TriggerUndo, Reload, Disturb
<2> QED BY <2>1, NotCalm DEF Trouble
<1>4. ASSUME NEW r \in Req, On(r) PROVE Peace'
  BY <1>4, OnLoadPeace, OnFreshOrResyncPeace, OnMovePeace, OnUndoPeace, OnSubmitPeace DEF On
<1>5. ASSUME NEW r \in Req, Serve(r) PROVE Peace'
  BY <1>5, ServePeace
<1> QED BY <1>1, <1>2, <1>3, <1>4, <1>5 DEF ClientNext

-----------------------------------------------------------------------------
(***************************************************************************)
(* The theorems.                                                           *)
(***************************************************************************)

(* What the peace means for the log the page shows, and for the score.     *)
LEMMA PeaceInStep ==
  ASSUME ClientInv, Peace
  PROVE  InStep
<1> SUFFICES ASSUME calm
             PROVE  /\ game # NoGame /\ c.seed = game.seed
                    /\ c.log = game.log \o Unapplied \o Queued
                    /\ Cardinality(Mine("move")) = IF c.inFlight THEN 1 ELSE 0
  BY DEF InStep
<1>1. PICK s \in Seq(Dir) : InPeace(c, calls, s)
  BY DEF Peace
<1>2. game # NoGame /\ c.seed = game.seed /\ c.log = game.log \o s \o Turns(c.queue)
  BY <1>1 DEF InPeace, SamePosition
<1>3. Queued = Turns(c.queue)
  BY DEF Queued, Turns
<1>4. Unapplied = s /\ Cardinality(Mine("move")) = IF c.inFlight THEN 1 ELSE 0
<2>1. CASE \A r \in Req : calls[r].kind # "move"
<3>1. Mine("move") = {}
  BY <2>1 DEF Mine
<3>2. ~c.inFlight /\ s = <<>>
  BY <1>1, <2>1 DEF InPeace, OneBatch
<3> QED BY <3>1, <3>2, FS_EmptySet DEF Unapplied
<2>2. ASSUME NEW r \in Req, calls[r].kind = "move"
      PROVE  Unapplied = s /\ Cardinality(Mine("move")) = IF c.inFlight THEN 1 ELSE 0
<3>1. /\ c.inFlight /\ OnItsWay(r, calls[r], s) /\ calls[r].mine
      /\ \A q \in Req \ {r} : calls[q].kind # "move"
  BY <1>1, <2>2, BatchIn
<3>2. Mine("move") = {r}
  BY <2>2, <3>1 DEF Mine
<3>3. Cardinality({r}) = 1
  BY FS_Singleton
<3>4. CASE calls[r].phase = "sent"
<4>1. {q \in Mine("move") : calls[q].phase = "sent"} = {r}
  BY <3>2, <3>4
<4>2. calls[r].dirs = s
  BY <3>1, <3>4 DEF OnItsWay
<4>3. (CHOOSE q \in {r} : TRUE) = r
  OBVIOUS
<4> QED BY <3>1, <3>2, <3>3, <4>1, <4>2, <4>3 DEF Unapplied
<3>5. CASE calls[r].phase # "sent"
<4>1. {q \in Mine("move") : calls[q].phase = "sent"} = {}
  BY <3>2, <3>5
<4>2. s = <<>>
  BY <3>1, <3>5 DEF OnItsWay
<4> QED BY <3>1, <3>2, <3>3, <4>1, <4>2 DEF Unapplied
<3> QED BY <3>4, <3>5
<2> QED BY <2>1, <2>2
<1> QED BY <1>2, <1>3, <1>4

LEMMA PeaceSubmits ==
  ASSUME ClientInv, Peace
  PROVE  SubmitAfterKillingMove
<1> SUFFICES ASSUME calm, Mine("submit") # {}
             PROVE  /\ Over(game.seed, game.log) /\ c.log = game.log
                    /\ Cardinality(Mine("submit")) = 1 /\ ~c.inFlight
  BY DEF SubmitAfterKillingMove
<1>1. PICK s \in Seq(Dir) : InPeace(c, calls, s)
  BY DEF Peace
<1>2. PICK r \in Req : calls[r].mine /\ calls[r].kind = "submit"
  BY DEF Mine
<1>3. /\ c.over /\ ~c.inFlight /\ c.queue = <<>> /\ s = <<>>
      /\ \A q \in Req \ {r} : calls[q] = NoCall
  BY <1>1, <1>2, SubmitIn
<1>4. Mine("submit") = {r}
  BY <1>2, <1>3, NoCallType DEF Mine
<1>5. c.log = game.log
<2>1. Turns(c.queue) = <<>> /\ game.log \in Seq(Dir)
  BY <1>1, <1>3, PageNow, TurnsType DEF InPeace, Game
<2>2. game.log \o <<>> \o <<>> = game.log
  BY <2>1
<2> QED BY <1>1, <1>3, <2>1, <2>2 DEF InPeace, SamePosition
<1>6. Over(game.seed, game.log)
  BY <1>1, <1>3, <1>5 DEF InPeace, SamePosition
<1> QED BY <1>3, <1>4, <1>5, <1>6, FS_Singleton

(* The inductive invariant.                                                *)
PeaceInvs == ClientInvs /\ Peace

(* The inductive invariant holds: whenever nothing has gone wrong since    *)
(* the page took over the server's state, page, calls and API are in peace *)
(* (App.tsx: apply, drainQueue, postMove, trySubmit; index.ts:             *)
(* /api/games/move).                                                       *)
THEOREM PeaceCorrect ==
  ASSUME ScoresAreNumbers, NoGameIsNoState
  PROVE  ClientSpec => []PeaceInvs
<1>1. ClientInit => PeaceInvs
  BY ClientInitTypes, PeaceInit DEF ClientInvs, PeaceInvs
<1>2. PeaceInvs /\ [ClientNext]_allVars => PeaceInvs'
  BY ClientNextTypes, ClientRefines, TypeNext, PeaceNext DEF ClientInvs, PeaceInvs
<1> QED BY <1>1, <1>2, PTL DEF ClientSpec

(* In peace the page shows the server's log, the batch on its way and the  *)
(* queue, in this order: no move is lost, doubled, reordered or refused    *)
(* (App.tsx, drainQueue and postMove, against the append of gameStore.ts). *)
THEOREM InStepCorrect ==
  ASSUME ScoresAreNumbers, NoGameIsNoState
  PROVE  ClientSpec => []InStep
<1>1. PeaceInvs => InStep
  BY PeaceInStep DEF PeaceInvs, ClientInvs
<1> QED BY <1>1, PeaceCorrect, PTL

(* In peace the score is submitted after the killing move has been         *)
(* appended, and once (App.tsx, trySubmit).                                *)
THEOREM SubmitCorrect ==
  ASSUME ScoresAreNumbers, NoGameIsNoState
  PROVE  ClientSpec => []SubmitAfterKillingMove
<1>1. PeaceInvs => SubmitAfterKillingMove
  BY PeaceSubmits DEF PeaceInvs, ClientInvs
<1> QED BY <1>1, PeaceCorrect, PTL
================================================================================
