-------------------------------- MODULE Scores --------------------------------
(***************************************************************************)
(* The share cards of apps/api/src/index.ts, drawn from the rows that      *)
(* submits write, behind the rate limiter, next to the leaderboard.        *)
(***************************************************************************)
EXTENDS Leaderboard, RateLimiter

CONSTANT ShareId   \* ids newShareId may draw; a create that finds none left waits (a bound)

ASSUME ScoresAssumption == Caller \subseteq Player

VARIABLES
  shares,    \* Postgres: shares
  objects    \* the object storage: shares/<id>.png, by what is drawn on it

shareVars == <<shares, objects>>
vars == <<board, cache, req, limiterVars, shareVars>>

Card == [player : Player, score : Nat, rank : Nat \ {0}]

Kind == {"preview", "create"}

Asking == [pc : {"expire", "snapshot"}, player : Caller, kind : Kind, card : {Nothing}, id : {Nothing}]
Drawing == [pc : {"rank", "upload"}, player : Caller, kind : Kind, card : Card, id : {Nothing}]
Storing == [pc : {"insert"}, player : Caller, kind : Kind, card : Card, id : ShareId]

ApiRequest ==
  {Idle} \cup Reading \cup Submitting \cup Sweeping \cup Asking \cup Drawing \cup Storing

Init ==
  /\ LeaderboardInit
  /\ LimiterInit
  /\ shares = [i \in ShareId |-> Nothing]
  /\ objects = [i \in ShareId |-> Nothing]

Continue(r, pc) == req' = [req EXCEPT ![r].pc = pc]

-----------------------------------------------------------------------------
(***************************************************************************)
(* rateLimit at the head of both handlers.                                 *)
(***************************************************************************)
NewSharing(p, kind, pc) == [pc |-> pc, player |-> p, kind |-> kind, card |-> Nothing, id |-> Nothing]

ShareIncr(r, p, kind) ==
  /\ Incr(p)
  /\ \/ /\ OpensWindow(Counted(p))
        /\ Begin(r, NewSharing(p, kind, "expire"))
     \/ /\ ~OpensWindow(Counted(p)) /\ WithinLimit(Counted(p))
        /\ Begin(r, NewSharing(p, kind, "snapshot"))
     \/ /\ ~WithinLimit(Counted(p))
        /\ At(r, "idle") /\ UNCHANGED req
  /\ UNCHANGED <<board, cache, shareVars>>

ShareExpire(r) ==
  /\ At(r, "expire")
  /\ Expire(req[r].player)
  /\ Continue(r, "snapshot")
  /\ UNCHANGED <<board, cache, shareVars>>

(* It fails open.                                                          *)
LimiterFails(r) ==
  /\ CacheFails
  /\ \/ /\ \E p \in Caller, kind \in Kind : Begin(r, NewSharing(p, kind, "snapshot"))
        /\ UNCHANGED limiterVars
     \/ \E p \in Caller, kind \in Kind :
          IncrUnnoticed(p) /\ Begin(r, NewSharing(p, kind, "snapshot"))
     \/ /\ At(r, "expire")
        /\ Orphan(req[r].player)
        /\ Continue(r, "snapshot")
  /\ UNCHANGED <<board, cache, shareVars>>

-----------------------------------------------------------------------------
(***************************************************************************)
(* POST /api/share/preview and /api/share/create                           *)
(***************************************************************************)
LoadShareSnapshot(r) ==
  /\ At(r, "snapshot")
  /\ \/ /\ RowOf(req[r].player) = {}
        /\ Return(r)
     \/ \E i \in RowOf(req[r].player) :
          req' = [req EXCEPT ![r].pc = "rank",
                             ![r].card = [player |-> req[r].player, score |-> board[i].final, rank |-> 1]]
  /\ UNCHANGED <<board, cache, limiterVars, shareVars>>

RankForScore(s) == Cardinality({i \in DOMAIN board : board[i].score > s}) + 1

(* The preview ends here, with the card in its reply.                      *)
RankCard(r) ==
  /\ At(r, "rank")
  /\ \/ /\ req[r].kind = "preview"
        /\ Return(r)
     \/ /\ req[r].kind = "create"
        /\ req' = [req EXCEPT ![r].pc = "upload", ![r].card.rank = RankForScore(req[r].card.score)]
  /\ UNCHANGED <<board, cache, limiterVars, shareVars>>

NewShareId ==
  {i \in ShareId : /\ shares[i] = Nothing /\ objects[i] = Nothing
                   /\ \A r \in Req : At(r, "insert") => req[r].id # i}

UploadNotAwaited(r) ==
  /\ At(r, "upload")
  /\ \E i \in NewShareId : req' = [req EXCEPT ![r].pc = "insert", ![r].id = i]
  /\ UNCHANGED <<board, cache, limiterVars, shareVars>>

UploadCard(r) ==
  /\ At(r, "upload")
  /\ \E i \in NewShareId :
       /\ objects' = [objects EXCEPT ![i] = req[r].card]
       /\ req' = [req EXCEPT ![r].pc = "insert", ![r].id = i]
  /\ UNCHANGED <<board, cache, limiterVars, shares>>

InsertShare(r) ==
  /\ At(r, "insert")
  /\ shares' = [shares EXCEPT ![req[r].id] = req[r].card]
  /\ Return(r)
  /\ UNCHANGED <<board, cache, limiterVars, objects>>

SharingDies(r) ==
  /\ RequestDies(r)
  /\ IF At(r, "expire") THEN Orphan(req[r].player) ELSE UNCHANGED limiterVars
  /\ UNCHANGED shareVars

-----------------------------------------------------------------------------
Step(r) ==
  \/ LeaderboardStep(r) /\ UNCHANGED <<limiterVars, shareVars>>
  \/ ShareExpire(r) \/ LoadShareSnapshot(r) \/ RankCard(r) \/ UploadCard(r) \/ InsertShare(r)

Fails(r) ==
  \/ SweepFails(r) /\ UNCHANGED <<limiterVars, shareVars>>
  \/ LimiterFails(r)
  \/ SharingDies(r)

Next ==
  \/ \E r \in Req : \/ \E n \in Page : ReadCache(r, n) /\ UNCHANGED <<limiterVars, shareVars>>
                    \/ \E result \in Results :
                         SelectExisting(r, result) /\ UNCHANGED <<limiterVars, shareVars>>
                    \/ \E p \in Caller, kind \in Kind : ShareIncr(r, p, kind)
                    \/ Step(r)
                    \/ Fails(r)
  \/ \E n \in Page : ExpirePage(n) /\ UNCHANGED <<limiterVars, shareVars>>
  \/ \E p \in Caller : WindowEnds(p) /\ UNCHANGED <<board, cache, req, shareVars>>

Spec == Init /\ [][Next]_vars

(* A handler that has begun runs on, and Redis drops the keys whose time   *)
(* is up.                                                                  *)
Fairness ==
  /\ \A r \in Req : WF_vars(Step(r))
  /\ \A n \in Page : WF_vars(ExpirePage(n) /\ UNCHANGED <<limiterVars, shareVars>>)
  /\ \A p \in Caller : WF_vars(WindowEnds(p) /\ UNCHANGED <<board, cache, req, shareVars>>)

FairSpec == Spec /\ Fairness

-----------------------------------------------------------------------------
(* Every variable holds what the code can put there.                       *)
TypeOK ==
  /\ LeaderboardTypeOK
  /\ LimiterTypeOK
  /\ req \in [Req -> ApiRequest]
  /\ shares \in [ShareId -> Card \cup {Nothing}]
  /\ objects \in [ShareId -> Card \cup {Nothing}]

(* What GET /share-image/:id streams and what GET /share/:id tells.        *)
ShareImage(i) == objects[i]
SharePage(i) == shares[i]

(* A share page in the world always finds its image, and the image says    *)
(* what the page says (index.ts, the upload comes before the insert).      *)
ShareHasImage ==
  \A i \in ShareId : SharePage(i) # Nothing => ShareImage(i) = SharePage(i)
===============================================================================
