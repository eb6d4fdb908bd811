--------------------------- MODULE DeliveryProofs ---------------------------
(***************************************************************************)
(* Proofs about the delivery queue.  Sound says what a worker knows of the *)
(* row it works on, and what the receipt of a row says; GoesOn is what     *)
(* every step but a claim does to the parts that Sound reads.  Budget      *)
(* counts the requests a row may still cause.                              *)
(***************************************************************************)
EXTENDS DeliveryProperties, FiniteSetTheorems, TLAPS

\* Whoever works has a row that was enqueued.
AtWork ==
  \A w \in Workers :
    worker[w].pc # "idle" =>
      worker[w].row \in Rows /\ queue[worker[w].row].status # "new"

\* The worker that owns a row knows its attempts.
Current ==
  \A w \in Workers :
    worker[w].pc # "idle" /\ Owns(w) => worker[w].attempts = queue[worker[w].row].attempts

HasAttempt == \A w \in Workers : worker[w].pc = "claimed" => worker[w].attempts < MaxAttempts

\* A success that was heard is true, and so is one in process.
Heard ==
  /\ \A w \in Workers :
       worker[w].pc = "answered" /\ worker[w].answer = "ok" =>
         receipt[worker[w].row] = "accepted"
  /\ \A r \in Rows : inProcess[r] = "mark" => receipt[r] = "accepted"

\* Before a row is enqueued nothing is known of it.
Fresh ==
  \A r \in Rows :
    queue[r].status = "new" => inProcess[r] = "none" /\ strays[r] = 0 /\ granted[r] = 0

\* The effects of an activity are those of its receipt.
Once == \A r \in Rows : effects[r] = IF receipt[r] = "accepted" THEN 1 ELSE 0

Sound == TypeOK /\ AtWork /\ Current /\ HasAttempt /\ Heard /\ Fresh /\ Once

\* The types of what only single steps change.
RestTyped ==
  /\ health \in [Domains -> [failures : 0 .. Threshold, week : BOOLEAN]]
  /\ asked \subseteq Rows
  /\ inProcess \in [Rows -> {"none", "todo", "mark"}]
  /\ strays \in [Rows -> 0 .. scenario.strays]
  /\ sends \in [Rows -> Nat]
  /\ granted \in [Rows -> Nat]
  /\ scenario \in Scenarios
  /\ faults \in 0 .. scenario.faults
  /\ retries \in 0 .. scenario.retries

(***************************************************************************)
(* What a step does to a row, a worker and a receipt.                      *)
(***************************************************************************)
Same(r) ==
  /\ queue'[r].status = queue[r].status
  /\ queue'[r].attempts = queue[r].attempts
  /\ queue'[r].lease = queue[r].lease

Settled(r) ==
  /\ queue'[r].status \notin {"new", "delivering"}
  /\ queue'[r].status = "pending" => queue'[r].attempts < MaxAttempts

RowsGoOn == queue' \in [Rows -> Items] /\ \A r \in Rows : Same(r) \/ Settled(r)

TaskGoesOn(w) ==
  \/ worker'[w] = worker[w]
  \/ worker'[w] = Idle
  \/ /\ worker[w].pc # "idle" /\ worker'[w].pc \notin {"idle", "claimed"}
     /\ worker'[w].row = worker[w].row /\ worker'[w].attempts = worker[w].attempts
     /\ worker'[w].pc = "answered" /\ worker'[w].answer = "ok" =>
          receipt'[worker[w].row] = "accepted"

WorkersGoOn == worker' \in [Workers -> Tasks] /\ \A w \in Workers : TaskGoesOn(w)

ReceiptGoesOn(r) ==
  \/ receipt'[r] = receipt[r] /\ effects'[r] = effects[r]
  \/ receipt[r] = "none" /\ receipt'[r] = "accepted" /\ effects'[r] = effects[r] + 1
  \/ receipt[r] = "none" /\ receipt'[r] = "rejected" /\ effects'[r] = effects[r]

ReceiptsGoOn ==
  /\ receipt' \in [Rows -> {"none", "accepted", "rejected"}]
  /\ effects' \in [Rows -> Nat]
  /\ \A r \in Rows : ReceiptGoesOn(r)

MarksTrue ==
  \A r \in Rows : inProcess'[r] = "mark" => inProcess[r] = "mark" \/ receipt'[r] = "accepted"

FreshKept ==
  \A r \in Rows :
    queue'[r].status = "new" =>
      /\ queue[r].status = "new" /\ inProcess'[r] = inProcess[r]
      /\ strays'[r] = strays[r] /\ granted'[r] = granted[r]

GoesOn == RowsGoOn /\ WorkersGoOn /\ ReceiptsGoOn /\ MarksTrue /\ FreshKept /\ RestTyped'

LEMMA GoesOnKeepsSound == Sound /\ GoesOn => Sound'
<1> SUFFICES ASSUME Sound, GoesOn PROVE Sound'
    OBVIOUS
<1> USE LimitAssumption
<1>1. TypeOK'
  BY DEF Sound, TypeOK, GoesOn, RowsGoOn, Same, Settled, WorkersGoOn, ReceiptsGoOn, RestTyped
<1>2. AtWork'
  BY DEF Sound, TypeOK, AtWork, GoesOn, RowsGoOn, Same, Settled, WorkersGoOn, TaskGoesOn,
         Idle, Tasks, Items
<1>3. Current'
  BY <1>2 DEF Sound, TypeOK, AtWork, Current, Owns, GoesOn, RowsGoOn, Same, Settled, WorkersGoOn,
         TaskGoesOn, Idle, Tasks, Items
<1>4. HasAttempt'
  BY DEF Sound, TypeOK, HasAttempt, GoesOn, WorkersGoOn, TaskGoesOn, Idle, Tasks
<1>5. Heard'
  <2>1. ASSUME NEW r \in Rows, receipt[r] = "accepted" PROVE receipt'[r] = "accepted"
    BY <2>1 DEF GoesOn, ReceiptsGoOn, ReceiptGoesOn
  <2> QED
    BY <2>1 DEF Sound, TypeOK, AtWork, Heard, GoesOn, WorkersGoOn, TaskGoesOn, MarksTrue, Idle, Tasks
<1>6. Fresh'
  BY DEF Sound, Fresh, GoesOn, FreshKept
<1>7. Once'
  BY DEF Sound, TypeOK, Once, GoesOn, ReceiptsGoOn, ReceiptGoesOn
<1> QED
  BY <1>1, <1>2, <1>3, <1>4, <1>5, <1>6, <1>7 DEF Sound

(***************************************************************************)
(* Every step but a claim goes on.  A step that leaves a part alone goes   *)
(* on there.                                                               *)
(***************************************************************************)
LEMMA RowsAlone == Sound /\ UNCHANGED queue => RowsGoOn
BY DEF Sound, TypeOK, RowsGoOn, Same

LEMMA WorkersAlone == Sound /\ UNCHANGED worker => WorkersGoOn
BY DEF Sound, TypeOK, WorkersGoOn, TaskGoesOn

LEMMA ReceiptsAlone == Sound /\ UNCHANGED peerVars => ReceiptsGoOn
BY DEF Sound, TypeOK, ReceiptsGoOn, ReceiptGoesOn, peerVars

LEMMA ItemTyped ==
  ASSUME NEW status \in Statuses, NEW attempts \in Nat
  PROVE  /\ Item(status, attempts) \in Items
         /\ Item(status, attempts).status = status
         /\ Item(status, attempts).attempts = attempts
         /\ Item(status, attempts).cancelled = FALSE
         /\ [Item(status, attempts) EXCEPT !.cancelled = TRUE] \in Items
         /\ [Item(status, attempts) EXCEPT !.cancelled = TRUE].status = status
         /\ [Item(status, attempts) EXCEPT !.cancelled = TRUE].attempts = attempts
BY DEF Item, Items

LEMMA IdleTyped == Idle \in Tasks /\ Idle.pc = "idle"
BY DEF Idle, Tasks

\* What a settled row may be.
Fits(item) ==
  /\ item \in Items /\ item.status \notin {"new", "delivering"}
  /\ item.status = "pending" => item.attempts < MaxAttempts

LEMMA ItemsFit ==
  ASSUME NEW attempts \in Nat
  PROVE  /\ Fits(Item("dead", attempts)) /\ Fits(Item("delivered", attempts))
         /\ Fits([Item("dead", attempts) EXCEPT !.cancelled = TRUE])
         /\ attempts < MaxAttempts => Fits(Item("pending", attempts))
         /\ Fits(Again(attempts))
<1>1. /\ Fits(Item("dead", attempts)) /\ Fits(Item("delivered", attempts))
      /\ Fits([Item("dead", attempts) EXCEPT !.cancelled = TRUE])
  <2>1. {"dead", "delivered"} \subseteq Statuses
    BY DEF Statuses
  <2>2. Fits(Item("dead", attempts)) /\ Fits(Item("delivered", attempts))
    BY <2>1, ItemTyped DEF Fits
  <2>3. Fits([Item("dead", attempts) EXCEPT !.cancelled = TRUE])
    BY <2>1, ItemTyped DEF Fits
  <2> QED
    BY <2>2, <2>3
<1>2. attempts < MaxAttempts => Fits(Item("pending", attempts))
  BY ItemTyped DEF Fits, Statuses
<1>3. Fits(Again(attempts))
  BY <1>1, <1>2, LimitAssumption DEF Again
<1> QED
  BY <1>1, <1>2, <1>3

LEMMA FirstFits == Fits(Item("pending", 0)) /\ Item("pending", 0).status = "pending"
BY LimitAssumption DEF Fits, Item, Items, Statuses

\* A settlement with any item that may stand for a row.
LEMMA SettleGoesOn ==
  ASSUME Sound, NEW w \in Workers, worker[w].pc # "idle", NEW item, Fits(item), Settle(w, item)
  PROVE  /\ RowsGoOn /\ WorkersGoOn
         /\ \A r \in Rows : queue'[r].status = "new" => queue[r].status = "new"
<1>1. worker[w].row \in Rows
  BY DEF Sound, AtWork
<1>2. RowsGoOn /\ \A r \in Rows : queue'[r].status = "new" => queue[r].status = "new"
  BY <1>1 DEF Sound, TypeOK, Settle, RowsGoOn, Same, Settled, Fits
<1>3. WorkersGoOn
  BY IdleTyped DEF Sound, TypeOK, Settle, Finish, WorkersGoOn, TaskGoesOn
<1> QED
  BY <1>2, <1>3

LEMMA ExpireGoesOn ==
  ASSUME Sound, NEW r \in Rows, Expire(r)
  PROVE  GoesOn
<1> USE DEF ownerVars, peerVars, historyVars, boundVars
<1>1. RowsGoOn
  <2>1. /\ queue \in [Rows -> Items] /\ queue[r] \in Items
        /\ queue' = [queue EXCEPT ![r] = [queue[r] EXCEPT !.expired = TRUE]]
    BY DEF Sound, TypeOK, Expire
  <2>2. [queue[r] EXCEPT !.expired = TRUE] \in Items
    BY <2>1 DEF Items
  <2>3. queue' \in [Rows -> Items]
    BY <2>1, <2>2
  <2>4. \A q \in Rows : Same(q)
    BY <2>1 DEF Items, Same
  <2> QED
    BY <2>3, <2>4 DEF RowsGoOn
<1>2. WorkersGoOn
  BY WorkersAlone DEF Expire
<1>3. ReceiptsGoOn
  BY ReceiptsAlone DEF Expire
<1>4. MarksTrue
  BY DEF MarksTrue, Expire
<1>5. FreshKept
  BY DEF Sound, TypeOK, FreshKept, Items, Expire
<1>6. RestTyped'
  BY ScenarioAssumption DEF Sound, TypeOK, RestTyped, Fault, Expire
<1> QED
  BY <1>1, <1>2, <1>3, <1>4, <1>5, <1>6 DEF GoesOn

LEMMA RenewGoesOn ==
  ASSUME Sound, NEW w \in Workers, Renew(w)
  PROVE  GoesOn
<1> USE DEF ownerVars, peerVars, historyVars, boundVars
<1>a. worker[w].row \in Rows
  BY DEF Sound, AtWork, Renew
<1>1. RowsGoOn
  <2>1. /\ queue \in [Rows -> Items] /\ queue[worker[w].row] \in Items
        /\ queue' = [queue EXCEPT ![worker[w].row] = [queue[worker[w].row] EXCEPT !.expired = FALSE]]
    BY <1>a DEF Sound, TypeOK, Renew
  <2>2. [queue[worker[w].row] EXCEPT !.expired = FALSE] \in Items
    BY <2>1 DEF Items
  <2>3. queue' \in [Rows -> Items]
    BY <2>1, <2>2
  <2>4. \A q \in Rows : Same(q)
    BY <2>1 DEF Items, Same
  <2> QED
    BY <2>3, <2>4 DEF RowsGoOn
<1>2. WorkersGoOn
  BY WorkersAlone DEF Renew
<1>3. ReceiptsGoOn
  BY ReceiptsAlone DEF Renew
<1>4. MarksTrue
  BY DEF MarksTrue, Renew
<1>5. FreshKept
  BY <1>a DEF Sound, TypeOK, FreshKept, Items, Renew
<1>6. RestTyped'
  BY DEF Sound, TypeOK, RestTyped, Renew
<1> QED
  BY <1>1, <1>2, <1>3, <1>4, <1>5, <1>6 DEF GoesOn

LEMMA ExhaustGoesOn ==
  ASSUME Sound, NEW w \in Workers, Exhaust(w)
  PROVE  GoesOn
<1> USE DEF ownerVars, peerVars, historyVars, boundVars
<1>a. RowsGoOn /\ WorkersGoOn /\ \A r \in Rows : queue'[r].status = "new" => queue[r].status = "new"
  <2>1. worker[w].attempts \in Nat /\ worker[w].attempts + 1 \in Nat
    BY DEF Sound, TypeOK, Tasks
  <2> QED
    BY <2>1, ItemsFit, SettleGoesOn DEF Sound, HasAttempt, Exhaust
<1>1. RowsGoOn
  BY <1>a
<1>2. WorkersGoOn
  BY <1>a
<1>3. ReceiptsGoOn
  BY ReceiptsAlone DEF Exhaust
<1>4. MarksTrue
  BY DEF MarksTrue, Exhaust
<1>5. FreshKept
  BY <1>a DEF FreshKept, Exhaust
<1>6. RestTyped'
  BY DEF Sound, TypeOK, RestTyped, Exhaust
<1> QED
  BY <1>1, <1>2, <1>3, <1>4, <1>5, <1>6 DEF GoesOn

LEMMA PostponeGoesOn ==
  ASSUME Sound, NEW w \in Workers, Postpone(w)
  PROVE  GoesOn
<1> USE DEF ownerVars, peerVars, historyVars, boundVars
<1>a. RowsGoOn /\ WorkersGoOn /\ \A r \in Rows : queue'[r].status = "new" => queue[r].status = "new"
  <2>1. worker[w].attempts \in Nat /\ worker[w].attempts + 1 \in Nat
    BY DEF Sound, TypeOK, Tasks
  <2> QED
    BY <2>1, ItemsFit, SettleGoesOn DEF Sound, HasAttempt, Postpone
<1>1. RowsGoOn
  BY <1>a
<1>2. WorkersGoOn
  BY <1>a
<1>3. ReceiptsGoOn
  BY ReceiptsAlone DEF Postpone
<1>4. MarksTrue
  BY DEF MarksTrue, Postpone
<1>5. FreshKept
  BY <1>a DEF FreshKept, Postpone
<1>6. RestTyped'
  BY ScenarioAssumption DEF Sound, TypeOK, RestTyped, Fault, Postpone
<1> QED
  BY <1>1, <1>2, <1>3, <1>4, <1>5, <1>6 DEF GoesOn

LEMMA RefuseGoesOn ==
  ASSUME Sound, NEW w \in Workers, Refuse(w)
  PROVE  GoesOn
<1> USE DEF ownerVars, peerVars, historyVars, boundVars
<1>a. RowsGoOn /\ WorkersGoOn /\ \A r \in Rows : queue'[r].status = "new" => queue[r].status = "new"
  <2>1. worker[w].attempts \in Nat /\ worker[w].attempts + 1 \in Nat
    BY DEF Sound, TypeOK, Tasks
  <2> QED
    BY <2>1, ItemsFit, SettleGoesOn DEF Sound, HasAttempt, Refuse
<1>1. RowsGoOn
  BY <1>a
<1>2. WorkersGoOn
  BY <1>a
<1>3. ReceiptsGoOn
  BY ReceiptsAlone DEF Refuse
<1>4. MarksTrue
  BY DEF MarksTrue, Refuse
<1>5. FreshKept
  BY <1>a DEF FreshKept, Refuse
<1>6. RestTyped'
  BY DEF Sound, TypeOK, RestTyped, Refuse
<1> QED
  BY <1>1, <1>2, <1>3, <1>4, <1>5, <1>6 DEF GoesOn

LEMMA FailLocallyGoesOn ==
  ASSUME Sound, NEW w \in Workers, FailLocally(w)
  PROVE  GoesOn
<1> USE DEF ownerVars, peerVars, historyVars, boundVars
<1>a. RowsGoOn /\ WorkersGoOn /\ \A r \in Rows : queue'[r].status = "new" => queue[r].status = "new"
  <2>1. worker[w].attempts \in Nat /\ worker[w].attempts + 1 \in Nat
    BY DEF Sound, TypeOK, Tasks
  <2> QED
    BY <2>1, ItemsFit, SettleGoesOn DEF Sound, HasAttempt, FailLocally
<1>1. RowsGoOn
  BY <1>a
<1>2. WorkersGoOn
  BY <1>a
<1>3. ReceiptsGoOn
  BY ReceiptsAlone DEF FailLocally
<1>4. MarksTrue
  BY DEF MarksTrue, FailLocally
<1>5. FreshKept
  BY <1>a DEF FreshKept, FailLocally
<1>6. RestTyped'
  BY DEF Sound, TypeOK, RestTyped, FailLocally
<1> QED
  BY <1>1, <1>2, <1>3, <1>4, <1>5, <1>6 DEF GoesOn

LEMMA SettleRejectionGoesOn ==
  ASSUME Sound, NEW w \in Workers, SettleRejection(w)
  PROVE  GoesOn
<1> USE DEF ownerVars, peerVars, historyVars, boundVars
<1>a. RowsGoOn /\ WorkersGoOn /\ \A r \in Rows : queue'[r].status = "new" => queue[r].status = "new"
  <2>1. worker[w].attempts \in Nat /\ worker[w].attempts + 1 \in Nat
    BY DEF Sound, TypeOK, Tasks
  <2> QED
    BY <2>1, ItemsFit, SettleGoesOn DEF Sound, HasAttempt, SettleRejection
<1>1. RowsGoOn
  BY <1>a
<1>2. WorkersGoOn
  BY <1>a
<1>3. ReceiptsGoOn
  BY ReceiptsAlone DEF SettleRejection
<1>4. MarksTrue
  BY DEF MarksTrue, SettleRejection
<1>5. FreshKept
  BY <1>a DEF FreshKept, SettleRejection
<1>6. RestTyped'
  BY DEF Sound, TypeOK, RestTyped, SettleRejection
<1> QED
  BY <1>1, <1>2, <1>3, <1>4, <1>5, <1>6 DEF GoesOn

LEMMA SettleSuccessGoesOn ==
  ASSUME Sound, NEW w \in Workers, SettleSuccess(w)
  PROVE  GoesOn
<1> USE DEF ownerVars, peerVars, historyVars, boundVars
<1>a. RowsGoOn /\ WorkersGoOn /\ \A r \in Rows : queue'[r].status = "new" => queue[r].status = "new"
  <2>1. worker[w].row \in Rows /\ queue[worker[w].row].attempts \in Nat
    BY DEF Sound, TypeOK, Items, AtWork, SettleSuccess
  <2> QED
    BY <2>1, ItemsFit, SettleGoesOn DEF Sound, HasAttempt, SettleSuccess
<1>1. RowsGoOn
  BY <1>a
<1>2. WorkersGoOn
  BY <1>a
<1>3. ReceiptsGoOn
  BY ReceiptsAlone DEF SettleSuccess
<1>4. MarksTrue
  BY DEF MarksTrue, SettleSuccess
<1>5. FreshKept
  BY <1>a DEF FreshKept, SettleSuccess
<1>6. RestTyped'
  BY RowAssumption, LimitAssumption DEF Sound, TypeOK, RestTyped, SettleSuccess, Well, AtWork
<1> QED
  BY <1>1, <1>2, <1>3, <1>4, <1>5, <1>6 DEF GoesOn

LEMMA SendGoesOn ==
  ASSUME Sound, NEW w \in Workers, Send(w)
  PROVE  GoesOn
<1> USE DEF ownerVars, peerVars, historyVars, boundVars
<1>a. worker[w].row \in Rows /\ queue[worker[w].row].status # "new"
  BY DEF Sound, AtWork, Send
<1>1. RowsGoOn
  BY RowsAlone DEF Send
<1>2. WorkersGoOn
  BY DEF Sound, TypeOK, Tasks, WorkersGoOn, TaskGoesOn, Send
<1>3. ReceiptsGoOn
  BY ReceiptsAlone DEF Send
<1>4. MarksTrue
  BY DEF MarksTrue, Send
<1>5. FreshKept
  BY DEF FreshKept, Send
<1>6. RestTyped'
  BY <1>a DEF Sound, TypeOK, RestTyped, Send
<1> QED
  BY <1>1, <1>2, <1>3, <1>4, <1>5, <1>6 DEF GoesOn

LEMMA TimeOutGoesOn ==
  ASSUME Sound, NEW w \in Workers, TimeOut(w)
  PROVE  GoesOn
<1> USE DEF ownerVars, peerVars, historyVars, boundVars
<1>a. worker[w].row \in Rows /\ queue[worker[w].row].status # "new"
  BY DEF Sound, AtWork, TimeOut
<1>1. RowsGoOn
  BY RowsAlone DEF TimeOut
<1>2. WorkersGoOn
  <2>1. /\ worker[w] \in Tasks /\ worker[w].pc = "posted"
        /\ worker' = [worker EXCEPT ![w] = [worker[w] EXCEPT !.pc = "answered", !.answer = "failed"]]
    BY DEF Sound, TypeOK, TimeOut
  <2>2. [worker[w] EXCEPT !.pc = "answered", !.answer = "failed"] \in Tasks
    BY <2>1 DEF Tasks
  <2>3. worker' \in [Workers -> Tasks]
    BY <2>1, <2>2 DEF Sound, TypeOK
  <2>4. TaskGoesOn(w)
    BY <2>1 DEF Sound, TypeOK, Tasks, TaskGoesOn
  <2>5. \A v \in Workers \ {w} : TaskGoesOn(v)
    BY <2>1 DEF Sound, TypeOK, TaskGoesOn
  <2> QED
    BY <2>3, <2>4, <2>5 DEF WorkersGoOn
<1>3. ReceiptsGoOn
  BY ReceiptsAlone DEF TimeOut
<1>4. MarksTrue
  BY DEF MarksTrue, TimeOut
<1>5. FreshKept
  BY <1>a DEF Sound, TypeOK, FreshKept, Loses, TimeOut
<1>6. RestTyped'
  BY <1>a, ScenarioAssumption DEF Sound, TypeOK, RestTyped, Loses, TimeOut
<1> QED
  BY <1>1, <1>2, <1>3, <1>4, <1>5, <1>6 DEF GoesOn

LEMMA AbandonGoesOn ==
  ASSUME Sound, NEW w \in Workers, Abandon(w)
  PROVE  GoesOn
<1> USE DEF ownerVars, peerVars, historyVars, boundVars
<1>a. worker[w].row \in Rows /\ queue[worker[w].row].status # "new"
  BY DEF Sound, AtWork, Abandon
<1>1. RowsGoOn
  BY RowsAlone DEF Abandon
<1>2. WorkersGoOn
  BY IdleTyped DEF Sound, TypeOK, WorkersGoOn, TaskGoesOn, Finish, Abandon
<1>3. ReceiptsGoOn
  BY ReceiptsAlone DEF Abandon
<1>4. MarksTrue
  BY DEF MarksTrue, Abandon
<1>5. FreshKept
  BY <1>a DEF Sound, TypeOK, FreshKept, Loses, Abandon
<1>6. RestTyped'
  BY <1>a, ScenarioAssumption DEF Sound, TypeOK, RestTyped, Loses, Fault, Abandon
<1> QED
  BY <1>1, <1>2, <1>3, <1>4, <1>5, <1>6 DEF GoesOn

\* What an inbox answers, and what it has recorded then.
LEMMA AnswersGoOn ==
  ASSUME Sound, NEW r \in Rows, NEW answer \in {"ok", "permanent", "failed"}, Answers(r, answer)
  PROVE  ReceiptsGoOn /\ (answer = "ok" => receipt'[r] = "accepted")
BY DEF Sound, TypeOK, Answers, Takes, Rejects, ReceiptsGoOn, ReceiptGoesOn, peerVars

LEMMA AnswerGoesOn ==
  ASSUME Sound, NEW w \in Workers, Answer(w)
  PROVE  GoesOn
<1> USE DEF ownerVars, peerVars, historyVars, boundVars
<1>a. worker[w].row \in Rows /\ queue[worker[w].row].status # "new"
  BY DEF Sound, AtWork, Answer
<1>1. RowsGoOn
  BY RowsAlone DEF Answer
<1>2. WorkersGoOn
  <2>1. PICK answer \in {"ok", "permanent", "failed"} :
         /\ Answers(worker[w].row, answer)
         /\ \E heard \in {answer, "failed"} :
              worker' = [worker EXCEPT ![w].pc = "answered", ![w].answer = heard]
    BY DEF Answer
  <2>2. PICK heard \in {answer, "failed"} :
          worker' = [worker EXCEPT ![w].pc = "answered", ![w].answer = heard]
    BY <2>1
  <2>3. heard = "ok" => receipt'[worker[w].row] = "accepted"
    BY <1>a, <2>1, AnswersGoOn
  <2> QED
    <3>1. worker' \in [Workers -> Tasks]
      <4>1. heard \in {"ok", "permanent", "failed"} /\ worker[w] \in Tasks
        BY <2>2 DEF Sound, TypeOK
      <4>2. [worker[w] EXCEPT !.pc = "answered", !.answer = heard] \in Tasks
        BY <4>1 DEF Tasks
      <4> QED
        BY <2>2, <4>2 DEF Sound, TypeOK
    <3>2. TaskGoesOn(w)
      BY <2>2, <2>3 DEF Sound, TypeOK, Tasks, TaskGoesOn, Answer
    <3>3. ASSUME NEW v \in Workers, v # w PROVE TaskGoesOn(v)
      BY <2>2, <3>3 DEF Sound, TypeOK, TaskGoesOn
    <3> QED
      BY <3>1, <3>2, <3>3 DEF WorkersGoOn
<1>3. ReceiptsGoOn
  BY <1>a, AnswersGoOn DEF Answer
<1>4. MarksTrue
  BY DEF MarksTrue, Answer
<1>5. FreshKept
  BY DEF FreshKept, Answer
<1>6. RestTyped'
  BY DEF Sound, TypeOK, RestTyped, Answer
<1> QED
  BY <1>1, <1>2, <1>3, <1>4, <1>5, <1>6 DEF GoesOn

LEMMA StrayArrivesGoesOn ==
  ASSUME Sound, NEW r \in Rows, StrayArrives(r)
  PROVE  GoesOn
<1> USE DEF ownerVars, peerVars, historyVars, boundVars
<1>1. RowsGoOn
  BY RowsAlone DEF StrayArrives
<1>2. WorkersGoOn
  BY WorkersAlone DEF StrayArrives
<1>3. ReceiptsGoOn
  BY AnswersGoOn DEF StrayArrives
<1>4. MarksTrue
  BY DEF MarksTrue, StrayArrives
<1>5. FreshKept
  BY DEF Sound, TypeOK, Fresh, FreshKept, StrayArrives
<1>6. RestTyped'
  BY ScenarioAssumption DEF Sound, TypeOK, RestTyped, StrayArrives
<1> QED
  BY <1>1, <1>2, <1>3, <1>4, <1>5, <1>6 DEF GoesOn

LEMMA WeekPassesGoesOn ==
  ASSUME Sound, NEW d \in Domains, WeekPasses(d)
  PROVE  GoesOn
<1> USE DEF ownerVars, peerVars, historyVars, boundVars
<1>1. RowsGoOn
  BY RowsAlone DEF WeekPasses
<1>2. WorkersGoOn
  BY WorkersAlone DEF WeekPasses
<1>3. ReceiptsGoOn
  BY ReceiptsAlone DEF WeekPasses
<1>4. MarksTrue
  BY DEF MarksTrue, WeekPasses
<1>5. FreshKept
  BY DEF FreshKept, WeekPasses
<1>6. RestTyped'
  BY DEF Sound, TypeOK, RestTyped, WeekPasses
<1> QED
  BY <1>1, <1>2, <1>3, <1>4, <1>5, <1>6 DEF GoesOn

\* A step that rewrites the rows of a set, none of them new.
LEMMA BulkGoesOn ==
  ASSUME Sound, NEW S \in SUBSET Rows, NEW item, \A r \in S : Fits(item[r]),
         \A r \in S : queue[r].status # "new",
         queue' = [r \in Rows |-> IF r \in S THEN item[r] ELSE queue[r]]
  PROVE  RowsGoOn /\ \A r \in Rows : queue'[r].status = "new" => r \notin S /\ queue[r].status = "new"
BY DEF Sound, TypeOK, RowsGoOn, Same, Settled, Fits

LEMMA CancelledGoesOn ==
  ASSUME Sound, NEW S \in SUBSET Rows, \A r \in S : Live(r), Cancelled(S)
  PROVE  RowsGoOn /\ \A r \in Rows : queue'[r].status = "new" => queue[r].status = "new"
<1> DEFINE item == [r \in Rows |-> [Item("dead", queue[r].attempts) EXCEPT !.cancelled = TRUE]]
<1>1. \A r \in S : Fits(item[r])
  BY ItemsFit DEF Sound, TypeOK, Items
<1>2. queue' = [r \in Rows |-> IF r \in S THEN item[r] ELSE queue[r]]
  BY DEF Cancelled
<1>3. \A r \in S : queue[r].status # "new"
  BY DEF Live
<1> HIDE DEF item
<1> QED
  BY <1>1, <1>2, <1>3, BulkGoesOn

LEMMA RequeuedGoesOn ==
  ASSUME Sound, NEW S \in SUBSET Rows, \A r \in S : Retriable(r), Requeued(S)
  PROVE  /\ RowsGoOn
         /\ \A r \in Rows : queue'[r].status = "new" =>
              queue[r].status = "new" /\ granted'[r] = granted[r]
<1> DEFINE item == [r \in Rows |-> Item("pending", 0)]
<1>1. \A r \in S : Fits(item[r])
  BY FirstFits
<1>2. queue' = [r \in Rows |-> IF r \in S THEN item[r] ELSE queue[r]]
  BY DEF Requeued
<1>3. \A r \in S : queue[r].status # "new"
  BY DEF Retriable
<1> HIDE DEF item
<1>4. RowsGoOn /\ \A r \in Rows : queue'[r].status = "new" => r \notin S /\ queue[r].status = "new"
  BY <1>1, <1>2, <1>3, BulkGoesOn
<1> QED
  BY <1>4 DEF Requeued

LEMMA CancelGoesOn ==
  ASSUME Sound, NEW S \in SUBSET Rows, Cancel(S)
  PROVE  GoesOn
<1> USE DEF ownerVars, peerVars, historyVars, boundVars
<1>1. RowsGoOn
  BY CancelledGoesOn DEF Cancel
<1>2. WorkersGoOn
  BY WorkersAlone DEF Cancel
<1>3. ReceiptsGoOn
  BY ReceiptsAlone DEF Cancel
<1>4. MarksTrue
  BY DEF MarksTrue, Cancel
<1>5. FreshKept
  BY CancelledGoesOn DEF FreshKept, Cancel
<1>6. RestTyped'
  BY DEF Sound, TypeOK, RestTyped, Cancel
<1> QED
  BY <1>1, <1>2, <1>3, <1>4, <1>5, <1>6 DEF GoesOn

LEMMA CancelResourceGoesOn ==
  ASSUME Sound, CancelResource
  PROVE  GoesOn
<1> USE DEF ownerVars, peerVars, historyVars, boundVars
<1>a. {r \in Resource : Live(r)} \in SUBSET Rows
  BY RowAssumption
<1>1. RowsGoOn
  BY <1>a, CancelledGoesOn DEF CancelResource
<1>2. WorkersGoOn
  BY WorkersAlone DEF CancelResource
<1>3. ReceiptsGoOn
  BY ReceiptsAlone DEF CancelResource
<1>4. MarksTrue
  BY DEF MarksTrue, CancelResource
<1>5. FreshKept
  BY <1>a, CancelledGoesOn DEF FreshKept, CancelResource
<1>6. RestTyped'
  BY DEF Sound, TypeOK, RestTyped, CancelResource
<1> QED
  BY <1>1, <1>2, <1>3, <1>4, <1>5, <1>6 DEF GoesOn

LEMMA AskRetryGoesOn ==
  ASSUME Sound, NEW r \in Rows, AskRetry(r)
  PROVE  GoesOn
<1> USE DEF ownerVars, peerVars, historyVars, boundVars
<1>1. RowsGoOn
  BY RowsAlone DEF AskRetry
<1>2. WorkersGoOn
  BY WorkersAlone DEF AskRetry
<1>3. ReceiptsGoOn
  BY ReceiptsAlone DEF AskRetry
<1>4. MarksTrue
  BY DEF MarksTrue, AskRetry
<1>5. FreshKept
  BY DEF FreshKept, AskRetry
<1>6. RestTyped'
  BY ScenarioAssumption DEF Sound, TypeOK, RestTyped, Asks, AskRetry
<1> QED
  BY <1>1, <1>2, <1>3, <1>4, <1>5, <1>6 DEF GoesOn

LEMMA RetryGoesOn ==
  ASSUME Sound, NEW r \in Rows, Retry(r)
  PROVE  GoesOn
<1> USE DEF ownerVars, peerVars, historyVars, boundVars
<1>1. RowsGoOn
  <2>1. CASE Retriable(r)
    BY <2>1, RequeuedGoesOn DEF Retry
  <2>2. CASE ~Retriable(r)
    BY <2>2, RowsAlone DEF Retry
  <2> QED
    BY <2>1, <2>2
<1>2. WorkersGoOn
  BY WorkersAlone DEF Retry
<1>3. ReceiptsGoOn
  BY ReceiptsAlone DEF Retry
<1>4. MarksTrue
  BY DEF MarksTrue, Retry
<1>5. FreshKept
  <2>1. CASE Retriable(r)
    BY <2>1, RequeuedGoesOn DEF FreshKept, Retry
  <2>2. CASE ~Retriable(r)
    BY <2>2 DEF FreshKept, Retry
  <2> QED
    BY <2>1, <2>2
<1>6. RestTyped'
  BY LimitAssumption DEF Sound, TypeOK, RestTyped, Requeued, Retry
<1> QED
  BY <1>1, <1>2, <1>3, <1>4, <1>5, <1>6 DEF GoesOn

LEMMA RetryAllDeadGoesOn ==
  ASSUME Sound, NEW S \in SUBSET Rows, RetryAllDead(S)
  PROVE  GoesOn
<1> USE DEF ownerVars, peerVars, historyVars, boundVars
<1>a. \A r \in S : Retriable(r)
  BY DEF Retriable, Dead, RetryAllDead
<1>1. RowsGoOn
  BY <1>a, RequeuedGoesOn DEF RetryAllDead
<1>2. WorkersGoOn
  BY WorkersAlone DEF RetryAllDead
<1>3. ReceiptsGoOn
  BY ReceiptsAlone DEF RetryAllDead
<1>4. MarksTrue
  BY DEF MarksTrue, RetryAllDead
<1>5. FreshKept
  BY <1>a, RequeuedGoesOn DEF FreshKept, RetryAllDead
<1>6. RestTyped'
  BY LimitAssumption, ScenarioAssumption DEF Sound, TypeOK, RestTyped, Requeued, Asks, RetryAllDead
<1> QED
  BY <1>1, <1>2, <1>3, <1>4, <1>5, <1>6 DEF GoesOn

LEMMA DismissGoesOn ==
  ASSUME Sound, NEW S \in SUBSET Rows, Dismiss(S)
  PROVE  GoesOn
<1> USE DEF ownerVars, peerVars, historyVars, boundVars
<1> DEFINE item == [r \in Rows |-> Item("gone", 0)]
<1>a. /\ \A r \in S : Fits(item[r]) /\ queue[r].status # "new"
      /\ queue' = [r \in Rows |-> IF r \in S THEN item[r] ELSE queue[r]]
  <2>1. Fits(Item("gone", 0))
    BY DEF Fits, Item, Items, Statuses
  <2>2. \A r \in S : queue[r].status # "new"
    BY DEF Dead, Dismiss
  <2> QED
    BY <2>1, <2>2 DEF Dismiss
<1> HIDE DEF item
<1>1. RowsGoOn
  BY <1>a, BulkGoesOn
<1>2. WorkersGoOn
  BY WorkersAlone DEF Dismiss
<1>3. ReceiptsGoOn
  BY ReceiptsAlone DEF Dismiss
<1>4. MarksTrue
  BY DEF MarksTrue, Dismiss
<1>5. FreshKept
  BY <1>a, BulkGoesOn DEF FreshKept, Dismiss
<1>6. RestTyped'
  BY DEF Sound, TypeOK, RestTyped, Dismiss
<1> QED
  BY <1>1, <1>2, <1>3, <1>4, <1>5, <1>6 DEF GoesOn

LEMMA EnqueueGoesOn ==
  ASSUME Sound, NEW r \in Rows, Enqueue(r)
  PROVE  GoesOn
<1> USE DEF ownerVars, peerVars, historyVars, boundVars
<1>a. Fits(Item("pending", 0)) /\ Item("pending", 0).status = "pending"
  BY FirstFits
<1>1. RowsGoOn
  BY <1>a DEF Sound, TypeOK, RowsGoOn, Same, Settled, Fits, Enqueue
<1>2. WorkersGoOn
  BY WorkersAlone DEF Enqueue
<1>3. ReceiptsGoOn
  BY ReceiptsAlone DEF Enqueue
<1>4. MarksTrue
  BY DEF Sound, TypeOK, MarksTrue, Enqueue
<1>5. FreshKept
  BY <1>a DEF Sound, TypeOK, FreshKept, Fits, Enqueue
<1>6. RestTyped'
  BY LimitAssumption DEF Sound, TypeOK, RestTyped, Enqueue
<1> QED
  BY <1>1, <1>2, <1>3, <1>4, <1>5, <1>6 DEF GoesOn

LEMMA DeliverInProcessGoesOn ==
  ASSUME Sound, NEW r \in Rows, DeliverInProcess(r)
  PROVE  GoesOn
<1> USE DEF ownerVars, peerVars, historyVars, boundVars
<1>1. RowsGoOn
  BY RowsAlone DEF DeliverInProcess
<1>2. WorkersGoOn
  BY WorkersAlone DEF DeliverInProcess
<1>3. ReceiptsGoOn
  BY AnswersGoOn DEF DeliverInProcess
<1>4. MarksTrue
  BY AnswersGoOn DEF Sound, TypeOK, MarksTrue, DeliverInProcess
<1>5. FreshKept
  BY DEF Sound, TypeOK, Fresh, FreshKept, DeliverInProcess
<1>6. RestTyped'
  BY DEF Sound, TypeOK, RestTyped, DeliverInProcess
<1> QED
  BY <1>1, <1>2, <1>3, <1>4, <1>5, <1>6 DEF GoesOn

LEMMA MarkInProcessGoesOn ==
  ASSUME Sound, NEW r \in Rows, MarkInProcess(r)
  PROVE  GoesOn
<1> USE DEF ownerVars, peerVars, historyVars, boundVars
<1>1. RowsGoOn
  <2>1. CASE UNCHANGED queue
    BY <2>1, RowsAlone
  <2>2. CASE queue' = [queue EXCEPT ![r].status = "delivered"]
    <3>1. [queue[r] EXCEPT !.status = "delivered"] \in Items
      <4>1. queue[r] \in Items
        BY DEF Sound, TypeOK
      <4> QED
        BY <4>1 DEF Items, Statuses
    <3>2. queue'[r].status = "delivered"
      BY <2>2 DEF Sound, TypeOK, Items
    <3> QED
      BY <2>2, <3>1, <3>2 DEF Sound, TypeOK, RowsGoOn, Same, Settled
  <2> QED
    BY <2>1, <2>2 DEF MarkInProcess
<1>2. WorkersGoOn
  BY WorkersAlone DEF MarkInProcess
<1>3. ReceiptsGoOn
  BY ReceiptsAlone DEF MarkInProcess
<1>4. MarksTrue
  BY DEF Sound, TypeOK, MarksTrue, MarkInProcess
<1>5. FreshKept
  BY DEF Sound, TypeOK, Items, Statuses, Fresh, FreshKept, MarkInProcess
<1>6. RestTyped'
  BY DEF Sound, TypeOK, RestTyped, MarkInProcess
<1> QED
  BY <1>1, <1>2, <1>3, <1>4, <1>5, <1>6 DEF GoesOn

\* A swept row is settled or as it was.
LEMMA SweptFits ==
  ASSUME Sound, NEW w \in Workers, NEW item, Fits(item), NEW r \in Rows
  PROVE  Fits(Swept(item, r, w)) \/ (r # worker[w].row /\ Swept(item, r, w) = queue[r])
<1> DEFINE own == IF r = worker[w].row THEN item ELSE queue[r]
<1>1. own.attempts \in Nat
  BY DEF Sound, TypeOK, Items, Fits
<1>2. Fits([Item("dead", own.attempts) EXCEPT !.cancelled = TRUE])
  BY <1>1, ItemsFit
<1>3. \/ Swept(item, r, w) = [Item("dead", own.attempts) EXCEPT !.cancelled = TRUE]
      \/ Swept(item, r, w) = own
  BY DEF Swept
<1>4. Fits(own) \/ (r # worker[w].row /\ own = queue[r])
  OBVIOUS
<1> DEFINE dead == [Item("dead", own.attempts) EXCEPT !.cancelled = TRUE]
<1>5. Fits(dead) /\ (Swept(item, r, w) = dead \/ Swept(item, r, w) = own)
  BY <1>2, <1>3
<1> HIDE DEF own, dead
<1> QED
  BY <1>4, <1>5

LEMMA SettleFailureGoesOn ==
  ASSUME Sound, NEW w \in Workers, SettleFailure(w)
  PROVE  GoesOn
<1> USE DEF ownerVars, peerVars, historyVars, boundVars
<1> DEFINE item == Again(worker[w].attempts + 1)
           d == DomainOf[worker[w].row]
<1>a. worker[w].row \in Rows /\ queue[worker[w].row].status # "new"
  BY DEF Sound, AtWork, SettleFailure
<1>b. Fits(item)
  <2>1. worker[w].attempts + 1 \in Nat
    BY DEF Sound, TypeOK, Tasks
  <2> QED
    BY <2>1, ItemsFit
<1>c. \/ UNCHANGED <<queue, health>>
      \/ /\ queue' = [queue EXCEPT ![worker[w].row] = item]
         /\ health' = [health EXCEPT ![d] = Streak(d)]
      \/ /\ queue' = [r \in Rows |-> Swept(item, r, w)]
         /\ health' = [health EXCEPT ![d] = Well]
         /\ Owns(w)
  BY DEF SettleFailure
<1> HIDE DEF item
<1>d. \A r \in Rows : queue'[r].status = "new" => queue[r].status = "new"
  BY <1>a, <1>b, <1>c, SweptFits DEF Sound, TypeOK, Fits
<1>1. RowsGoOn
  <2>1. CASE UNCHANGED queue
    BY <2>1, RowsAlone
  <2>2. CASE queue' = [queue EXCEPT ![worker[w].row] = item]
    BY <2>2, <1>a, <1>b DEF Sound, TypeOK, RowsGoOn, Same, Settled, Fits
  <2>3. CASE queue' = [r \in Rows |-> Swept(item, r, w)]
    BY <2>3, <1>b, SweptFits DEF Sound, TypeOK, RowsGoOn, Same, Settled, Fits
  <2> QED
    BY <1>c, <2>1, <2>2, <2>3
<1>2. WorkersGoOn
  BY IdleTyped DEF Sound, TypeOK, WorkersGoOn, TaskGoesOn, Finish, SettleFailure
<1>3. ReceiptsGoOn
  BY ReceiptsAlone DEF SettleFailure
<1>4. MarksTrue
  BY DEF MarksTrue, SettleFailure
<1>5. FreshKept
  BY <1>d DEF FreshKept, SettleFailure
<1>6. RestTyped'
  <2>1. d \in Domains
    BY <1>a, RowAssumption
  <2>2. /\ Well \in [failures : 0 .. Threshold, week : BOOLEAN]
        /\ Streak(d) \in [failures : 0 .. Threshold, week : BOOLEAN]
    BY <2>1, LimitAssumption DEF Sound, TypeOK, Well, Streak
  <2> HIDE DEF d
  <2>3. health' \in [Domains -> [failures : 0 .. Threshold, week : BOOLEAN]]
    BY <1>c, <2>1, <2>2 DEF Sound, TypeOK
  <2> QED
    BY <2>3 DEF Sound, TypeOK, RestTyped, SettleFailure
<1> QED
  BY <1>1, <1>2, <1>3, <1>4, <1>5, <1>6 DEF GoesOn

\* What a claim makes of a row and its worker.
LEMMA ClaimEffect ==
  ASSUME Sound, NEW w \in Workers, NEW r \in Rows, Claim(w, r)
  PROVE  /\ worker[w].pc = "idle"
         /\ queue[r].status \in {"pending", "delivering"}
         /\ queue' \in [Rows -> Items] /\ worker' \in [Workers -> Tasks]
         /\ queue'[r].status = "delivering" /\ queue'[r].lease = w
         /\ queue'[r].attempts = AttemptsAtClaim(r)
         /\ \A q \in Rows \ {r} : queue'[q] = queue[q]
         /\ worker'[w].row = r /\ worker'[w].attempts = AttemptsAtClaim(r)
         /\ worker'[w].answer = "none"
         /\ \/ worker'[w].pc = "claimed" /\ AttemptsAtClaim(r) < MaxAttempts
            \/ /\ worker'[w].pc = "exhausted" /\ AttemptsAtClaim(r) >= MaxAttempts
               /\ queue[r].status = "delivering"
         /\ \A v \in Workers \ {w} : worker'[v] = worker[v]
<1> DEFINE attempts == AttemptsAtClaim(r)
           pc == IF queue[r].status = "delivering" /\ attempts >= MaxAttempts
                 THEN "exhausted" ELSE "claimed"
           task == [pc |-> pc, row |-> r, attempts |-> attempts, answer |-> "none"]
           item == [queue[r] EXCEPT !.status = "delivering", !.attempts = attempts,
                                    !.lease = w, !.expired = FALSE]
<1>1. queue[r] \in Items /\ queue[r].attempts \in Nat
  BY DEF Sound, TypeOK, Items
<1>2. attempts \in Nat
  BY <1>1 DEF AttemptsAtClaim
<1>3. worker[w].pc = "idle" /\ queue[r].status \in {"pending", "delivering"}
  BY DEF Claim, Claimable, Reclaimable
<1>4. queue[r].status = "pending" => attempts < MaxAttempts
  BY DEF Sound, TypeOK, AttemptsAtClaim
<1>5. queue' = [queue EXCEPT ![r] = item] /\ worker' = [worker EXCEPT ![w] = task]
  <2>1. worker' = [worker EXCEPT ![w] = task]
    BY DEF Claim
  <2>2. queue' = [queue EXCEPT ![r] = item]
    BY <1>1 DEF Claim, Items, Sound, TypeOK
  <2> QED
    BY <2>1, <2>2
<1>6. item \in Items /\ item.status = "delivering" /\ item.attempts = attempts /\ item.lease = w
  BY <1>1, <1>2 DEF Items, Statuses
<1>7. /\ task \in Tasks /\ task.row = r /\ task.attempts = attempts /\ task.answer = "none"
      /\ task.pc = pc
  BY <1>2 DEF Tasks
<1>8. \/ pc = "claimed" /\ attempts < MaxAttempts
      \/ pc = "exhausted" /\ attempts >= MaxAttempts /\ queue[r].status = "delivering"
  BY <1>2, <1>3, <1>4, LimitAssumption
<1> HIDE DEF attempts, pc, task, item
<1>9. queue' \in [Rows -> Items] /\ queue'[r] = item /\ \A q \in Rows \ {r} : queue'[q] = queue[q]
  BY <1>5, <1>6 DEF Sound, TypeOK
<1>10. worker' \in [Workers -> Tasks] /\ worker'[w] = task
       /\ \A v \in Workers \ {w} : worker'[v] = worker[v]
  BY <1>5, <1>7 DEF Sound, TypeOK
<1> QED
  BY <1>3, <1>6, <1>7, <1>8, <1>9, <1>10 DEF attempts

LEMMA ClaimKeepsSound ==
  ASSUME Sound, NEW w \in Workers, NEW r \in Rows, Claim(w, r)
  PROVE  Sound'
<1> USE DEF ownerVars, peerVars, historyVars, boundVars
<1>1. TypeOK'
  <2>1. \A q \in Rows : queue'[q].status = "pending" => queue'[q].attempts < MaxAttempts
    <3>1. \A q \in Rows \ {r} : queue'[q] = queue[q]
      BY ClaimEffect
    <3>2. queue'[r].status = "delivering"
      BY ClaimEffect
    <3> QED
      BY <3>1, <3>2 DEF Sound, TypeOK
  <2>2. queue' \in [Rows -> Items] /\ worker' \in [Workers -> Tasks]
    BY ClaimEffect
  <2> QED
    BY <2>1, <2>2 DEF Sound, TypeOK, Claim
<1>2. AtWork'
  BY ClaimEffect DEF Sound, AtWork
<1>3. Current'
  <2>1. ASSUME NEW v \in Workers, worker'[v].pc # "idle", Owns(v)'
        PROVE  worker'[v].attempts = queue'[worker'[v].row].attempts
    <3>1. CASE v = w
      BY <3>1, ClaimEffect
    <3>2. CASE v # w
      <4>1. worker'[v] = worker[v] /\ worker[v].row \in Rows
        BY <3>2, <2>1, ClaimEffect DEF Sound, AtWork
      <4>2. worker[v].row # r
        BY <3>2, <2>1, <4>1, ClaimEffect DEF Owns
      <4> QED
        BY <2>1, <4>1, <4>2, ClaimEffect DEF Sound, Current, Owns
    <3> QED
      BY <3>1, <3>2
  <2> QED
    BY <2>1 DEF Current
<1>4. HasAttempt'
  BY ClaimEffect DEF Sound, HasAttempt
<1>5. Heard'
  <2>1. worker'[w].answer = "none"
    BY ClaimEffect
  <2>2. \A v \in Workers \ {w} : worker'[v] = worker[v]
    BY ClaimEffect
  <2> QED
    BY <2>1, <2>2 DEF Sound, Heard, Claim
<1>6. Fresh'
  <2>1. queue'[r].status = "delivering" /\ \A q \in Rows \ {r} : queue'[q] = queue[q]
    BY ClaimEffect
  <2> QED
    BY <2>1 DEF Sound, Fresh, Claim
<1>7. Once'
  BY DEF Sound, Once, Claim
<1> QED
  BY <1>1, <1>2, <1>3, <1>4, <1>5, <1>6, <1>7 DEF Sound

\* A step is a claim or goes on.
LEMMA StepGoesOn ==
  ASSUME Sound, Next
  PROVE  (\E w \in Workers, r \in Rows : Claim(w, r)) \/ GoesOn
<1>1. ASSUME NEW w \in Workers, WorkerStep(w)
      PROVE  (\E v \in Workers, r \in Rows : Claim(v, r)) \/ GoesOn
  BY <1>1, ExhaustGoesOn, RefuseGoesOn, FailLocallyGoesOn, SendGoesOn, AnswerGoesOn, TimeOutGoesOn,
     SettleSuccessGoesOn, SettleRejectionGoesOn, SettleFailureGoesOn DEF WorkerStep
<1>2. ASSUME Disturbance PROVE GoesOn
  BY <1>2, PostponeGoesOn, AbandonGoesOn, RenewGoesOn, StrayArrivesGoesOn, WeekPassesGoesOn
     DEF Disturbance
<1>3. ASSUME OwnerStep PROVE GoesOn
  BY <1>3, EnqueueGoesOn, DeliverInProcessGoesOn, MarkInProcessGoesOn, AskRetryGoesOn, RetryGoesOn,
     CancelGoesOn, RetryAllDeadGoesOn, DismissGoesOn, CancelResourceGoesOn DEF OwnerStep
<1> QED
  BY <1>1, <1>2, <1>3, ExpireGoesOn DEF Next

LEMMA InitSound == Init => Sound
BY IdleTyped, LimitAssumption, ScenarioAssumption
   DEF Init, Sound, TypeOK, AtWork, Current, HasAttempt, Heard, Fresh, Once, Item, Items, Statuses,
       Well, Idle

LEMMA StutterKeepsSound == Sound /\ UNCHANGED vars => Sound'
BY DEF vars, ownerVars, peerVars, historyVars, boundVars, Sound, TypeOK, AtWork, Current, Owns,
       HasAttempt, Heard, Fresh, Once

\* What a worker knows of its row, and what receipts say, stays true.
THEOREM DeliverySound == Spec => []Sound
<1>1. Sound /\ [Next]_vars => Sound'
  BY StepGoesOn, ClaimKeepsSound, GoesOnKeepsSound, StutterKeepsSound
<1> QED
  BY InitSound, <1>1, PTL DEF Spec

\* Every part of the queue, its workers and its receipts keeps its type, and a
\* waiting row has an attempt left.
THEOREM DeliveryTyped == Spec => []TypeOK
<1>1. Sound => TypeOK
  BY DEF Sound
<1> QED
  BY <1>1, DeliverySound, PTL

(***************************************************************************)
(* The queue implements Courier: each step is one of its steps, or none.   *)
(***************************************************************************)
Refines == Promise!Next \/ UNCHANGED Promise!vars

Silent == effects' = effects /\ \A r \in Rows : CourierState(r)' = CourierState(r)

LEMMA SilentRefines == Silent => Refines
BY DEF Silent, Refines, Promise!vars

LEMMA AloneIsSilent == UNCHANGED <<queue, effects>> => Silent
BY DEF Silent, CourierState, Live

\* The rows of a set turn, the others stay.
LEMMA TurnRefines ==
  ASSUME NEW S \in SUBSET Rows, NEW before, NEW after,
         \A r \in S : CourierState(r) = before,
         \A r \in Rows : CourierState(r)' = IF r \in S THEN after ELSE CourierState(r),
         effects' = effects
  PROVE  Promise!Turn(S, before, after)
BY DEF Promise!Turn

LEMMA GiveUpRefines ==
  ASSUME NEW S \in SUBSET Rows, \A r \in S : CourierState(r) = "open",
         \A r \in Rows : CourierState(r)' = IF r \in S THEN "dead" ELSE CourierState(r),
         effects' = effects
  PROVE  Refines
<1>1. Promise!GiveUp(S)
  BY TurnRefines DEF Promise!GiveUp
<1> QED
  BY <1>1 DEF Refines, Promise!Next

LEMMA ReviveRefines ==
  ASSUME NEW S \in SUBSET Rows, \A r \in S : CourierState(r) = "dead",
         \A r \in Rows : CourierState(r)' = IF r \in S THEN "open" ELSE CourierState(r),
         effects' = effects
  PROVE  Refines
<1>1. Promise!Revive(S)
  BY TurnRefines DEF Promise!Revive
<1> QED
  BY <1>1 DEF Refines, Promise!Next

LEMMA DeliverRefines ==
  ASSUME Sound, NEW r \in Rows, CourierState(r) \in {"open", "dead"}, receipt[r] = "accepted",
         \A q \in Rows : CourierState(q)' = IF q = r THEN "delivered" ELSE CourierState(q),
         effects' = effects
  PROVE  Refines
<1>1. effects[r] = 1
  BY DEF Sound, Once
<1>2. Promise!Deliver(r)
  BY <1>1 DEF Promise!Deliver
<1> QED
  BY <1>2 DEF Refines, Promise!Next

LEMMA AnswersRefines ==
  ASSUME Sound, NEW r \in Rows, queue[r].status # "new", NEW answer, Answers(r, answer),
         UNCHANGED queue
  PROVE  Refines
<1>1. CASE Takes(r)
  <2>1. effects[r] = 0 /\ effects' = [effects EXCEPT ![r] = 1]
    <3>1. effects[r] = 0
      BY <1>1 DEF Sound, Once, Takes
    <3>2. effects' = [effects EXCEPT ![r] = effects[r] + 1]
      BY <1>1 DEF Takes
    <3> QED
      BY <3>1, <3>2
  <2>2. CourierState(r) # "new" /\ \A q \in Rows : CourierState(q)' = CourierState(q)
    BY DEF CourierState, Live
  <2>3. Promise!Apply(r)
    BY <2>1, <2>2 DEF Promise!Apply
  <2> QED
    BY <2>3 DEF Refines, Promise!Next
<1>2. CASE UNCHANGED effects
  BY <1>2, AloneIsSilent, SilentRefines
<1> QED
  BY <1>1, <1>2 DEF Answers, Rejects, peerVars

\* The end of an attempt gives the row up, or leaves it open.
LEMMA SettleRefines ==
  ASSUME Sound, NEW w \in Workers, worker[w].pc # "idle", NEW item,
         item.status \in {"pending", "dead"}, Settle(w, item), UNCHANGED effects
  PROVE  Refines
<1>1. CASE ~Owns(w)
  BY <1>1, AloneIsSilent, SilentRefines DEF Settle
<1>2. CASE Owns(w)
  <2> DEFINE r == worker[w].row
  <2>1. r \in Rows /\ queue' = [queue EXCEPT ![r] = item] /\ CourierState(r) = "open"
    BY <1>2 DEF Sound, AtWork, Settle, Owns, CourierState, Live
  <2> HIDE DEF r
  <2>2. \A q \in Rows : queue'[q] = IF q = r THEN item ELSE queue[q]
    BY <2>1 DEF Sound, TypeOK
  <2>3. CASE item.status = "pending"
    <3>1. Silent
      BY <2>1, <2>2, <2>3 DEF Silent, CourierState, Live
    <3> QED
      BY <3>1, SilentRefines
  <2>4. CASE item.status = "dead"
    <3>1. \A q \in Rows : CourierState(q)' = IF q \in {r} THEN "dead" ELSE CourierState(q)
      BY <2>2, <2>4 DEF CourierState, Live
    <3>2. {r} \in SUBSET Rows /\ \A q \in {r} : CourierState(q) = "open"
      BY <2>1
    <3> QED
      BY <3>1, <3>2, GiveUpRefines
  <2> QED
    BY <2>3, <2>4
<1> QED
  BY <1>1, <1>2

LEMMA ExhaustRefines ==
  ASSUME Sound, NEW w \in Workers, Exhaust(w)
  PROVE  Refines
<1>1. worker[w].attempts \in Nat /\ worker[w].attempts + 1 \in Nat
  BY DEF Sound, TypeOK, Tasks
<1>2. \A attempts \in Nat : /\ Item("dead", attempts).status = "dead"
                            /\ Item("pending", attempts).status = "pending"
  BY DEF Item
<1> QED
  BY <1>1, <1>2, SettleRefines DEF peerVars, Exhaust

LEMMA PostponeRefines ==
  ASSUME Sound, NEW w \in Workers, Postpone(w)
  PROVE  Refines
<1>1. worker[w].attempts \in Nat /\ worker[w].attempts + 1 \in Nat
  BY DEF Sound, TypeOK, Tasks
<1>2. \A attempts \in Nat : /\ Item("dead", attempts).status = "dead"
                            /\ Item("pending", attempts).status = "pending"
  BY DEF Item
<1> QED
  BY <1>1, <1>2, SettleRefines DEF peerVars, Postpone

LEMMA RefuseRefines ==
  ASSUME Sound, NEW w \in Workers, Refuse(w)
  PROVE  Refines
<1>1. worker[w].attempts \in Nat /\ worker[w].attempts + 1 \in Nat
  BY DEF Sound, TypeOK, Tasks
<1>2. \A attempts \in Nat : /\ Item("dead", attempts).status = "dead"
                            /\ Item("pending", attempts).status = "pending"
  BY DEF Item
<1> QED
  BY <1>1, <1>2, SettleRefines DEF peerVars, Refuse

LEMMA FailLocallyRefines ==
  ASSUME Sound, NEW w \in Workers, FailLocally(w)
  PROVE  Refines
<1>1. worker[w].attempts \in Nat /\ worker[w].attempts + 1 \in Nat
  BY DEF Sound, TypeOK, Tasks
<1>2. \A attempts \in Nat : /\ Item("dead", attempts).status = "dead"
                            /\ Item("pending", attempts).status = "pending"
  BY DEF Item
<1> QED
  BY <1>1, <1>2, SettleRefines DEF peerVars, FailLocally, Again

LEMMA SettleRejectionRefines ==
  ASSUME Sound, NEW w \in Workers, SettleRejection(w)
  PROVE  Refines
<1>1. worker[w].attempts \in Nat /\ worker[w].attempts + 1 \in Nat
  BY DEF Sound, TypeOK, Tasks
<1>2. \A attempts \in Nat : /\ Item("dead", attempts).status = "dead"
                            /\ Item("pending", attempts).status = "pending"
  BY DEF Item
<1> QED
  BY <1>1, <1>2, SettleRefines DEF peerVars, SettleRejection

LEMMA SettleSuccessRefines ==
  ASSUME Sound, NEW w \in Workers, SettleSuccess(w)
  PROVE  Refines
<1> DEFINE r == worker[w].row
           item == Item("delivered", queue[r].attempts)
<1>1. CASE ~Owns(w)
  BY <1>1, AloneIsSilent, SilentRefines DEF Settle, SettleSuccess, peerVars
<1>2. CASE Owns(w)
  <2>1. r \in Rows /\ queue' = [queue EXCEPT ![r] = item]
    BY <1>2 DEF Sound, AtWork, Settle, SettleSuccess
  <2>2. CourierState(r) = "open" /\ receipt[r] = "accepted" /\ effects' = effects
    BY <1>2 DEF Sound, Heard, Owns, CourierState, Live, SettleSuccess, peerVars
  <2>3. item.status = "delivered"
    BY DEF Item
  <2> HIDE DEF r, item
  <2>4. \A q \in Rows : queue'[q] = IF q = r THEN item ELSE queue[q]
    BY <2>1 DEF Sound, TypeOK
  <2>5. \A q \in Rows : CourierState(q)' = IF q = r THEN "delivered" ELSE CourierState(q)
    BY <2>3, <2>4 DEF CourierState, Live
  <2> QED
    BY <2>1, <2>2, <2>5, DeliverRefines
<1> QED
  BY <1>1, <1>2

LEMMA SettleFailureRefines ==
  ASSUME Sound, NEW w \in Workers, SettleFailure(w)
  PROVE  Refines
<1> DEFINE r == worker[w].row
           item == Again(worker[w].attempts + 1)
           S == {q \in Rows : CourierState(q) = "open" /\ CourierState(q)' = "dead"}
<1>1. CASE ~Owns(w)
  BY <1>1, AloneIsSilent, SilentRefines DEF SettleFailure, peerVars
<1>2. CASE Owns(w)
  <2>1. r \in Rows /\ queue[r].status = "delivering"
    BY <1>2 DEF Sound, AtWork, Owns, SettleFailure
  <2>2. item.status \in {"pending", "dead"}
    BY DEF Again, Item
  <2>3. \/ queue' = [queue EXCEPT ![r] = item]
        \/ queue' = [q \in Rows |-> Swept(item, q, w)]
    BY <1>2 DEF SettleFailure
  <2> HIDE DEF item
  <2>4. \A q \in Rows : \/ CourierState(q)' = CourierState(q)
                        \/ CourierState(q) = "open" /\ CourierState(q)' = "dead"
    <3>1. CASE queue' = [queue EXCEPT ![r] = item]
      BY <2>1, <2>2, <3>1 DEF Sound, TypeOK, CourierState, Live
    <3>2. CASE queue' = [q \in Rows |-> Swept(item, q, w)]
      <4> TAKE q \in Rows
      <4> DEFINE own == IF q = r THEN item ELSE queue[q]
                 dead == [Item("dead", own.attempts) EXCEPT !.cancelled = TRUE]
      <4>1. \/ queue'[q] = dead /\ own.status \in {"pending", "delivering"}
            \/ queue'[q] = own
        BY <3>2 DEF Swept
      <4>2. dead.status = "dead"
        BY DEF Item
      <4>3. own = queue[q] \/ (queue[q].status = "delivering" /\ own.status \in {"pending", "dead"})
        BY <2>1, <2>2
      <4> HIDE DEF own, dead
      <4> QED
        BY <4>1, <4>2, <4>3 DEF CourierState, Live
    <3> QED
      BY <2>3, <3>1, <3>2
  <2>5. \A q \in Rows : CourierState(q)' = IF q \in S THEN "dead" ELSE CourierState(q)
    BY <2>4
  <2>6. S \in SUBSET Rows /\ (\A q \in S : CourierState(q) = "open") /\ effects' = effects
    BY DEF SettleFailure, peerVars
  <2> HIDE DEF S
  <2> QED
    BY <2>5, <2>6, GiveUpRefines
<1> QED
  BY <1>1, <1>2

LEMMA CancelledRefines ==
  ASSUME NEW S \in SUBSET Rows, \A r \in S : Live(r), Cancelled(S), UNCHANGED effects
  PROVE  Refines
<1>1. \A r \in Rows : CourierState(r)' = IF r \in S THEN "dead" ELSE CourierState(r)
  BY DEF Cancelled, CourierState, Live, Item
<1>2. \A r \in S : CourierState(r) = "open"
  BY DEF CourierState
<1> QED
  BY <1>1, <1>2, GiveUpRefines

\* Rows that are put back were dead, or waited already.
LEMMA RequeuedRefines ==
  ASSUME NEW S \in SUBSET Rows, \A r \in S : Retriable(r), Requeued(S), UNCHANGED effects
  PROVE  Refines
<1> DEFINE T == {r \in S : Dead(r)}
<1>1. \A r \in Rows : CourierState(r)' = IF r \in T THEN "open" ELSE CourierState(r)
  <2>1. \A r \in S : CourierState(r)' = "open" /\ (r \in T \/ CourierState(r) = "open")
    BY DEF Requeued, Retriable, CourierState, Live, Dead, Item
  <2>2. \A r \in Rows \ S : CourierState(r)' = CourierState(r) /\ r \notin T
    BY DEF Requeued, CourierState, Live
  <2> QED
    BY <2>1, <2>2
<1>2. T \in SUBSET Rows /\ \A r \in T : CourierState(r) = "dead"
  BY DEF CourierState, Live, Dead
<1> HIDE DEF T
<1> QED
  BY <1>1, <1>2, ReviveRefines

LEMMA CancelRefines ==
  ASSUME Sound, NEW S \in SUBSET Rows, Cancel(S)
  PROVE  Refines
BY CancelledRefines DEF Cancel, peerVars

LEMMA CancelResourceRefines ==
  ASSUME Sound, CancelResource
  PROVE  Refines
<1>1. {r \in Resource : Live(r)} \in SUBSET Rows
  BY RowAssumption
<1> QED
  BY <1>1, CancelledRefines DEF CancelResource, peerVars

LEMMA RetryRefines ==
  ASSUME Sound, NEW r \in Rows, Retry(r)
  PROVE  Refines
BY RequeuedRefines, AloneIsSilent, SilentRefines DEF Retry, peerVars

LEMMA RetryAllDeadRefines ==
  ASSUME Sound, NEW S \in SUBSET Rows, RetryAllDead(S)
  PROVE  Refines
<1>1. \A r \in S : Retriable(r)
  BY DEF Retriable, Dead, RetryAllDead
<1> QED
  BY <1>1, RequeuedRefines DEF RetryAllDead, peerVars

LEMMA DismissRefines ==
  ASSUME Sound, NEW S \in SUBSET Rows, Dismiss(S)
  PROVE  Refines
<1>1. \A r \in S : CourierState(r) = "dead"
  BY DEF CourierState, Live, Dead, Dismiss
<1>2. \A r \in Rows : CourierState(r)' = IF r \in S THEN "gone" ELSE CourierState(r)
  BY DEF CourierState, Live, Item, Dismiss
<1>3. Promise!Remove(S)
  BY <1>1, <1>2, TurnRefines DEF Promise!Remove, Dismiss, peerVars
<1> QED
  BY <1>3 DEF Refines, Promise!Next

LEMMA EnqueueRefines ==
  ASSUME Sound, NEW r \in Rows, Enqueue(r)
  PROVE  Refines
<1>1. \A q \in {r} : CourierState(q) = "new"
  BY DEF CourierState, Live, Enqueue
<1>2. \A q \in Rows : CourierState(q)' = IF q \in {r} THEN "open" ELSE CourierState(q)
  BY DEF Sound, TypeOK, CourierState, Live, Item, Enqueue
<1>3. {r} \in SUBSET Rows /\ effects' = effects
  BY DEF Enqueue, peerVars
<1>4. Promise!Post(r)
  BY <1>1, <1>2, <1>3, TurnRefines DEF Promise!Post
<1> QED
  BY <1>4 DEF Refines, Promise!Next

LEMMA DeliverInProcessRefines ==
  ASSUME Sound, NEW r \in Rows, DeliverInProcess(r)
  PROVE  Refines
<1>1. queue[r].status # "new"
  BY DEF Sound, Fresh, DeliverInProcess
<1> QED
  BY <1>1, AnswersRefines DEF DeliverInProcess

LEMMA MarkInProcessRefines ==
  ASSUME Sound, NEW r \in Rows, MarkInProcess(r)
  PROVE  Refines
<1>1. CASE UNCHANGED queue
  BY <1>1, AloneIsSilent, SilentRefines DEF MarkInProcess, peerVars
<1>2. CASE queue' = [queue EXCEPT ![r].status = "delivered"] /\ queue[r].status # "gone"
  <2>1. queue[r].status # "new" /\ receipt[r] = "accepted" /\ effects' = effects
    BY DEF Sound, Fresh, Heard, MarkInProcess, peerVars
  <2>2. queue'[r].status = "delivered" /\ \A q \in Rows \ {r} : queue'[q] = queue[q]
    BY <1>2 DEF Sound, TypeOK, Items
  <2>3. \A q \in Rows : CourierState(q)' = IF q = r THEN "delivered" ELSE CourierState(q)
    BY <2>2 DEF CourierState, Live
  <2>4. CASE queue[r].status = "delivered"
    <3>1. Silent
      BY <2>1, <2>3, <2>4 DEF Silent, CourierState, Live
    <3> QED
      BY <3>1, SilentRefines
  <2>5. CASE queue[r].status # "delivered"
    <3>1. CourierState(r) \in {"open", "dead"}
      BY <1>2, <2>1, <2>5 DEF Sound, TypeOK, Items, Statuses, CourierState, Live
    <3> QED
      BY <3>1, <2>1, <2>3, DeliverRefines
  <2> QED
    BY <2>4, <2>5
<1> QED
  BY <1>1, <1>2 DEF MarkInProcess

LEMMA AnswerRefines ==
  ASSUME Sound, NEW w \in Workers, Answer(w)
  PROVE  Refines
<1>1. worker[w].row \in Rows /\ queue[worker[w].row].status # "new"
  BY DEF Sound, AtWork, Answer
<1> QED
  BY <1>1, AnswersRefines DEF Answer

LEMMA StrayArrivesRefines ==
  ASSUME Sound, NEW r \in Rows, StrayArrives(r)
  PROVE  Refines
<1>1. queue[r].status # "new"
  BY DEF Sound, TypeOK, Fresh, StrayArrives
<1> QED
  BY <1>1, AnswersRefines DEF StrayArrives

\* The lease is no part of what Courier sees.
LEMMA LeaseIsSilent ==
  ASSUME Sound
  PROVE  /\ \A w \in Workers, r \in Rows : Claim(w, r) => Silent
         /\ \A r \in Rows : Expire(r) => Silent
         /\ \A w \in Workers : Renew(w) => Silent
<1>1. ASSUME NEW w \in Workers, NEW r \in Rows, Claim(w, r) PROVE Silent
  <2>1. /\ queue[r].status \in {"pending", "delivering"} /\ queue'[r].status = "delivering"
        /\ \A q \in Rows \ {r} : queue'[q] = queue[q]
    BY <1>1, ClaimEffect
  <2>2. CourierState(r)' = CourierState(r)
    BY <2>1 DEF CourierState, Live
  <2>3. \A q \in Rows \ {r} : CourierState(q)' = CourierState(q)
    BY <2>1 DEF CourierState, Live
  <2>4. effects' = effects
    BY <1>1 DEF Claim, peerVars
  <2> QED
    BY <2>2, <2>3, <2>4 DEF Silent
<1>2. ASSUME NEW r \in Rows, Expire(r) PROVE Silent
  <2>1. \A q \in Rows : queue'[q].status = queue[q].status
    BY <1>2 DEF Sound, TypeOK, Items, Expire
  <2> QED
    BY <1>2, <2>1 DEF Silent, CourierState, Live, Expire, peerVars
<1>3. ASSUME NEW w \in Workers, Renew(w) PROVE Silent
  <2>1. \A q \in Rows : queue'[q].status = queue[q].status
    BY <1>3 DEF Sound, TypeOK, Items, Renew
  <2> QED
    BY <1>3, <2>1 DEF Silent, CourierState, Live, Renew, peerVars
<1> QED
  BY <1>1, <1>2, <1>3

LEMMA StepRefines ==
  ASSUME Sound, Next
  PROVE  Refines
<1> USE DEF peerVars, ownerVars, historyVars
<1>1. ASSUME NEW w \in Workers, WorkerStep(w) PROVE Refines
  <2>1. CASE Send(w) \/ TimeOut(w)
    BY <2>1, AloneIsSilent, SilentRefines DEF Send, TimeOut
  <2> QED
    BY <1>1, <2>1, LeaseIsSilent, SilentRefines, ExhaustRefines, RefuseRefines, FailLocallyRefines,
       AnswerRefines, SettleSuccessRefines, SettleRejectionRefines, SettleFailureRefines
       DEF WorkerStep
<1>2. ASSUME Disturbance PROVE Refines
  <2>1. ASSUME NEW w \in Workers, Abandon(w) PROVE Refines
    BY <2>1, AloneIsSilent, SilentRefines DEF Abandon
  <2>2. ASSUME NEW d \in Domains, WeekPasses(d) PROVE Refines
    BY <2>2, AloneIsSilent, SilentRefines DEF WeekPasses
  <2> QED
    BY <1>2, <2>1, <2>2, LeaseIsSilent, SilentRefines, PostponeRefines, StrayArrivesRefines
       DEF Disturbance
<1>3. ASSUME OwnerStep PROVE Refines
  <2>1. ASSUME NEW r \in Rows, AskRetry(r) PROVE Refines
    BY <2>1, AloneIsSilent, SilentRefines DEF AskRetry
  <2> QED
    BY <1>3, <2>1, EnqueueRefines, DeliverInProcessRefines, MarkInProcessRefines, RetryRefines,
       CancelRefines, RetryAllDeadRefines, DismissRefines, CancelResourceRefines DEF OwnerStep
<1> QED
  BY <1>1, <1>2, <1>3, LeaseIsSilent, SilentRefines DEF Next

\* An activity takes effect at its inbox at most once, it is delivered only when
\* it did, and what was delivered stays so: the queue implements Courier.
THEOREM DeliveryImplementsCourier == Spec => ImplementsCourier
<1>1. Init => Promise!Init
  BY DEF Init, Promise!Init, CourierState, Live, Item
<1>2. Sound /\ [Next]_vars => [Promise!Next]_(Promise!vars)
  <2>1. UNCHANGED vars => UNCHANGED Promise!vars
    BY AloneIsSilent DEF vars, peerVars, Silent, Promise!vars
  <2> QED
    BY <2>1, StepRefines DEF Refines
<1> QED
  BY <1>1, <1>2, DeliverySound, PTL DEF Spec, ImplementsCourier, Promise!Spec

(***************************************************************************)
(* Requests stay within the attempts the owner asked for: what was sent,   *)
(* what the workers that hold a claim may send, and the attempts left.     *)
(***************************************************************************)
Claimants(r) == {w \in Workers : worker[w].pc = "claimed" /\ worker[w].row = r}

\* Attempts beyond the present one.
Room(r) ==
  IF queue[r].status = "pending" THEN MaxAttempts - queue[r].attempts
  ELSE IF queue[r].status = "delivering" /\ queue[r].attempts < MaxAttempts
       THEN MaxAttempts - queue[r].attempts - 1
       ELSE 0

Within(r) == sends[r] + Cardinality(Claimants(r)) + Room(r) <= granted[r]

Budget == \A r \in Rows : Within(r)

Counted ==
  \A r \in Rows :
    /\ IsFiniteSet(Claimants(r)) /\ Cardinality(Claimants(r)) \in Nat
    /\ Room(r) \in Nat /\ sends[r] \in Nat /\ granted[r] \in Nat

LEMMA SoundCounted == Sound => Counted
<1> SUFFICES ASSUME Sound, NEW r \in Rows
             PROVE  /\ IsFiniteSet(Claimants(r)) /\ Cardinality(Claimants(r)) \in Nat
                    /\ Room(r) \in Nat /\ sends[r] \in Nat /\ granted[r] \in Nat
  BY DEF Counted
<1>1. IsFiniteSet(Claimants(r)) /\ Cardinality(Claimants(r)) \in Nat
  BY WorkerAssumption, FS_Subset, FS_CardinalityType DEF Claimants
<1>2. queue[r].attempts \in Nat /\ (queue[r].status = "pending" => queue[r].attempts < MaxAttempts)
  BY DEF Sound, TypeOK, Items
<1>3. Room(r) \in Nat
  BY <1>2, LimitAssumption DEF Room
<1> QED
  BY <1>1, <1>3 DEF Sound, TypeOK

LEMMA BothCounted == Sound /\ Sound' => Counted /\ Counted'
BY SoundCounted, PTL

\* No claim is gained and nothing is sent.
LEMMA WithinKept ==
  ASSUME Sound, Sound', NEW r \in Rows, Within(r), Claimants(r)' \subseteq Claimants(r),
         sends'[r] = sends[r], Room(r)' + granted[r] <= Room(r) + granted'[r]
  PROVE  Within(r)'
<1>1. Counted /\ Counted'
  BY BothCounted
<1>2. Cardinality(Claimants(r)') <= Cardinality(Claimants(r))
  BY <1>1, FS_Subset DEF Counted
<1>3. sends'[r] + Cardinality(Claimants(r)') + Room(r)' <= granted'[r]
  BY <1>1, <1>2 DEF Counted, Within
<1> QED
  BY <1>3 DEF Within

\* The one who sends, or lays a claim down, makes room for one.
LEMMA WithinSpent ==
  ASSUME Sound, Sound', NEW r \in Rows, Within(r),
         NEW w \in Claimants(r), Claimants(r)' \subseteq Claimants(r) \ {w},
         sends'[r] + Room(r)' <= sends[r] + Room(r) + 1, granted'[r] = granted[r]
  PROVE  Within(r)'
<1>1. Counted /\ Counted'
  BY BothCounted
<1>2. Cardinality(Claimants(r) \ {w}) = Cardinality(Claimants(r)) - 1
  BY <1>1, FS_RemoveElement DEF Counted
<1>3. Cardinality(Claimants(r)') <= Cardinality(Claimants(r) \ {w})
  BY <1>1, FS_Subset, FS_RemoveElement DEF Counted
<1>4. sends'[r] + Cardinality(Claimants(r)') + Room(r)' <= granted'[r]
  BY <1>1, <1>2, <1>3 DEF Counted, Within
<1> QED
  BY <1>4 DEF Within

\* A claim takes the room it needs.
LEMMA WithinClaimed ==
  ASSUME Sound, Sound', NEW r \in Rows, Within(r),
         NEW w, Claimants(r)' \subseteq Claimants(r) \cup {w},
         Room(r)' + 1 <= Room(r), sends'[r] = sends[r], granted'[r] = granted[r]
  PROVE  Within(r)'
<1>1. Counted /\ Counted'
  BY BothCounted
<1>2. Cardinality(Claimants(r) \cup {w}) <= Cardinality(Claimants(r)) + 1
  <2>1. Cardinality(Claimants(r) \cup {w}) =
          IF w \in Claimants(r) THEN Cardinality(Claimants(r)) ELSE Cardinality(Claimants(r)) + 1
    BY <1>1, FS_AddElement DEF Counted
  <2> QED
    BY <1>1, <2>1 DEF Counted
<1>3. Cardinality(Claimants(r)') <= Cardinality(Claimants(r) \cup {w})
  BY <1>1, FS_Subset, FS_AddElement DEF Counted
<1>4. Cardinality(Claimants(r) \cup {w}) \in Nat
  BY <1>1, FS_AddElement, FS_CardinalityType DEF Counted
<1>5. sends'[r] + Cardinality(Claimants(r)') + Room(r)' <= granted'[r]
  BY <1>1, <1>2, <1>3, <1>4 DEF Counted, Within
<1> QED
  BY <1>5 DEF Within

\* A row that is not put back: it stays, ends, or waits after an attempt.
Eased(r) ==
  \/ Same(r)
  \/ queue'[r].status \in {"dead", "delivered", "gone"}
  \/ /\ queue[r].status = "delivering" /\ queue'[r].status = "pending"
     /\ queue'[r].attempts = queue[r].attempts + 1

LEMMA EasedRoom ==
  ASSUME Sound, Sound', NEW r \in Rows, Eased(r)
  PROVE  Room(r)' <= Room(r)
<1>1. Counted /\ Counted'
  BY BothCounted
<1>2. queue[r].attempts \in Nat
  BY DEF Sound, TypeOK, Items
<1>3. CASE Same(r)
  BY <1>1, <1>3 DEF Same, Room, Counted
<1>4. CASE queue'[r].status \in {"dead", "delivered", "gone"}
  <2>1. Room(r)' = 0
    BY <1>4 DEF Room
  <2> QED
    BY <1>1, <2>1 DEF Counted
<1>5. CASE /\ queue[r].status = "delivering" /\ queue'[r].status = "pending"
           /\ queue'[r].attempts = queue[r].attempts + 1
  <2>1. Room(r)' = MaxAttempts - (queue[r].attempts + 1)
    BY <1>5 DEF Room
  <2>2. queue[r].attempts + 1 < MaxAttempts
    BY <1>5 DEF Sound, TypeOK
  <2>3. Room(r) = MaxAttempts - queue[r].attempts - 1
    BY <1>2, <1>5, <2>2, LimitAssumption DEF Room
  <2> QED
    BY <1>2, <2>1, <2>3, LimitAssumption
<1> QED
  BY <1>3, <1>4, <1>5 DEF Eased

LEMMA NoClaimGained ==
  WorkersGoOn => \A r \in Rows : Claimants(r)' \subseteq Claimants(r)
BY DEF WorkersGoOn, TaskGoesOn, Claimants, Idle

\* What a step does that spends nothing.
EasesAll ==
  /\ WorkersGoOn /\ UNCHANGED <<sends, granted>>
  /\ \A r \in Rows : Eased(r)

LEMMA EasesAllKeeps ==
  ASSUME Sound, Sound', Budget, EasesAll
  PROVE  Budget'
<1> SUFFICES ASSUME NEW r \in Rows PROVE Within(r)'
  BY DEF Budget
<1>1. Room(r)' + granted[r] <= Room(r) + granted'[r]
  <2>1. Room(r)' <= Room(r) /\ granted'[r] = granted[r]
    BY EasedRoom DEF EasesAll
  <2> QED
    BY <2>1, BothCounted DEF Counted
<1> QED
  BY <1>1, NoClaimGained, WithinKept DEF EasesAll, Budget

LEMMA AloneEases == Sound /\ UNCHANGED queue => \A r \in Rows : Eased(r)
BY DEF Eased, Same

\* The worker that settles knows the attempts of the row it still owns.
LEMMA SettleEases ==
  ASSUME Sound, NEW w \in Workers, worker[w].pc # "idle", NEW item,
         item.status = "pending" => item.attempts = worker[w].attempts + 1,
         item.status \in {"pending", "dead", "delivered"}, Settle(w, item)
  PROVE  \A r \in Rows : Eased(r)
<1>1. CASE ~Owns(w)
  BY <1>1, AloneEases DEF Settle
<1>2. CASE Owns(w)
  <2> DEFINE q == worker[w].row
  <2>1. /\ q \in Rows /\ queue[q].status = "delivering" /\ worker[w].attempts = queue[q].attempts
        /\ queue' = [queue EXCEPT ![q] = item]
    BY <1>2 DEF Sound, AtWork, Current, Owns, Settle
  <2> HIDE DEF q
  <2>2. Eased(q)
    BY <2>1 DEF Sound, TypeOK, Eased
  <2>3. \A r \in Rows \ {q} : Same(r)
    BY <2>1 DEF Sound, TypeOK, Same
  <2> QED
    BY <2>2, <2>3 DEF Eased
<1> QED
  BY <1>1, <1>2

LEMMA QuietEases ==
  ASSUME Sound, GoesOn, UNCHANGED <<queue, sends, granted>>
  PROVE  EasesAll
BY AloneEases DEF GoesOn, EasesAll

LEMMA AnswerEases ==
  ASSUME Sound, NEW w \in Workers, Answer(w) \/ TimeOut(w) \/ Abandon(w)
  PROVE  EasesAll
<1>1. GoesOn
  BY AnswerGoesOn, TimeOutGoesOn, AbandonGoesOn
<1> QED
  BY <1>1, QuietEases DEF Answer, TimeOut, Abandon, historyVars

LEMMA PeerEases ==
  ASSUME Sound, NEW r \in Rows, StrayArrives(r) \/ DeliverInProcess(r) \/ AskRetry(r)
  PROVE  EasesAll
<1>1. GoesOn
  BY StrayArrivesGoesOn, DeliverInProcessGoesOn, AskRetryGoesOn
<1> QED
  BY <1>1, QuietEases DEF StrayArrives, DeliverInProcess, AskRetry, historyVars

LEMMA WeekPassesEases ==
  ASSUME Sound, NEW d \in Domains, WeekPasses(d)
  PROVE  EasesAll
<1>1. GoesOn
  BY WeekPassesGoesOn
<1> QED
  BY <1>1, QuietEases DEF WeekPasses, historyVars

LEMMA LeaseEases ==
  ASSUME Sound
  PROVE  /\ \A r \in Rows : Expire(r) => EasesAll
         /\ \A w \in Workers : Renew(w) => EasesAll
<1>1. ASSUME NEW r \in Rows, Expire(r) PROVE EasesAll
  <2>1. \A q \in Rows : Same(q)
    BY <1>1 DEF Sound, TypeOK, Items, Same, Expire
  <2> QED
    BY <1>1, <2>1, ExpireGoesOn DEF GoesOn, EasesAll, Eased, Expire, historyVars
<1>2. ASSUME NEW w \in Workers, Renew(w) PROVE EasesAll
  <2>1. \A q \in Rows : Same(q)
    BY <1>2 DEF Sound, TypeOK, Items, Same, Renew
  <2> QED
    BY <1>2, <2>1, RenewGoesOn DEF GoesOn, EasesAll, Eased, Renew, historyVars
<1> QED
  BY <1>1, <1>2

LEMMA ExhaustEases ==
  ASSUME Sound, NEW w \in Workers, Exhaust(w)
  PROVE  EasesAll
<1>1. \A status \in Statuses, attempts \in Nat :
        Item(status, attempts).status = status /\ Item(status, attempts).attempts = attempts
  BY DEF Item
<1>2. worker[w].attempts \in Nat /\ worker[w].attempts + 1 \in Nat
  BY DEF Sound, TypeOK, Tasks
<1>3. \A r \in Rows : Eased(r)
  BY <1>1, <1>2, SettleEases DEF Statuses, Exhaust
<1> QED
  BY <1>3, ExhaustGoesOn DEF GoesOn, EasesAll, Exhaust, historyVars

LEMMA RefuseEases ==
  ASSUME Sound, NEW w \in Workers, Refuse(w)
  PROVE  EasesAll
<1>1. \A status \in Statuses, attempts \in Nat :
        Item(status, attempts).status = status /\ Item(status, attempts).attempts = attempts
  BY DEF Item
<1>2. worker[w].attempts \in Nat /\ worker[w].attempts + 1 \in Nat
  BY DEF Sound, TypeOK, Tasks
<1>3. \A r \in Rows : Eased(r)
  BY <1>1, <1>2, SettleEases DEF Statuses, Refuse
<1> QED
  BY <1>3, RefuseGoesOn DEF GoesOn, EasesAll, Refuse, historyVars

LEMMA FailLocallyEases ==
  ASSUME Sound, NEW w \in Workers, FailLocally(w)
  PROVE  EasesAll
<1>1. \A status \in Statuses, attempts \in Nat :
        Item(status, attempts).status = status /\ Item(status, attempts).attempts = attempts
  BY DEF Item
<1>2. worker[w].attempts \in Nat /\ worker[w].attempts + 1 \in Nat
  BY DEF Sound, TypeOK, Tasks
<1>3. \A r \in Rows : Eased(r)
  BY <1>1, <1>2, SettleEases DEF Statuses, FailLocally, Again
<1> QED
  BY <1>3, FailLocallyGoesOn DEF GoesOn, EasesAll, FailLocally, historyVars

LEMMA SettleRejectionEases ==
  ASSUME Sound, NEW w \in Workers, SettleRejection(w)
  PROVE  EasesAll
<1>1. \A status \in Statuses, attempts \in Nat :
        Item(status, attempts).status = status /\ Item(status, attempts).attempts = attempts
  BY DEF Item
<1>2. worker[w].attempts \in Nat /\ worker[w].attempts + 1 \in Nat
  BY DEF Sound, TypeOK, Tasks
<1>3. \A r \in Rows : Eased(r)
  BY <1>1, <1>2, SettleEases DEF Statuses, SettleRejection
<1> QED
  BY <1>3, SettleRejectionGoesOn DEF GoesOn, EasesAll, SettleRejection, historyVars

LEMMA SettleSuccessEases ==
  ASSUME Sound, NEW w \in Workers, SettleSuccess(w)
  PROVE  EasesAll
<1>1. \A status \in Statuses, attempts \in Nat :
        Item(status, attempts).status = status /\ Item(status, attempts).attempts = attempts
  BY DEF Item
<1>2. queue[worker[w].row].attempts \in Nat
  BY DEF Sound, TypeOK, Items, AtWork, SettleSuccess
<1>3. \A r \in Rows : Eased(r)
  BY <1>1, <1>2, SettleEases DEF Statuses, SettleSuccess
<1> QED
  BY <1>3, SettleSuccessGoesOn DEF GoesOn, EasesAll, SettleSuccess, historyVars

LEMMA SettleFailureEases ==
  ASSUME Sound, NEW w \in Workers, SettleFailure(w)
  PROVE  EasesAll
<1> DEFINE q == worker[w].row
           item == Again(worker[w].attempts + 1)
<1>1. CASE ~Owns(w)
  BY <1>1, SettleFailureGoesOn, QuietEases DEF SettleFailure, historyVars
<1>2. CASE Owns(w)
  <2>1. /\ q \in Rows /\ queue[q].status = "delivering" /\ worker[w].attempts = queue[q].attempts
        /\ \/ queue' = [queue EXCEPT ![q] = item]
           \/ queue' = [r \in Rows |-> Swept(item, r, w)]
    BY <1>2 DEF Sound, AtWork, Current, Owns, SettleFailure
  <2>2. item.status = "dead" \/ (item.status = "pending" /\ item.attempts = worker[w].attempts + 1)
    BY DEF Again, Item
  <2>3. ASSUME NEW r \in Rows PROVE Eased(r)
    <3> DEFINE own == IF r = q THEN item ELSE queue[r]
               dead == [Item("dead", own.attempts) EXCEPT !.cancelled = TRUE]
    <3>1. queue'[r] = own \/ queue'[r] = dead
      BY <2>1 DEF Sound, TypeOK, Swept
    <3>2. dead.status = "dead"
      BY DEF Item
    <3>3. CASE queue'[r] = own
      BY <2>1, <2>2, <3>3 DEF Eased, Same
    <3> QED
      BY <3>1, <3>2, <3>3 DEF Eased
  <2> QED
    BY <2>3, SettleFailureGoesOn DEF GoesOn, EasesAll, SettleFailure, historyVars
<1> QED
  BY <1>1, <1>2

LEMMA MarkInProcessEases ==
  ASSUME Sound, NEW r \in Rows, MarkInProcess(r)
  PROVE  EasesAll
<1>1. \A q \in Rows : Eased(q)
  BY DEF Sound, TypeOK, Items, Eased, Same, MarkInProcess
<1> QED
  BY <1>1, MarkInProcessGoesOn DEF GoesOn, EasesAll, MarkInProcess, historyVars

LEMMA CancelledEases ==
  ASSUME Sound, NEW S \in SUBSET Rows, Cancelled(S)
  PROVE  \A r \in Rows : Eased(r)
BY DEF Cancelled, Item, Eased, Same

LEMMA CancelEases ==
  ASSUME Sound, NEW S \in SUBSET Rows, Cancel(S)
  PROVE  EasesAll
BY CancelledEases, CancelGoesOn DEF GoesOn, EasesAll, Cancel, historyVars

LEMMA CancelResourceEases ==
  ASSUME Sound, CancelResource
  PROVE  EasesAll
<1>1. {r \in Resource : Live(r)} \in SUBSET Rows
  BY RowAssumption
<1> QED
  BY <1>1, CancelledEases, CancelResourceGoesOn
     DEF GoesOn, EasesAll, CancelResource, historyVars

LEMMA DismissEases ==
  ASSUME Sound, NEW S \in SUBSET Rows, Dismiss(S)
  PROVE  EasesAll
<1>1. \A r \in Rows : Eased(r)
  BY DEF Item, Eased, Same, Dismiss
<1> QED
  BY <1>1, DismissGoesOn DEF GoesOn, EasesAll, Dismiss, historyVars

LEMMA ClaimBudget ==
  ASSUME Sound, Sound', Budget, NEW w \in Workers, NEW r \in Rows, Claim(w, r)
  PROVE  Budget'
<1>1. sends' = sends /\ granted' = granted
  BY DEF Claim, historyVars
<1>2. Counted /\ Counted'
  BY BothCounted
<1>3. \A v \in Workers \ {w} : worker'[v] = worker[v]
  BY ClaimEffect
<1>4. ASSUME NEW q \in Rows, q # r PROVE Within(q)'
  <2>1. Claimants(q)' \subseteq Claimants(q)
    BY <1>4, <1>3, ClaimEffect DEF Claimants
  <2>2. queue'[q] = queue[q]
    BY <1>4, ClaimEffect
  <2>3. Room(q)' = Room(q)
    BY <2>2 DEF Room
  <2> QED
    BY <1>1, <1>2, <2>1, <2>3, WithinKept DEF Counted, Budget
<1>5. Within(r)'
  <2>1. queue[r].attempts \in Nat /\ queue'[r].status = "delivering"
        /\ queue'[r].attempts = AttemptsAtClaim(r) /\ queue[r].status \in {"pending", "delivering"}
    BY ClaimEffect DEF Sound, TypeOK, Items
  <2>2. CASE worker'[w].pc = "claimed"
    <3>1. AttemptsAtClaim(r) < MaxAttempts
      BY <2>2, ClaimEffect
    <3>2. Room(r)' = MaxAttempts - AttemptsAtClaim(r) - 1
      BY <2>1, <3>1 DEF Room
    <3>3. Room(r) = MaxAttempts - AttemptsAtClaim(r)
      BY <2>1, <3>1, LimitAssumption DEF Room, AttemptsAtClaim
    <3>4. AttemptsAtClaim(r) \in Nat
      BY <2>1 DEF AttemptsAtClaim
    <3>5. Room(r)' + 1 <= Room(r)
      BY <3>2, <3>3, <3>4, LimitAssumption
    <3>6. Claimants(r)' \subseteq Claimants(r) \cup {w}
      BY <1>3 DEF Claimants
    <3> QED
      BY <1>1, <3>5, <3>6, WithinClaimed DEF Budget
  <2>3. CASE worker'[w].pc # "claimed"
    <3>1. AttemptsAtClaim(r) >= MaxAttempts /\ AttemptsAtClaim(r) \in Nat
      BY <2>1, <2>3, ClaimEffect DEF AttemptsAtClaim
    <3>2. Room(r)' = 0
      BY <2>1, <3>1, LimitAssumption DEF Room
    <3>3. Claimants(r)' \subseteq Claimants(r)
      BY <1>3, <2>3 DEF Claimants
    <3> QED
      BY <1>1, <1>2, <3>2, <3>3, WithinKept DEF Counted, Budget
  <2> QED
    BY <2>2, <2>3
<1> QED
  BY <1>4, <1>5 DEF Budget

\* The claim of a worker, once it is used, is gone.
LEMMA ClaimUsed ==
  ASSUME Sound, WorkersGoOn, NEW w \in Workers, worker[w].pc = "claimed",
         worker'[w].pc # "claimed"
  PROVE  \E q \in Rows :
           /\ q = worker[w].row /\ w \in Claimants(q)
           /\ Claimants(q)' \subseteq Claimants(q) \ {w}
           /\ \A r \in Rows : Claimants(r)' \subseteq Claimants(r)
<1>1. PICK q \in Rows : q = worker[w].row
  BY DEF Sound, AtWork
<1>4. w \in Claimants(q)
  BY <1>1 DEF Claimants
<1>2. \A r \in Rows : Claimants(r)' \subseteq Claimants(r)
  BY NoClaimGained
<1>3. \A r \in Rows : w \notin Claimants(r)'
  BY DEF Claimants
<1> QED
  BY <1>1, <1>2, <1>3, <1>4

LEMMA SendBudget ==
  ASSUME Sound, Sound', Budget, NEW w \in Workers, Send(w)
  PROVE  Budget'
<1>1. WorkersGoOn /\ worker[w].pc = "claimed" /\ worker'[w].pc # "claimed"
  <2>1. worker'[w] = [worker[w] EXCEPT !.pc = "posted"] /\ worker[w] \in Tasks
    BY DEF Sound, TypeOK, Send
  <2>2. worker'[w].pc = "posted"
    BY <2>1 DEF Tasks
  <2> QED
    BY <2>2, SendGoesOn DEF GoesOn, Send
<1>q. PICK q \in Rows : /\ q = worker[w].row /\ w \in Claimants(q)
                        /\ Claimants(q)' \subseteq Claimants(q) \ {w}
                        /\ \A r \in Rows : Claimants(r)' \subseteq Claimants(r)
  BY <1>1, ClaimUsed
<1>2. Counted /\ Counted'
  BY BothCounted
<1>3. \A r \in Rows : Room(r)' = Room(r)
  BY DEF Room, Send
<1>4. sends' = [sends EXCEPT ![q] = sends[q] + 1] /\ granted' = granted
  BY <1>q DEF Send
<1>5. Within(q)'
  <2>1. sends'[q] + Room(q)' <= sends[q] + Room(q) + 1
    BY <1>2, <1>3, <1>4 DEF Counted, Sound, TypeOK
  <2> QED
    BY <1>q, <1>4, <2>1, WithinSpent DEF Budget
<1>6. ASSUME NEW r \in Rows, r # q PROVE Within(r)'
  <2>1. sends'[r] = sends[r] /\ Room(r)' + granted[r] <= Room(r) + granted'[r]
    BY <1>2, <1>3, <1>4, <1>6 DEF Counted, Sound, TypeOK
  <2> QED
    BY <1>q, <2>1, WithinKept DEF Budget
<1> QED
  BY <1>5, <1>6 DEF Budget

LEMMA PostponeBudget ==
  ASSUME Sound, Sound', Budget, NEW w \in Workers, Postpone(w)
  PROVE  Budget'
<1> DEFINE item == Item("pending", worker[w].attempts)
<1>1. WorkersGoOn /\ worker[w].pc = "claimed" /\ worker'[w].pc # "claimed"
  BY PostponeGoesOn, IdleTyped DEF Sound, TypeOK, GoesOn, Postpone, Settle, Finish
<1>2. Counted /\ Counted'
  BY BothCounted
<1>q. PICK q \in Rows : /\ q = worker[w].row /\ w \in Claimants(q)
                        /\ Claimants(q)' \subseteq Claimants(q) \ {w}
                        /\ \A r \in Rows : Claimants(r)' \subseteq Claimants(r)
  BY <1>1, ClaimUsed
<1>3. sends' = sends /\ granted' = granted
  BY DEF Postpone, historyVars
<1>4. /\ \A r \in Rows \ {q} : Room(r)' = Room(r)
      /\ Room(q)' <= Room(q) + 1
  <2>1. CASE ~Owns(w)
    <3>1. \A r \in Rows : Room(r)' = Room(r)
      BY <2>1 DEF Postpone, Settle, Room
    <3> QED
      BY <1>2, <3>1 DEF Counted
  <2>2. CASE Owns(w)
    <3>1. /\ queue' = [queue EXCEPT ![q] = item] /\ queue[q].status = "delivering"
          /\ queue[q].attempts = worker[w].attempts /\ worker[w].attempts < MaxAttempts
          /\ worker[w].attempts \in Nat
      BY <2>2, <1>q DEF Sound, TypeOK, Tasks, Current, HasAttempt, Owns, Postpone, Settle
    <3>2. item.status = "pending" /\ item.attempts = worker[w].attempts
      BY DEF Item
    <3> HIDE DEF item
    <3>3. queue'[q] = item /\ \A r \in Rows \ {q} : queue'[r] = queue[r]
      BY <3>1 DEF Sound, TypeOK
    <3>4. Room(q)' = MaxAttempts - worker[w].attempts
      BY <3>2, <3>3 DEF Room
    <3>5. Room(q) = MaxAttempts - worker[w].attempts - 1
      BY <3>1 DEF Room
    <3>6. \A r \in Rows \ {q} : Room(r)' = Room(r)
      BY <3>3 DEF Room
    <3> QED
      BY <3>1, <3>4, <3>5, <3>6, LimitAssumption
  <2> QED
    BY <2>1, <2>2
<1>5. Within(q)'
  <2>1. sends'[q] + Room(q)' <= sends[q] + Room(q) + 1
    BY <1>2, <1>3, <1>4 DEF Counted
  <2> QED
    BY <1>q, <1>3, <2>1, WithinSpent DEF Budget
<1>6. ASSUME NEW r \in Rows, r # q PROVE Within(r)'
  <2>1. sends'[r] = sends[r] /\ Room(r)' + granted[r] <= Room(r) + granted'[r]
    BY <1>2, <1>3, <1>4, <1>6 DEF Counted
  <2> QED
    BY <1>q, <2>1, WithinKept DEF Budget
<1> QED
  BY <1>5, <1>6 DEF Budget

\* Rows put back get the attempts they are granted.
LEMMA RequeuedBudget ==
  ASSUME Sound, Sound', Budget, NEW S \in SUBSET Rows, Requeued(S), UNCHANGED <<worker, sends>>
  PROVE  Budget'
<1> SUFFICES ASSUME NEW r \in Rows PROVE Within(r)'
  BY DEF Budget
<1>1. Counted /\ Counted'
  BY BothCounted
<1>2. Claimants(r)' \subseteq Claimants(r) /\ sends'[r] = sends[r]
  BY DEF Claimants
<1>3. CASE r \in S
  <2>1. granted'[r] = granted[r] + MaxAttempts /\ queue'[r] = Item("pending", 0)
    BY <1>3 DEF Requeued
  <2>2. Room(r)' = MaxAttempts
    BY <2>1, LimitAssumption DEF Room, Item
  <2>3. Room(r)' + granted[r] <= Room(r) + granted'[r]
    BY <1>1, <2>1, <2>2, LimitAssumption DEF Counted
  <2> QED
    BY <1>2, <2>3, WithinKept DEF Budget
<1>4. CASE r \notin S
  <2>1. granted'[r] = granted[r] /\ Room(r)' = Room(r)
    BY <1>4 DEF Requeued, Room
  <2>2. Room(r)' + granted[r] <= Room(r) + granted'[r]
    BY <1>1, <2>1 DEF Counted
  <2> QED
    BY <1>2, <2>2, WithinKept DEF Budget
<1> QED
  BY <1>3, <1>4

LEMMA RetryBudget ==
  ASSUME Sound, Sound', Budget, NEW r \in Rows, Retry(r)
  PROVE  Budget'
<1>1. CASE Retriable(r)
  BY <1>1, RequeuedBudget DEF Retry
<1>2. CASE ~Retriable(r)
  <2>1. GoesOn /\ UNCHANGED <<queue, sends, granted>>
    BY <1>2, RetryGoesOn DEF Retry
  <2> QED
    BY <2>1, QuietEases, EasesAllKeeps
<1> QED
  BY <1>1, <1>2

LEMMA EnqueueBudget ==
  ASSUME Sound, Sound', Budget, NEW r \in Rows, Enqueue(r)
  PROVE  Budget'
<1> SUFFICES ASSUME NEW q \in Rows PROVE Within(q)'
  BY DEF Budget
<1>1. Counted /\ Counted'
  BY BothCounted
<1>2. Claimants(q)' \subseteq Claimants(q) /\ sends'[q] = sends[q]
  BY DEF Claimants, Enqueue
<1>3. CASE q = r
  <2>1. granted[q] = 0 /\ granted'[q] = MaxAttempts /\ queue'[q] = Item("pending", 0)
    BY <1>3 DEF Sound, TypeOK, Fresh, Enqueue
  <2>2. Room(q)' = MaxAttempts
    BY <2>1, LimitAssumption DEF Room, Item
  <2>3. Room(q)' + granted[q] <= Room(q) + granted'[q]
    BY <1>1, <2>1, <2>2, LimitAssumption DEF Counted
  <2> QED
    BY <1>2, <2>3, WithinKept DEF Budget
<1>4. CASE q # r
  <2>1. granted'[q] = granted[q] /\ queue'[q] = queue[q]
    BY <1>4 DEF Sound, TypeOK, Enqueue
  <2>2. Room(q)' + granted[q] <= Room(q) + granted'[q]
    BY <1>1, <2>1 DEF Counted, Room
  <2> QED
    BY <1>2, <2>2, WithinKept DEF Budget
<1> QED
  BY <1>3, <1>4

LEMMA StepBudget ==
  ASSUME Sound, Sound', Budget, Next
  PROVE  Budget'
<1>1. ASSUME NEW w \in Workers, WorkerStep(w) PROVE Budget'
  <2>1. CASE Exhaust(w) \/ Refuse(w) \/ FailLocally(w) \/ Answer(w) \/ TimeOut(w)
             \/ SettleSuccess(w) \/ SettleRejection(w) \/ SettleFailure(w)
    <3>1. EasesAll
      BY <2>1, ExhaustEases, RefuseEases, FailLocallyEases, AnswerEases, SettleSuccessEases,
         SettleRejectionEases, SettleFailureEases
    <3> QED
      BY <3>1, EasesAllKeeps
  <2> QED
    BY <1>1, <2>1, ClaimBudget, SendBudget DEF WorkerStep
<1>2. ASSUME Disturbance PROVE Budget'
  <2>1. (\E w \in Workers : Postpone(w)) \/ EasesAll
    BY <1>2, AnswerEases, LeaseEases, PeerEases, WeekPassesEases DEF Disturbance
  <2> QED
    BY <2>1, PostponeBudget, EasesAllKeeps
<1>3. ASSUME OwnerStep PROVE Budget'
  <2>1. ASSUME NEW S \in SUBSET Rows, RetryAllDead(S) PROVE Budget'
    BY <2>1, RequeuedBudget DEF RetryAllDead
  <2>2. \/ \E r \in Rows : Enqueue(r) \/ Retry(r)
        \/ \E S \in SUBSET Rows : RetryAllDead(S)
        \/ EasesAll
    BY <1>3, PeerEases, MarkInProcessEases, CancelEases, DismissEases, CancelResourceEases
       DEF OwnerStep
  <2> QED
    BY <2>1, <2>2, EnqueueBudget, RetryBudget, EasesAllKeeps
<1>4. ASSUME NEW r \in Rows, Expire(r) PROVE Budget'
  BY <1>4, LeaseEases, EasesAllKeeps
<1> QED
  BY <1>1, <1>2, <1>3, <1>4 DEF Next

LEMMA InitBudget == Init => Budget
<1> SUFFICES ASSUME Init, NEW r \in Rows PROVE Within(r)
  BY DEF Budget
<1>1. Claimants(r) = {}
  BY DEF Init, Claimants, Idle
<1>2. sends[r] = 0 /\ granted[r] = 0 /\ Room(r) = 0
  BY DEF Init, Room, Item
<1> QED
  BY <1>1, <1>2, FS_EmptySet DEF Within

\* An inbox never gets more requests for a row than the attempts its owner asked
\* for, however leases expire and workers die.
THEOREM DeliverySendsBounded == Spec => []SendsBounded
<1>1. Budget /\ Sound /\ Sound' /\ [Next]_vars => Budget'
  <2>1. Sound /\ UNCHANGED vars => EasesAll
    BY AloneEases, WorkersAlone DEF vars, historyVars, EasesAll
  <2> QED
    BY <2>1, StepBudget, EasesAllKeeps
<1>2. Sound /\ Budget => SendsBounded
  <2> SUFFICES ASSUME Sound, Budget, NEW r \in Rows PROVE sends[r] <= granted[r]
    BY DEF SendsBounded
  <2> QED
    BY SoundCounted DEF Counted, Budget, Within
<1> QED
  BY <1>1, <1>2, InitBudget, DeliverySound, PTL DEF Spec

(***************************************************************************)
(* What was cancelled.                                                     *)
(***************************************************************************)
Sticks ==
  \A r \in Rows :
    queue[r].status = "dead" /\ queue[r].cancelled /\ queue'[r] # queue[r]
      => \/ queue'[r].status = "gone"
         \/ r \in asked \ asked'
         \/ inProcess[r] = "mark"

\* A worker changes a row that is being delivered, and a claim one that waits.
LEMMA WorkSticks ==
  ASSUME Sound, NEW w \in Workers, worker[w].pc # "idle", NEW item, Settle(w, item)
  PROVE  Sticks
<1>1. CASE ~Owns(w)
  BY <1>1 DEF Sticks, Settle
<1>2. CASE Owns(w)
  <2>1. /\ worker[w].row \in Rows /\ queue[worker[w].row].status = "delivering"
        /\ queue' = [queue EXCEPT ![worker[w].row] = item]
    BY <1>2 DEF Sound, AtWork, Owns, Settle
  <2> QED
    BY <2>1 DEF Sound, TypeOK, Sticks
<1> QED
  BY <1>1, <1>2

LEMMA SweepSticks ==
  ASSUME Sound, NEW w \in Workers, SettleFailure(w)
  PROVE  Sticks
<1> DEFINE item == Again(worker[w].attempts + 1)
<1>1. CASE ~Owns(w)
  BY <1>1 DEF SettleFailure, Sticks
<1>2. CASE Owns(w)
  <2>1. /\ worker[w].row \in Rows /\ queue[worker[w].row].status = "delivering"
        /\ \/ queue' = [queue EXCEPT ![worker[w].row] = item]
           \/ queue' = [r \in Rows |-> Swept(item, r, w)]
    BY <1>2 DEF Sound, AtWork, Owns, SettleFailure
  <2>2. ASSUME NEW r \in Rows, queue[r].status = "dead" PROVE queue'[r] = queue[r]
    BY <2>1, <2>2 DEF Sound, TypeOK, Swept
  <2> QED
    BY <2>2 DEF Sticks
<1> QED
  BY <1>1, <1>2

LEMMA StepSticks ==
  ASSUME Sound, Next
  PROVE  Sticks
<1> USE DEF ownerVars
<1>1. ASSUME NEW w \in Workers, WorkerStep(w) PROVE Sticks
  <2>1. ASSUME NEW r \in Rows, Claim(w, r) PROVE Sticks
    <3>1. queue[r].status \in {"pending", "delivering"} /\ \A q \in Rows \ {r} : queue'[q] = queue[q]
      BY <2>1, ClaimEffect
    <3> QED
      BY <3>1 DEF Sticks
  <2>2. CASE Exhaust(w) \/ Refuse(w) \/ FailLocally(w) \/ SettleSuccess(w) \/ SettleRejection(w)
    BY <2>2, WorkSticks DEF Exhaust, Refuse, FailLocally, SettleSuccess, SettleRejection
  <2>3. CASE Send(w) \/ Answer(w) \/ TimeOut(w)
    BY <2>3 DEF Send, Answer, TimeOut, Sticks
  <2> QED
    BY <1>1, <2>1, <2>2, <2>3, SweepSticks DEF WorkerStep
<1>2. ASSUME Disturbance PROVE Sticks
  <2>1. ASSUME NEW w \in Workers, Postpone(w) PROVE Sticks
    BY <2>1, WorkSticks DEF Postpone
  <2>2. ASSUME NEW w \in Workers, Renew(w) PROVE Sticks
    BY <2>2 DEF Sound, TypeOK, AtWork, Owns, Sticks, Renew
  <2>3. UNCHANGED queue => Sticks
    BY DEF Sticks
  <2> QED
    BY <1>2, <2>1, <2>2, <2>3 DEF Disturbance, Abandon, StrayArrives, WeekPasses
<1>3. ASSUME OwnerStep PROVE Sticks
  <2>1. ASSUME NEW r \in Rows, Enqueue(r) \/ MarkInProcess(r) PROVE Sticks
    BY <2>1 DEF Sound, TypeOK, Sticks, Enqueue, MarkInProcess
  <2>2. ASSUME NEW r \in Rows, Retry(r) PROVE Sticks
    BY <2>2 DEF Sticks, Requeued, Retry
  <2>3. ASSUME NEW r \in Rows, AskRetry(r) \/ DeliverInProcess(r) PROVE Sticks
    BY <2>3 DEF Sticks, AskRetry, DeliverInProcess
  <2>4. ASSUME NEW S \in SUBSET Rows, Cancel(S) \/ RetryAllDead(S) \/ Dismiss(S) PROVE Sticks
    <3>1. Cancel(S) => Sticks
      BY DEF Sticks, Cancel, Cancelled, Live
    <3>2. RetryAllDead(S) => Sticks
      BY DEF Sticks, RetryAllDead, Requeued
    <3>3. Dismiss(S) => Sticks
      BY DEF Sticks, Dismiss, Item
    <3> QED
      BY <2>4, <3>1, <3>2, <3>3
  <2>5. CancelResource => Sticks
    BY DEF Sticks, CancelResource, Cancelled, Live
  <2> QED
    BY <1>3, <2>1, <2>2, <2>3, <2>4, <2>5 DEF OwnerStep
<1>4. ASSUME NEW r \in Rows, Expire(r) PROVE Sticks
  BY <1>4 DEF Sound, TypeOK, Sticks, Expire
<1> QED
  BY <1>1, <1>2, <1>3, <1>4 DEF Next

\* A cancelled row comes back only when its owner retries that very row, or a
\* local inbox had already accepted it.
THEOREM DeliveryCancelSticks == Spec => CancelSticks
<1>1. Sound /\ [Next]_vars => [Sticks]_vars
  BY StepSticks
<1> QED
  BY <1>1, DeliverySound, PTL DEF Spec, CancelSticks, Sticks

=============================================================================
