------------------------------ MODULE MLEngine ------------------------------
(***************************************************************************)
(* The anomaly scorer (MLEngine, backend/app/services/ml_engine.py): it is *)
(* trained at start and again after every retrain_interval scores.  Only   *)
(* scores count, so a scorer that gives none is not trained again.         *)
(*                                                                         *)
(* Two threads share _scaler and _model.  The event loop trains: each is   *)
(* replaced by an object that is not fitted yet and then fitted, without   *)
(* an await in between, so nothing else runs on the loop meanwhile.  The   *)
(* one worker of the executor predicts: it reads the scaler, then the      *)
(* model, whatever the loop is doing to them.                              *)
(*                                                                         *)
(* What scikit-learn computes is left out; of it the module keeps that an  *)
(* object that is not fitted raises.                                       *)
(***************************************************************************)
EXTENDS Integers, Sequences

CONSTANTS
    Events,         \* events that may be analysed
    MinEvents,      \* rows a training needs (50)
    Interval,       \* retrain_interval (100)
    MaxMLFailures   \* bound: selects and fits that fail

ASSUME MLAssumption ==
    /\ MinEvents \in Nat
    /\ Interval \in Nat \ {0}
    /\ MaxMLFailures \in Nat

VARIABLES
    stored,      \* rows of table events within the last 24 hours
    scaler,      \* _scaler: the training that made it (0: None) and whether it is fitted
    model,       \* _model, likewise
    trained,     \* _trained
    count,       \* _event_count
    training,    \* the trainings of this process, in the order they were started, and
                 \* how far each is
    fitting,     \* the training whose fit holds the event loop, or 0
    jobs,        \* predictions the executor has not finished, oldest first
    worker,      \* the executor's thread
    call,        \* the calls of score(), by event
    mlFailures   \* history, for the bound

mlVars == <<stored, scaler, model, trained, count, training, fitting, jobs, worker, call,
            mlFailures>>

-----------------------------------------------------------------------------
Nothing == [of |-> 0, fitted |-> FALSE]

\* A prediction: the training of the scaler it used (0 before transform()) and
\* whether a fit was under way since (history).
Free == [scaler |-> 0, disturbed |-> FALSE]

\* A call of score(): where it is, and what it computed: the trainings of the
\* scaler and the model behind the number, and the history of its prediction.
NoCall == [stage |-> "absent", scaler |-> 0, model |-> 0, disturbed |-> FALSE]
NoneReturned(e) == [call EXCEPT ![e] = [NoCall EXCEPT !.stage = "none"]]

Available == trained
HasModel == model.of # 0
LoopIsFree == fitting = 0

MLFails == mlFailures < MaxMLFailures /\ mlFailures' = mlFailures + 1
MLWorks == UNCHANGED mlFailures

MLInit ==
    /\ stored \in Nat
    /\ scaler = Nothing /\ model = Nothing
    /\ trained = FALSE /\ count = 0
    /\ training = <<>> /\ fitting = 0
    /\ jobs = <<>> /\ worker = Free
    /\ call = [e \in Events |-> NoCall]
    /\ mlFailures = 0

-----------------------------------------------------------------------------
(* Training. *)

\* init_async: the training of the start.
StartTraining ==
    /\ training = <<>>
    /\ training' = <<"selecting">>
    /\ UNCHANGED <<stored, scaler, model, trained, count, fitting, jobs, worker, call, mlFailures>>

TrainingAt(k, stage) == k \in DOMAIN training /\ training[k] = stage

\* The rows of the last day are selected; with fewer than MinEvents of them the
\* training is over.
SelectRows(k) ==
    /\ LoopIsFree
    /\ TrainingAt(k, "selecting")
    /\ training' = [training EXCEPT ![k] = IF stored < MinEvents THEN "over" ELSE "selected"]
    /\ MLWorks
    /\ UNCHANGED <<stored, scaler, model, trained, count, fitting, jobs, worker, call>>

\* "ML training error"
SelectRowsFails(k) ==
    /\ LoopIsFree
    /\ TrainingAt(k, "selecting")
    /\ training' = [training EXCEPT ![k] = "over"]
    /\ MLFails
    /\ UNCHANGED <<stored, scaler, model, trained, count, fitting, jobs, worker, call>>

\* A prediction that has its scaler learns that a fit is under way.
Disturbed == [worker EXCEPT !.disturbed = worker.scaler # 0]

NewScaler(k) ==
    /\ LoopIsFree
    /\ TrainingAt(k, "selected")
    /\ fitting' = k
    /\ scaler' = [of |-> k, fitted |-> FALSE]
    /\ training' = [training EXCEPT ![k] = "scaler"]
    /\ worker' = Disturbed
    /\ UNCHANGED <<stored, model, trained, count, jobs, call, mlFailures>>

\* fit_transform of the scaler, then the new model.
FitScaler(k) ==
    /\ TrainingAt(k, "scaler")
    /\ scaler' = [scaler EXCEPT !.fitted = TRUE]
    /\ training' = [training EXCEPT ![k] = "scaled"]
    /\ worker' = Disturbed
    /\ MLWorks
    /\ UNCHANGED <<stored, model, trained, count, fitting, jobs, call>>

\* A retraining that fits the scaler anew and keeps the model it has.
NewModel_Kept(k) ==
    /\ TrainingAt(k, "scaled")
    /\ model' = IF trained THEN model ELSE [of |-> k, fitted |-> FALSE]
    /\ training' = [training EXCEPT ![k] = IF trained THEN "over" ELSE "model"]
    /\ fitting' = IF trained THEN 0 ELSE k
    /\ worker' = Disturbed
    /\ UNCHANGED <<stored, scaler, trained, count, jobs, call, mlFailures>>

NewModel(k) ==
    /\ TrainingAt(k, "scaled")
    /\ model' = [of |-> k, fitted |-> FALSE]
    /\ training' = [training EXCEPT ![k] = "model"]
    /\ worker' = Disturbed
    /\ UNCHANGED <<stored, scaler, trained, count, fitting, jobs, call, mlFailures>>

FitModel(k) ==
    /\ TrainingAt(k, "model")
    /\ model' = [model EXCEPT !.fitted = TRUE]
    /\ trained' = TRUE
    /\ fitting' = 0
    /\ training' = [training EXCEPT ![k] = "over"]
    /\ worker' = Disturbed
    /\ MLWorks
    /\ UNCHANGED <<stored, scaler, count, jobs, call>>

\* A fit that raises is logged; the object it was fitting stays where it is.
FitFails(k) ==
    /\ TrainingAt(k, "scaler") \/ TrainingAt(k, "model")
    /\ fitting' = 0
    /\ training' = [training EXCEPT ![k] = "over"]
    /\ worker' = Disturbed
    /\ MLFails
    /\ UNCHANGED <<stored, scaler, model, trained, count, jobs, call>>

TrainingStep(k) ==
    SelectRows(k) \/ NewScaler(k) \/ FitScaler(k) \/ NewModel(k) \/ FitModel(k)

TrainingFails(k) == SelectRowsFails(k) \/ FitFails(k)

-----------------------------------------------------------------------------
(* Scoring. *)

\* No score: available is false, or score() finds no number other than 0.
ScoreNothing(e) ==
    /\ LoopIsFree
    /\ call[e].stage = "absent"
    /\ call' = NoneReturned(e)
    /\ UNCHANGED <<stored, scaler, model, trained, count, training, fitting, jobs, worker,
                   mlFailures>>

\* The prediction is handed to the executor and awaited; score() asks for a model,
\* not whether it is fitted.
Score(e) ==
    /\ LoopIsFree
    /\ call[e].stage = "absent"
    /\ HasModel
    /\ jobs' = Append(jobs, e)
    /\ call' = [call EXCEPT ![e].stage = "queued"]
    /\ UNCHANGED <<stored, scaler, model, trained, count, training, fitting, worker, mlFailures>>

\* _predict: transform() with the scaler of this moment.
Transform ==
    /\ jobs # <<>> /\ worker.scaler = 0
    /\ scaler.fitted
    /\ worker' = [scaler |-> scaler.of, disturbed |-> ~LoopIsFree]
    /\ UNCHANGED <<stored, scaler, model, trained, count, training, fitting, jobs, call, mlFailures>>

\* decision_function() with the model of this moment: the job is done.
Decide ==
    /\ worker.scaler # 0
    /\ model.fitted
    /\ call' = [call EXCEPT ![Head(jobs)] =
                   [stage |-> "computed", scaler |-> worker.scaler, model |-> model.of,
                    disturbed |-> worker.disturbed \/ ~LoopIsFree]]
    /\ jobs' = Tail(jobs)
    /\ worker' = Free
    /\ UNCHANGED <<stored, scaler, model, trained, count, training, fitting, mlFailures>>

\* An exception that ends the thread and reaches nobody.
PredictRaises_Lost ==
    /\ jobs # <<>>
    /\ IF worker.scaler = 0 THEN ~scaler.fitted ELSE ~model.fitted
    /\ jobs' = Tail(jobs)
    /\ worker' = Free
    /\ UNCHANGED <<stored, scaler, model, trained, count, training, fitting, call, mlFailures>>

\* The one or the other is not fitted: the exception is the result of the job.
PredictRaises ==
    /\ jobs # <<>>
    /\ IF worker.scaler = 0 THEN ~scaler.fitted ELSE ~model.fitted
    /\ call' = [call EXCEPT ![Head(jobs)] = [NoCall EXCEPT !.stage = "raised"]]
    /\ jobs' = Tail(jobs)
    /\ worker' = Free
    /\ UNCHANGED <<stored, scaler, model, trained, count, training, fitting, mlFailures>>

\* score() goes on with the number: it is counted, and every Interval-th one
\* starts a training.
CountScore(e) ==
    /\ LoopIsFree
    /\ call[e].stage = "computed"
    /\ count' = count + 1
    /\ training' = IF (count + 1) % Interval = 0 THEN Append(training, "selecting") ELSE training
    /\ call' = [call EXCEPT ![e].stage = "scored"]
    /\ UNCHANGED <<stored, scaler, model, trained, fitting, jobs, worker, mlFailures>>

\* An exception handler that counts the event all the same.
ReturnNone_Counted(e) ==
    /\ LoopIsFree
    /\ call[e].stage = "raised"
    /\ count' = count + 1
    /\ training' = IF (count + 1) % Interval = 0 THEN Append(training, "selecting") ELSE training
    /\ call' = NoneReturned(e)
    /\ UNCHANGED <<stored, scaler, model, trained, fitting, jobs, worker, mlFailures>>

\* "ML scoring error": None, and nothing is counted.
ReturnNone(e) ==
    /\ LoopIsFree
    /\ call[e].stage = "raised"
    /\ call' = NoneReturned(e)
    /\ UNCHANGED <<stored, scaler, model, trained, count, training, fitting, jobs, worker,
                   mlFailures>>

WorkerStep == Transform \/ Decide \/ PredictRaises

\* Elsewhere: another event is stored.
StoreEvent ==
    /\ stored' = stored + 1
    /\ UNCHANGED <<scaler, model, trained, count, training, fitting, jobs, worker, call, mlFailures>>

\* The process ends: what was trained is lost and so are the calls under way.
EndEngine ==
    /\ scaler' = Nothing /\ model' = Nothing
    /\ trained' = FALSE /\ count' = 0
    /\ training' = <<>> /\ fitting' = 0
    /\ jobs' = <<>> /\ worker' = Free
    /\ call' = [e \in Events |-> IF call[e].stage \in {"queued", "computed", "raised"}
                                 THEN [NoCall EXCEPT !.stage = "lost"] ELSE call[e]]
    /\ UNCHANGED <<stored, mlFailures>>

MLNext ==
    \/ StartTraining
    \/ \E k \in DOMAIN training : TrainingStep(k) \/ TrainingFails(k)
    \/ \E e \in Events : ScoreNothing(e) \/ Score(e) \/ CountScore(e) \/ ReturnNone(e)
    \/ WorkerStep
    \/ StoreEvent
    \/ EndEngine

MLSpec == MLInit /\ [][MLNext]_mlVars

-----------------------------------------------------------------------------
(* Properties. *)

Trainings == 0..Len(training)

MLTypeOK ==
    /\ stored \in Nat
    /\ scaler \in [of : Trainings, fitted : BOOLEAN]
    /\ model \in [of : Trainings, fitted : BOOLEAN]
    /\ trained \in BOOLEAN
    /\ count \in Nat
    /\ training \in Seq({"selecting", "selected", "scaler", "scaled", "model", "over"})
    /\ fitting \in Trainings
    /\ jobs \in Seq(Events)
    /\ worker \in [scaler : Trainings, disturbed : BOOLEAN]
    /\ call \in [Events -> [stage : {"absent", "queued", "computed", "raised", "scored", "none", "lost"},
                            scaler : Nat, model : Nat, disturbed : BOOLEAN]]
    /\ mlFailures \in 0..MaxMLFailures

\* A score comes from the scaler and the model of one training, unless a
\* retraining was fitting them while the prediction ran in its thread.  In
\* particular a fit that raises half-way leaves nothing that still scores.
ScoresOfOneTraining ==
    \A e \in Events :
        call[e].stage \in {"computed", "scored"} =>
            call[e].disturbed \/ call[e].scaler = call[e].model

\* The scorer is out of use: no training is under way, the scaler and the model do
\* not both work, and no prediction is left that had the two when they did.
OutOfUse ==
    /\ training # <<>>
    /\ \A k \in DOMAIN training : training[k] = "over"
    /\ ~(scaler.fitted /\ model.fitted)
    /\ worker.scaler = 0 \/ ~model.fitted
    /\ \A e \in Events : call[e].stage # "computed"

\* A scorer out of use stays so for the rest of the process, whether the start found
\* too few rows or a retraining raised half-way: events may arrive and be analysed,
\* none is scored, and no retraining ever comes to mend it.
OutOfUseForGood == [][OutOfUse => OutOfUse' \/ training' = <<>>]_mlVars
=============================================================================
