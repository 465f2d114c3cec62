------------------------------ MODULE Training ------------------------------
(***************************************************************************)
(* How the model the engine serves comes about: training runs              *)
(* (ml/train.py) that keep the best epoch in checkpoints/best, and exports *)
(* (ml/export_onnx.py) of what is there, at any time and through crashes.  *)
(*                                                                         *)
(* A model is the run and epoch it was trained in; an epoch is the F1 that *)
(* its validation gives.  save_pretrained overwrites the directory: until  *)
(* it is through, loading from it fails.                                   *)
(***************************************************************************)
EXTENDS Integers, Sequences

CONSTANTS MaxRuns,  \* bound of the model: training runs
          Epochs,   \* --epochs
          MaxF1     \* bound of the model: values of F1

ASSUME TrainingAssumption == MaxRuns \in Nat /\ Epochs \in Nat \ {0} /\ MaxF1 \in Nat

VARIABLES
    run,      \* the number of training runs so far
    phase,    \* the last run: "training", "saving", "complete" or "crashed"
    scores,   \* the F1 of its epochs so far
    best_f1,
    best,     \* checkpoints/best
    loaded,   \* the model an export has loaded, or Nothing
    onnx      \* services/inference/models/codebert_defect.onnx

trainVars == <<run, phase, scores, best_f1, best>>
modelVars == <<trainVars, loaded, onnx>>

Nothing == [kind |-> "nothing"]
Torn    == [kind |-> "torn"]
Base    == [kind |-> "base"]    \* codebert-base with a classifier at random
Model(r, e) == [kind |-> "trained", run |-> r, epoch |-> e]
Models == {Model(r, e) : r \in 1..MaxRuns, e \in 1..Epochs}

TrainingInit ==
    /\ run = 0 /\ phase = "complete" /\ scores = <<>> /\ best_f1 = 0
    /\ best = Nothing /\ loaded = Nothing /\ onnx = Nothing

-----------------------------------------------------------------------------
(* train *)

\* Mutant: the best of the run before has to be beaten.
Train_KeepsBest ==
    /\ phase \in {"complete", "crashed"} /\ run < MaxRuns
    /\ run' = run + 1 /\ phase' = "training" /\ scores' = <<>>
    /\ UNCHANGED <<best_f1, best, loaded, onnx>>

\* The directory checkpoints is kept, with what is in it.
Train ==
    /\ phase \in {"complete", "crashed"} /\ run < MaxRuns
    /\ run' = run + 1 /\ phase' = "training" /\ scores' = <<>>
    /\ best_f1' = 0
    /\ UNCHANGED <<best, loaded, onnx>>

\* An epoch and its validation; save_pretrained begins if it is the best yet.
Epoch(f1) ==
    /\ phase = "training" /\ Len(scores) < Epochs
    /\ scores' = Append(scores, f1)
    /\ \/ f1 > best_f1 /\ best_f1' = f1 /\ phase' = "saving" /\ best' = Torn
       \/ f1 <= best_f1 /\ UNCHANGED <<best_f1, phase, best>>
    /\ UNCHANGED <<run, loaded, onnx>>

Saved ==
    /\ phase = "saving" /\ phase' = "training"
    /\ best' = Model(run, Len(scores))
    /\ UNCHANGED <<run, scores, best_f1, loaded, onnx>>

\* The history is saved.
Complete ==
    /\ phase = "training" /\ Len(scores) = Epochs /\ phase' = "complete"
    /\ UNCHANGED <<run, scores, best_f1, best, loaded, onnx>>

\* The run is interrupted, or the disk is full.
CrashTraining ==
    /\ phase \in {"training", "saving"} /\ phase' = "crashed"
    /\ UNCHANGED <<run, scores, best_f1, best, loaded, onnx>>

-----------------------------------------------------------------------------
(* export_to_onnx *)

\* from_pretrained, of the checkpoint or else of the base model.  It raises if
\* the checkpoint is torn.
Load ==
    /\ loaded = Nothing /\ best # Torn
    /\ loaded' = IF best = Nothing THEN Base ELSE best
    /\ UNCHANGED <<trainVars, onnx>>

\* torch.onnx.export begins, and overwrites the file.
BeginExport ==
    /\ loaded # Nothing /\ onnx # Torn /\ onnx' = Torn
    /\ UNCHANGED <<trainVars, loaded>>

\* The file is written; the validation changes nothing more.
EndExport ==
    /\ loaded # Nothing /\ onnx = Torn
    /\ onnx' = loaded /\ loaded' = Nothing
    /\ UNCHANGED trainVars

CrashExport ==
    /\ loaded # Nothing /\ loaded' = Nothing
    /\ UNCHANGED <<trainVars, onnx>>

-----------------------------------------------------------------------------
TrainingNext ==
    \/ Train \/ (\E f1 \in 0..MaxF1 : Epoch(f1)) \/ Saved \/ Complete \/ CrashTraining
    \/ Load \/ BeginExport \/ EndExport \/ CrashExport

TrainingSpec == TrainingInit /\ [][TrainingNext]_modelVars

-----------------------------------------------------------------------------
(* Properties *)

\* What a run leaves, once any of its epochs has been of use, is the first of
\* its best epochs, whatever earlier runs have left or how they ended
\* (train.py:197-201).
FirstOfBest ==
    phase \in {"training", "complete"} /\ (\E e \in DOMAIN scores : scores[e] > 0) =>
        \E e \in DOMAIN scores :
            /\ best = Model(run, e)
            /\ \A i \in DOMAIN scores : scores[i] <= scores[e] /\ (scores[i] = scores[e] => e <= i)

\* The model was better, when it was trained, than all its run had before.
BestSoFar(m) ==
    m.kind = "trained" /\ m.run = run =>
        m.epoch \in DOMAIN scores /\ \A i \in 1..m.epoch - 1 : scores[i] < scores[m.epoch]

\* So is what an export picks up while the run goes on, and what it makes of it
\* while the run has long gone on (export_onnx.py:34-44, 63).
BestOfRun == FirstOfBest /\ BestSoFar(loaded) /\ BestSoFar(onnx)
=============================================================================
