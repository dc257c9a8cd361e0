------------------------------- MODULE MCTrainer -------------------------------
(***************************************************************************)
(* Trainer with the two kinds of save path.                                *)
(***************************************************************************)
EXTENDS Trainer

MCPlainFile == <<>>
MCInDirectory == <<"out">>
=============================================================================
