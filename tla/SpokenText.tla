----------------------------- MODULE SpokenText -----------------------------
(***************************************************************************)
(* What a dictation promises its client, without events, channels or       *)
(* timeouts: utterances are transcribed one by one, in any order, and the  *)
(* text is given once.  It is a run of utterances that were transcribed by *)
(* then, one following the other as they were spoken, and never changes.   *)
(***************************************************************************)
EXTENDS Naturals, Sequences

CONSTANT Item   \* the utterances, numbered as they were spoken

VARIABLES
    transcribed,    \* utterances with a transcription
    given,          \* the text was given
    text            \* its utterances

vars == <<transcribed, given, text>>

\* Sequences of consecutive utterances out of a set.
Runs(items) ==
    {q \in Seq(items) : \A k \in 1..(Len(q) - 1) : q[k + 1] = q[k] + 1}

Init ==
    /\ transcribed = {}
    /\ given = FALSE
    /\ text = <<>>

Transcribe(i) ==
    /\ i \notin transcribed
    /\ transcribed' = transcribed \cup {i}
    /\ UNCHANGED <<given, text>>

Give ==
    /\ ~given
    /\ given' = TRUE
    /\ text' \in Runs(transcribed)
    /\ UNCHANGED transcribed

Next == Give \/ \E i \in Item : Transcribe(i)

Spec == Init /\ [][Next]_vars
=============================================================================
